---------------------------- MODULE ReaderProofs ----------------------------
(***************************************************************************)
(* What is seen: the reader's page - search, theme, regions, statistics    *)
(* and article explorer show what was chosen last, its layout does not     *)
(* jump and its charts say what their data do - and what an author looks   *)
(* at: the development site, the preview of a draft, an image put into a   *)
(* text.  For each of them an invariant of its box, that it holds at first *)
(* and is kept by every step, and that it gives the part's property.       *)
(***************************************************************************)
EXTENDS Periphery, SequenceTheorems, FiniteSetTheorems, WellFoundedInduction, TLAPS

-----------------------------------------------------------------------------
(* The search: whoever answers, one call at most is wanted.                 *)

SearchCalls ==
    [stage : {"api", "query", "page"}, ticket : Nat, query : DOMAIN HitsOf, load : Nat, size : Nat]
SearchBoxes ==
    [text : Search!Texts, timer : BOOLEAN, epoch : Nat, asked : Search!Texts, hits : Nat, shown : Nat,
     list : Seq(Search!Texts \X Nat), status : {"hint", "searching", "error", "empty", "found"},
     moreHidden : BOOLEAN, moreDisabled : BOOLEAN, busy : BOOLEAN, api : Nat,
     loads : Seq({"pending", "ready", "failed"}), calls : Seq(SearchCalls)]

\* Call j of b holds the ticket of b.
SearchWanted(b, j) == b.calls[j].ticket = b.epoch

\* One call at most is wanted, and it is of the text last searched.
SearchCalled(b) ==
    /\ \A j \in DOMAIN b.calls : b.calls[j].ticket <= b.epoch
    /\ \A j, k \in DOMAIN b.calls : SearchWanted(b, j) /\ SearchWanted(b, k) => j = k
    /\ \A j \in DOMAIN b.calls : SearchWanted(b, j) =>
          /\ b.calls[j].query = b.asked
          /\ b.moreHidden \/ b.moreDisabled
          /\ b.calls[j].stage # "page" => b.shown = 0 /\ b.hits = 0 /\ b.moreHidden /\ b.status = "searching"
          /\ b.calls[j].stage = "page" =>
                /\ b.hits = HitsOf[b.asked] /\ (b.shown < b.hits \/ (b.shown = 0 /\ b.hits = 0))
                /\ b.calls[j].size = Search!Slice(b.hits, b.shown)

SearchAwaited(b) == b.timer \/ \E j \in DOMAIN b.calls : SearchWanted(b, j)

\* What is shown is of the text last searched.
SearchListed(b) ==
    /\ b.list = [k \in 1..b.shown |-> <<b.asked, k>>]
    /\ b.status = "found" => b.shown > 0 /\ b.hits = HitsOf[b.asked]
    /\ b.status = "empty" => b.asked # "" /\ HitsOf[b.asked] = 0
    /\ ~b.moreHidden => b.shown < b.hits /\ b.hits = HitsOf[b.asked] /\ b.asked # "" /\ (b.moreDisabled => SearchAwaited(b))
    /\ b.busy \/ b.status = "searching" => SearchAwaited(b)

SearchGood(b) ==
    /\ b \in SearchBoxes
    /\ SearchCalled(b)
    /\ SearchListed(b)

\* What is left of a sequence without its i-th element.
LEMMA SearchRemoved ==
    ASSUME NEW S, NEW s \in Seq(S), NEW i \in DOMAIN s
    PROVE  LET r     == Search!RemoveAt(s, i)
               at(k) == IF k < i THEN k ELSE k + 1
           IN  /\ r \in Seq(S)
               /\ \A k \in DOMAIN r : k \in Nat /\ at(k) \in DOMAIN s /\ at(k) # i /\ r[k] = s[at(k)]
               /\ \A j \in DOMAIN s : j # i => \E k \in DOMAIN r : at(k) = j
<1> DEFINE r     == Search!RemoveAt(s, i)
           at(k) == IF k < i THEN k ELSE k + 1
           front == SubSeq(s, 1, i - 1)
           back  == SubSeq(s, i + 1, Len(s))
<1>1. r = front \o back
    BY DEF Search!RemoveAt
<1>2. i \in 1..Len(s) /\ Len(s) \in Nat /\ DOMAIN s = 1..Len(s)
    OBVIOUS
<1>3. /\ front \in Seq(S) /\ Len(front) = i - 1
      /\ \A k \in 1..(i - 1) : front[k] = s[k]
    <2>1. \A k \in 1..(i - 1) : s[k] \in S
        BY <1>2
    <2> QED  BY <1>2, <2>1, SubSeqProperties
<1>4. /\ back \in Seq(S) /\ Len(back) = Len(s) - i
      /\ \A k \in 1..(Len(s) - i) : back[k] = s[i + k]
    <2>1. \A k \in (i + 1)..Len(s) : s[k] \in S
        BY <1>2
    <2> QED  BY <1>2, <2>1, SubSeqProperties, SMTT(30)
<1> HIDE DEF r, front, back
<1>5. /\ r \in Seq(S) /\ Len(r) = Len(s) - 1 /\ DOMAIN r = 1..(Len(s) - 1)
      /\ \A k \in 1..(Len(s) - 1) : r[k] = IF k <= i - 1 THEN front[k] ELSE back[k - (i - 1)]
    <2>1. r \in Seq(S) /\ Len(r) = Len(front) + Len(back)
          /\ \A k \in 1..(Len(front) + Len(back)) : r[k] = IF k <= Len(front) THEN front[k] ELSE back[k - Len(front)]
        BY <1>1, <1>3, <1>4, ConcatProperties
    <2> QED  BY <1>2, <1>3, <1>4, <2>1, SMTT(30)
<1>6. \A k \in DOMAIN r : k \in Nat /\ at(k) \in DOMAIN s /\ at(k) # i /\ r[k] = s[at(k)]
    <2> SUFFICES ASSUME NEW k \in 1..(Len(s) - 1)
                 PROVE  k \in Nat /\ at(k) \in DOMAIN s /\ at(k) # i /\ r[k] = s[at(k)]
        BY <1>5
    <2>1. CASE k < i
        BY <1>2, <1>3, <1>5, <2>1
    <2>2. CASE ~(k < i)
        <3>1. k - (i - 1) \in 1..(Len(s) - i) /\ i + (k - (i - 1)) = k + 1 /\ ~(k <= i - 1)
            BY <1>2, <2>2
        <3> QED  BY <1>2, <1>4, <1>5, <2>2, <3>1, SMTT(30)
    <2> QED  BY <2>1, <2>2
<1>7. \A j \in DOMAIN s : j # i => \E k \in DOMAIN r : at(k) = j
    <2> SUFFICES ASSUME NEW j \in 1..Len(s), j # i
                 PROVE  \E k \in 1..(Len(s) - 1) : at(k) = j
        BY <1>2, <1>5
    <2>1. CASE j < i
        BY <1>2, <2>1
    <2>2. CASE ~(j < i)
        <3>1. j - 1 \in 1..(Len(s) - 1) /\ at(j - 1) = j
            BY <1>2, <2>2
        <3> QED  BY <3>1
    <2> QED  BY <2>1, <2>2
<1> QED  BY <1>5, <1>6, <1>7 DEF r

LEMMA SearchInit ==
    ASSUME Search!Init
    PROVE  SearchGood(state)
<1>1. state = [text |-> "", timer |-> FALSE, epoch |-> 0, asked |-> "", hits |-> 0, shown |-> 0, list |-> <<>>,
               status |-> "hint", moreHidden |-> TRUE, moreDisabled |-> FALSE, busy |-> FALSE,
               api |-> 0, loads |-> <<>>, calls |-> <<>>]
    BY DEF Search!Init
<1>2. "" \in Search!Texts
    BY DEF Search!Texts
<1>3. state \in SearchBoxes
    <2>1. <<>> \in Seq(Search!Texts \X Nat) /\ <<>> \in Seq({"pending", "ready", "failed"}) /\ <<>> \in Seq(SearchCalls)
        BY EmptySeq
    <2> QED  BY <1>1, <1>2, <2>1 DEF SearchBoxes
<1>4. SearchCalled(state)
    <2>1. DOMAIN state.calls = {}
        <3>1. state.calls = <<>>
            BY <1>1
        <3> QED  BY <3>1
    <2> QED  BY <2>1 DEF SearchCalled
<1>5. state.list = [k \in 1..state.shown |-> <<state.asked, k>>]
    <2> DEFINE f == [k \in 1..0 |-> <<"", k>>]
    <2>1. f = <<>>
        <3>1. f \in Seq({f[k] : k \in 1..0}) /\ Len(f) = 0
            OBVIOUS
        <3> QED  BY <3>1, EmptySeq
    <2> QED  BY <1>1, <2>1
<1>6. SearchListed(state)
    <2>1. state.status = "hint" /\ state.moreHidden = TRUE /\ state.busy = FALSE
        BY <1>1
    <2> QED  BY <1>5, <2>1 DEF SearchListed
<1> QED  BY <1>3, <1>4, <1>6 DEF SearchGood

\* A step that leaves what is shown and the calls alone, or only disowns them all.
LEMMA SearchTyped ==
    ASSUME SearchGood(state), Search!Type
    PROVE  SearchGood(state')
<1>0. state \in SearchBoxes /\ SearchCalled(state) /\ SearchListed(state)
    BY DEF SearchGood
<1>1. PICK text \in Search!Texts :
        state' = [state EXCEPT !.text = text, !.epoch = @ + 1, !.moreHidden = TRUE, !.timer = TRUE]
    BY DEF Search!Type
<1> DEFINE n == state.epoch + 1
           c == [state EXCEPT !.text = text, !.epoch = n, !.moreHidden = TRUE, !.timer = TRUE]
<1>2. state' = c /\ n \in Nat /\ n > state.epoch
    BY <1>0, <1>1 DEF SearchBoxes
<1> HIDE DEF n
<1>3. /\ c \in SearchBoxes /\ c.epoch = n /\ c.moreHidden = TRUE /\ c.timer = TRUE
      /\ c.calls = state.calls /\ c.asked = state.asked /\ c.hits = state.hits /\ c.shown = state.shown
      /\ c.list = state.list /\ c.status = state.status /\ c.busy = state.busy /\ c.moreDisabled = state.moreDisabled
    BY <1>0, <1>2 DEF SearchBoxes
<1> HIDE DEF c
<1>4. \A j \in DOMAIN c.calls : c.calls[j].ticket < c.epoch /\ c.calls[j].ticket \in Nat /\ c.epoch \in Nat
    <2>1. \A j \in DOMAIN state.calls : state.calls[j] \in SearchCalls /\ state.epoch \in Nat
        BY <1>0 DEF SearchBoxes
    <2> QED  BY <1>0, <1>2, <1>3, <2>1 DEF SearchCalled, SearchCalls
<1>5. SearchCalled(c)
    BY <1>4 DEF SearchCalled, SearchWanted
<1>6. SearchListed(c)
    BY <1>0, <1>3 DEF SearchListed, SearchAwaited
<1> QED  BY <1>2, <1>3, <1>5, <1>6 DEF SearchGood

\* What is shown, and the timer.
SearchSame(c, b) ==
    /\ c.text = b.text /\ c.timer = b.timer /\ c.epoch = b.epoch /\ c.asked = b.asked /\ c.hits = b.hits /\ c.shown = b.shown
    /\ c.list = b.list /\ c.status = b.status /\ c.moreHidden = b.moreHidden /\ c.moreDisabled = b.moreDisabled
    /\ c.busy = b.busy

LEMMA SearchListedSame ==
    ASSUME NEW b, NEW c, SearchSame(c, b), SearchListed(b), SearchAwaited(b) => SearchAwaited(c)
    PROVE  SearchListed(c)
<1>1. c.list = [k \in 1..c.shown |-> <<c.asked, k>>]
    <2>1. b.list = [k \in 1..b.shown |-> <<b.asked, k>>]
        BY DEF SearchListed
    <2>2. c.list = b.list /\ c.shown = b.shown /\ c.asked = b.asked
        BY DEF SearchSame
    <2> QED  BY <2>1, <2>2, Zenon
<1>2. /\ c.shown = b.shown /\ c.hits = b.hits /\ c.asked = b.asked /\ c.status = b.status
      /\ c.moreHidden = b.moreHidden /\ c.moreDisabled = b.moreDisabled /\ c.busy = b.busy
    BY DEF SearchSame
<1> QED  BY <1>1, <1>2 DEF SearchListed

\* A call that ended: the others are what they were; once the wanted one ended none is wanted.
LEMMA SearchEnded ==
    ASSUME SearchGood(state), NEW i \in DOMAIN state.calls
    PROVE  LET c == Search!Ends(i) IN
           /\ c \in SearchBoxes /\ SearchSame(c, state)
           /\ SearchCalled(c)
           /\ ~SearchWanted(state, i) => SearchGood(c)
           /\ SearchWanted(state, i) => \A k \in DOMAIN c.calls : c.calls[k].ticket < state.epoch
<1> DEFINE r     == Search!RemoveAt(state.calls, i)
           at(k) == IF k < i THEN k ELSE k + 1
           c     == [state EXCEPT !.calls = r]
<1>0. state \in SearchBoxes /\ SearchCalled(state) /\ SearchListed(state) /\ state.calls \in Seq(SearchCalls) /\ state.epoch \in Nat
    BY DEF SearchGood, SearchBoxes
<1>1. Search!Ends(i) = c
    BY DEF Search!Ends
<1>2. /\ r \in Seq(SearchCalls)
      /\ \A k \in DOMAIN r : k \in Nat /\ at(k) \in DOMAIN state.calls /\ at(k) # i /\ r[k] = state.calls[at(k)]
      /\ \A j \in DOMAIN state.calls : j # i => \E k \in DOMAIN r : at(k) = j
    BY <1>0, SearchRemoved, SMTT(30)
<1> HIDE DEF r
<1>3. c \in SearchBoxes /\ SearchSame(c, state) /\ c.calls = r
    BY <1>0, <1>2 DEF SearchBoxes, SearchSame
<1> HIDE DEF c
<1>4. \A k, l \in DOMAIN r : at(k) = at(l) => k = l
    <2>1. i \in Nat
        BY <1>0
    <2> QED  BY <1>2, <2>1
<1> HIDE DEF at
<1>5. SearchCalled(c)
    <2>1. \A k \in DOMAIN r : c.calls[k] = state.calls[at(k)] /\ at(k) \in DOMAIN state.calls
        BY <1>2, <1>3
    <2>2. DOMAIN c.calls = DOMAIN r
        BY <1>3
    <2>3. \A k \in DOMAIN c.calls : SearchWanted(c, k) => SearchWanted(state, at(k))
        BY <1>3, <2>1, <2>2 DEF SearchWanted, SearchSame
    <2>4. \A k \in DOMAIN c.calls : c.calls[k].ticket <= c.epoch
        BY <1>0, <1>3, <2>1, <2>2 DEF SearchCalled, SearchSame
    <2>5. \A k, l \in DOMAIN c.calls : SearchWanted(c, k) /\ SearchWanted(c, l) => k = l
        BY <1>0, <1>4, <2>1, <2>2, <2>3 DEF SearchCalled
    <2>6. ASSUME NEW k \in DOMAIN c.calls, SearchWanted(c, k)
          PROVE  /\ c.calls[k].query = c.asked
                 /\ c.moreHidden \/ c.moreDisabled
                 /\ c.calls[k].stage # "page" => c.shown = 0 /\ c.hits = 0 /\ c.moreHidden /\ c.status = "searching"
                 /\ c.calls[k].stage = "page" =>
                       /\ c.hits = HitsOf[c.asked] /\ (c.shown < c.hits \/ (c.shown = 0 /\ c.hits = 0))
                       /\ c.calls[k].size = Search!Slice(c.hits, c.shown)
        <3>1. SearchWanted(state, at(k)) /\ at(k) \in DOMAIN state.calls /\ c.calls[k] = state.calls[at(k)]
            BY <2>1, <2>2, <2>3, <2>6
        <3> DEFINE j == at(k)
        <3> HIDE DEF j
        <3>2. /\ state.calls[j].query = state.asked
              /\ state.moreHidden \/ state.moreDisabled
              /\ state.calls[j].stage # "page" => state.shown = 0 /\ state.hits = 0 /\ state.moreHidden /\ state.status = "searching"
              /\ state.calls[j].stage = "page" =>
                    /\ state.hits = HitsOf[state.asked] /\ (state.shown < state.hits \/ (state.shown = 0 /\ state.hits = 0))
                    /\ state.calls[j].size = Search!Slice(state.hits, state.shown)
            BY <1>0, <3>1 DEF SearchCalled, j
        <3> QED  BY <1>3, <3>1, <3>2 DEF SearchSame, j
    <2> QED  BY <2>4, <2>5, <2>6 DEF SearchCalled
<1>6. ASSUME ~SearchWanted(state, i)
      PROVE  SearchGood(c)
    <2>1. SearchAwaited(state) => SearchAwaited(c)
        BY <1>2, <1>3, <1>6 DEF SearchAwaited, SearchWanted, SearchSame
    <2>2. SearchListed(c)
        BY <1>0, <1>3, <2>1, SearchListedSame
    <2> QED  BY <1>3, <1>5, <2>2 DEF SearchGood
<1>7. ASSUME SearchWanted(state, i)
      PROVE  \A k \in DOMAIN c.calls : c.calls[k].ticket < state.epoch
    <2> SUFFICES ASSUME NEW k \in DOMAIN r
                 PROVE  r[k].ticket < state.epoch
        BY <1>3
    <2>1. at(k) \in DOMAIN state.calls /\ at(k) # i /\ r[k] = state.calls[at(k)]
        BY <1>2
    <2>2. r[k].ticket # state.epoch /\ r[k].ticket <= state.epoch
        BY <1>0, <1>7, <2>1 DEF SearchCalled, SearchWanted
    <2>3. r[k].ticket \in Nat
        <3>1. r[k] \in SearchCalls
            BY <1>2
        <3> QED  BY <3>1 DEF SearchCalls
    <2> QED  BY <1>0, <2>2, <2>3
<1> QED  BY <1>1, <1>3, <1>5, <1>6, <1>7

\* A call added to calls none of which is wanted.
LEMMA SearchAdded ==
    ASSUME NEW b \in SearchBoxes, \A j \in DOMAIN b.calls : b.calls[j].ticket < b.epoch,
           NEW call \in SearchCalls, call.ticket = b.epoch, call.query = b.asked, b.moreHidden \/ b.moreDisabled,
           call.stage # "page" => b.shown = 0 /\ b.hits = 0 /\ b.moreHidden /\ b.status = "searching",
           call.stage = "page" => /\ b.hits = HitsOf[b.asked] /\ (b.shown < b.hits \/ (b.shown = 0 /\ b.hits = 0))
                                  /\ call.size = Search!Slice(b.hits, b.shown)
    PROVE  LET c == [b EXCEPT !.calls = Append(@, call)] IN
           c \in SearchBoxes /\ SearchSame(c, b) /\ SearchCalled(c) /\ SearchAwaited(c)
<1> DEFINE calls == Append(b.calls, call)
           n     == Len(b.calls) + 1
           c     == [b EXCEPT !.calls = calls]
<1>1. b.calls \in Seq(SearchCalls) /\ b.epoch \in Nat
    BY DEF SearchBoxes
<1>2. /\ calls \in Seq(SearchCalls) /\ DOMAIN calls = DOMAIN b.calls \union {n} /\ n \notin DOMAIN b.calls /\ calls[n] = call
      /\ \A j \in DOMAIN b.calls : calls[j] = b.calls[j]
    <2>1. DOMAIN calls = 1..(Len(b.calls) + 1) /\ DOMAIN b.calls = 1..Len(b.calls) /\ Len(b.calls) \in Nat
        BY <1>1
    <2> QED  BY <1>1, <2>1
<1>3. [b EXCEPT !.calls = Append(@, call)] = c
    OBVIOUS
<1> HIDE DEF calls, n
<1>4. c \in SearchBoxes /\ SearchSame(c, b) /\ c.calls = calls
    BY <1>2 DEF SearchBoxes, SearchSame
<1> HIDE DEF c
<1>5. \A j \in DOMAIN b.calls : ~SearchWanted(c, j) /\ c.calls[j].ticket <= c.epoch
    <2> SUFFICES ASSUME NEW j \in DOMAIN b.calls  PROVE ~SearchWanted(c, j) /\ c.calls[j].ticket <= c.epoch
        OBVIOUS
    <2>1. b.calls[j].ticket \in Nat
        <3>1. b.calls[j] \in SearchCalls
            BY <1>1
        <3> QED  BY <3>1 DEF SearchCalls
    <2> QED  BY <1>1, <1>2, <1>4, <2>1 DEF SearchWanted, SearchSame
<1>6. SearchWanted(c, n) /\ n \in DOMAIN c.calls /\ c.calls[n] = call /\ c.calls[n].ticket <= c.epoch
    BY <1>1, <1>2, <1>4 DEF SearchWanted, SearchSame
<1>7. \A j \in DOMAIN c.calls : j = n \/ j \in DOMAIN b.calls
    BY <1>2, <1>4
<1>8. SearchCalled(c)
    BY <1>4, <1>5, <1>6, <1>7 DEF SearchCalled, SearchSame
<1>9. SearchAwaited(c)
    BY <1>6 DEF SearchAwaited
<1> QED  BY <1>3, <1>4, <1>8, <1>9

LEMMA SearchSearched ==
    ASSUME SearchGood(state), Search!Search
    PROVE  SearchGood(state')
<1>0. state \in SearchBoxes /\ SearchCalled(state) /\ SearchListed(state)
    BY DEF SearchGood
<1> DEFINE n == state.epoch + 1
           load == IF state.api = 0 THEN Len(state.loads) + 1 ELSE state.api
           loads == IF state.api = 0 THEN Append(state.loads, "pending") ELSE state.loads
           call == [stage |-> "api", ticket |-> n, query |-> state.text, load |-> load, size |-> 0]
           b == [state EXCEPT !.timer = FALSE, !.epoch = n, !.list = <<>>, !.moreHidden = TRUE,
                              !.shown = 0, !.hits = 0, !.asked = state.text]
           d == [b EXCEPT !.status = "searching", !.busy = TRUE, !.api = load, !.loads = loads]
           e == [b EXCEPT !.status = "hint", !.busy = FALSE]
<1>1. n \in Nat /\ n > state.epoch /\ state.text \in Search!Texts /\ <<>> \in Seq(Search!Texts \X Nat)
    BY <1>0, EmptySeq DEF SearchBoxes
<1>2. load \in Nat /\ loads \in Seq({"pending", "ready", "failed"})
    <2>1. state.api \in Nat /\ state.loads \in Seq({"pending", "ready", "failed"})
        BY <1>0 DEF SearchBoxes
    <2> QED  BY <2>1
<1>3. \/ state.text = "" /\ state' = e
      \/ state.text # "" /\ state' = [d EXCEPT !.calls = Append(@, call)]
    <2>1. state' = IF state.text = "" THEN e ELSE
                     [b EXCEPT !.status = "searching", !.busy = TRUE, !.api = load,
                               !.loads = IF state.api = 0 THEN Append(@, "pending") ELSE @,
                               !.calls = Append(@, call)]
        BY DEF Search!Search
    <2>2. b.loads = state.loads /\ b.calls = state.calls
        BY <1>0 DEF SearchBoxes
    <2> HIDE DEF b
    <2> QED  BY <2>1, <2>2
<1> HIDE DEF n, load, loads
<1>4. /\ b \in SearchBoxes /\ b.timer = FALSE /\ b.epoch = n /\ b.list = <<>> /\ b.moreHidden = TRUE /\ b.shown = 0 /\ b.hits = 0
      /\ b.asked = state.text /\ b.calls = state.calls
    BY <1>0, <1>1 DEF SearchBoxes
<1> HIDE DEF b
<1>5. \A j \in DOMAIN b.calls : b.calls[j].ticket < n
    <2>1. \A j \in DOMAIN state.calls : state.calls[j] \in SearchCalls /\ state.epoch \in Nat
        BY <1>0 DEF SearchBoxes
    <2> QED  BY <1>0, <1>1, <1>4, <2>1 DEF SearchCalled, SearchCalls
<1>6. <<>> = [k \in 1..0 |-> <<state.text, k>>]
    <2> DEFINE f == [k \in 1..0 |-> <<state.text, k>>]
    <2>1. f = <<>>
        <3>1. f \in Seq({f[k] : k \in 1..0}) /\ Len(f) = 0
            OBVIOUS
        <3> QED  BY <3>1, EmptySeq
    <2> QED  BY <2>1
<1>7. CASE state.text = "" /\ state' = e
    <2>1. /\ e \in SearchBoxes /\ e.status = "hint" /\ e.busy = FALSE /\ e.epoch = n /\ e.list = <<>> /\ e.moreHidden = TRUE
          /\ e.shown = 0 /\ e.asked = state.text /\ e.calls = b.calls
        BY <1>4 DEF SearchBoxes
    <2> HIDE DEF e
    <2>2. SearchCalled(e)
        <3>1. \A j \in DOMAIN e.calls : e.calls[j].ticket < n /\ e.calls[j].ticket \in Nat
            <4>1. e.calls \in Seq(SearchCalls)
                BY <2>1 DEF SearchBoxes
            <4>2. \A j \in DOMAIN e.calls : e.calls[j] \in SearchCalls
                BY <4>1
            <4> QED  BY <1>5, <2>1, <4>2 DEF SearchCalls
        <3> QED  BY <1>1, <2>1, <3>1 DEF SearchCalled, SearchWanted
    <2>3. SearchListed(e)
        BY <1>6, <2>1 DEF SearchListed
    <2> QED  BY <1>7, <2>1, <2>2, <2>3 DEF SearchGood
<1>8. CASE state.text # "" /\ state' = [d EXCEPT !.calls = Append(@, call)]
    <2>1. /\ d \in SearchBoxes /\ d.status = "searching" /\ d.epoch = n /\ d.list = <<>> /\ d.moreHidden = TRUE
          /\ d.shown = 0 /\ d.hits = 0 /\ d.asked = state.text /\ d.calls = b.calls
        BY <1>2, <1>4 DEF SearchBoxes
    <2>2. state.text \in DOMAIN HitsOf
        BY <1>1, <1>8 DEF Search!Texts
    <2>3. call \in SearchCalls /\ call.stage = "api" /\ call.ticket = n /\ call.query = state.text
        BY <1>1, <1>2, <2>2 DEF SearchCalls
    <2> HIDE DEF d, call
    <2> DEFINE c == [d EXCEPT !.calls = Append(@, call)]
    <2>4. c \in SearchBoxes /\ SearchSame(c, d) /\ SearchCalled(c) /\ SearchAwaited(c)
        BY <1>5, <2>1, <2>3, SearchAdded
    <2> HIDE DEF c
    <2>5. SearchListed(c)
        BY <1>6, <2>1, <2>4 DEF SearchListed, SearchSame
    <2> QED  BY <1>8, <2>4, <2>5 DEF SearchGood, c
<1> QED  BY <1>3, <1>7, <1>8

\* Boxes that differ only in what no property is about.
LEMMA SearchAside ==
    ASSUME SearchGood(state), NEW c \in SearchBoxes, SearchSame(c, state), c.calls = state.calls
    PROVE  SearchGood(c)
<1>1. SearchCalled(c)
    BY DEF SearchGood, SearchCalled, SearchWanted, SearchSame
<1>2. SearchAwaited(state) => SearchAwaited(c)
    BY DEF SearchAwaited, SearchWanted, SearchSame
<1>3. SearchListed(c)
    BY <1>2, SearchListedSame DEF SearchGood
<1> QED  BY <1>1, <1>3 DEF SearchGood

\* A call that is not wanted any more ends and changes nothing else; one that is fails.
LEMMA SearchFailed ==
    ASSUME SearchGood(state), NEW i \in DOMAIN state.calls, Search!Fails(i)
    PROVE  SearchGood(state')
<1>0. state \in SearchBoxes /\ SearchListed(state) /\ SearchCalled(state) /\ state.calls[i] \in SearchCalls
    <2>1. state \in SearchBoxes /\ SearchListed(state) /\ SearchCalled(state)
        BY DEF SearchGood
    <2>2. state.calls \in Seq(SearchCalls)
        BY <2>1 DEF SearchBoxes
    <2> QED  BY <2>1, <2>2
<1>1. CASE ~SearchWanted(state, i)
    BY <1>1, SearchEnded DEF Search!Fails, Search!Failed, Search!Current, SearchWanted
<1>2. CASE SearchWanted(state, i)
    <2> DEFINE d      == Search!Ends(i)
               hidden == state.calls[i].stage = "page" \/ d.moreHidden
               off    == state.calls[i].stage # "page" /\ d.moreDisabled
               c      == [d EXCEPT !.api = 0, !.status = "error", !.busy = FALSE, !.moreHidden = hidden, !.moreDisabled = off]
    <2>1. state' = c
        BY <1>2 DEF Search!Fails, Search!Failed, Search!Current, SearchWanted
    <2>2. /\ d \in SearchBoxes /\ SearchSame(d, state)
          /\ \A k \in DOMAIN d.calls : d.calls[k].ticket < state.epoch
        BY <1>2, SearchEnded
    <2>3. hidden \in BOOLEAN /\ off \in BOOLEAN
        BY <2>2 DEF SearchBoxes
    <2>4. hidden
        BY <1>0, <1>2, <2>2 DEF SearchCalled, SearchSame
    <2> HIDE DEF d, hidden, off
    <2>5. /\ c \in SearchBoxes /\ c.calls = d.calls /\ c.status = "error" /\ c.busy = FALSE /\ c.moreHidden = hidden
          /\ c.epoch = d.epoch /\ c.list = d.list /\ c.asked = d.asked /\ c.shown = d.shown
        BY <2>2, <2>3 DEF SearchBoxes
    <2> HIDE DEF c
    <2>6. SearchCalled(c)
        <3>1. c.calls \in Seq(SearchCalls) /\ c.epoch = state.epoch /\ c.epoch \in Nat
            BY <2>2, <2>5 DEF SearchBoxes, SearchSame
        <3>2. \A k \in DOMAIN c.calls : c.calls[k] \in SearchCalls
            BY <3>1
        <3>3. \A k \in DOMAIN c.calls : c.calls[k].ticket \in Nat /\ c.calls[k].ticket < c.epoch
            BY <2>2, <2>5, <3>1, <3>2 DEF SearchCalls
        <3> QED  BY <3>1, <3>3 DEF SearchCalled, SearchWanted
    <2>7. SearchListed(c)
        <3>1. c.moreHidden /\ ~c.busy /\ c.status = "error"
            BY <2>4, <2>5
        <3>2. c.list = [k \in 1..c.shown |-> <<c.asked, k>>]
            <4>1. state.list = [k \in 1..state.shown |-> <<state.asked, k>>]
                BY <1>0 DEF SearchListed
            <4>2. c.list = state.list /\ c.shown = state.shown /\ c.asked = state.asked
                BY <2>2, <2>5 DEF SearchSame
            <4> QED  BY <4>1, <4>2, Zenon
        <3> QED  BY <3>1, <3>2 DEF SearchListed
    <2> QED  BY <2>1, <2>5, <2>6, <2>7 DEF SearchGood
<1> QED  BY <1>1, <1>2

\* Call i is replaced by one with the same ticket and query.
LEMMA SearchReplaced ==
    ASSUME NEW b \in SearchBoxes, NEW i \in DOMAIN b.calls, NEW call \in SearchCalls, call.ticket = b.calls[i].ticket
    PROVE  LET c == [b EXCEPT !.calls[i] = call] IN
           /\ c \in SearchBoxes /\ SearchSame(c, b) /\ DOMAIN c.calls = DOMAIN b.calls /\ c.calls[i] = call
           /\ \A j \in DOMAIN b.calls : j # i => c.calls[j] = b.calls[j]
           /\ \A j \in DOMAIN b.calls : SearchWanted(c, j) = SearchWanted(b, j)
           /\ SearchAwaited(c) = SearchAwaited(b)
<1> DEFINE calls == [b.calls EXCEPT ![i] = call]
           c     == [b EXCEPT !.calls = calls]
<1>1. b.calls \in Seq(SearchCalls)
    BY DEF SearchBoxes
<1>2. /\ calls \in Seq(SearchCalls) /\ DOMAIN calls = DOMAIN b.calls /\ calls[i] = call
      /\ \A j \in DOMAIN b.calls : j # i => calls[j] = b.calls[j]
    BY <1>1
<1>3. [b EXCEPT !.calls[i] = call] = c
    OBVIOUS
<1> HIDE DEF calls
<1>4. c \in SearchBoxes /\ SearchSame(c, b) /\ c.calls = calls
    BY <1>2 DEF SearchBoxes, SearchSame
<1> HIDE DEF c
<1>5. \A j \in DOMAIN b.calls : SearchWanted(c, j) = SearchWanted(b, j)
    BY <1>2, <1>4 DEF SearchWanted, SearchSame
<1>6. SearchAwaited(c) = SearchAwaited(b)
    <2>1. DOMAIN c.calls = DOMAIN b.calls /\ c.timer = b.timer
        BY <1>2, <1>4 DEF SearchSame
    <2>2. (\E j \in DOMAIN c.calls : SearchWanted(c, j)) = (\E j \in DOMAIN b.calls : SearchWanted(b, j))
        BY <1>5, <2>1, Zenon
    <2> QED  BY <2>1, <2>2, Zenon DEF SearchAwaited
<1> QED  BY <1>2, <1>3, <1>4, <1>5, <1>6

\* The index is there: the query is asked.
LEMMA SearchReady ==
    ASSUME SearchGood(state), NEW i \in DOMAIN state.calls, Search!ApiReady(i)
    PROVE  SearchGood(state')
<1>0. state \in SearchBoxes /\ SearchListed(state) /\ SearchCalled(state) /\ state.calls[i] \in SearchCalls
    <2>1. state \in SearchBoxes /\ SearchListed(state) /\ SearchCalled(state)
        BY DEF SearchGood
    <2>2. state.calls \in Seq(SearchCalls)
        BY <2>1 DEF SearchBoxes
    <2> QED  BY <2>1, <2>2
<1> DEFINE call == [state.calls[i] EXCEPT !.stage = "query"]
           c    == [state EXCEPT !.calls[i] = call]
<1>1. call \in SearchCalls /\ call.ticket = state.calls[i].ticket /\ call.query = state.calls[i].query /\ call.stage = "query"
    BY <1>0 DEF SearchCalls
<1>2. state.calls[i].stage = "api"
    BY DEF Search!ApiReady
<1>3. state' = c
    BY DEF Search!ApiReady
<1> HIDE DEF call
<1>4. /\ c \in SearchBoxes /\ SearchSame(c, state) /\ DOMAIN c.calls = DOMAIN state.calls /\ c.calls[i] = call
      /\ \A j \in DOMAIN state.calls : j # i => c.calls[j] = state.calls[j]
      /\ \A j \in DOMAIN state.calls : SearchWanted(c, j) = SearchWanted(state, j)
      /\ SearchAwaited(c) = SearchAwaited(state)
    BY <1>0, <1>1, SearchReplaced
<1> HIDE DEF c
<1>5. SearchCalled(c)
    <2>1. \A j \in DOMAIN c.calls : c.calls[j].ticket <= c.epoch
        BY <1>0, <1>1, <1>4 DEF SearchCalled, SearchSame
    <2>2. \A j, k \in DOMAIN c.calls : SearchWanted(c, j) /\ SearchWanted(c, k) => j = k
        BY <1>0, <1>4 DEF SearchCalled
    <2>3. ASSUME NEW j \in DOMAIN c.calls, SearchWanted(c, j)
          PROVE  /\ c.calls[j].query = c.asked
                 /\ c.moreHidden \/ c.moreDisabled
                 /\ c.calls[j].stage # "page" => c.shown = 0 /\ c.hits = 0 /\ c.moreHidden /\ c.status = "searching"
                 /\ c.calls[j].stage = "page" =>
                       /\ c.hits = HitsOf[c.asked] /\ (c.shown < c.hits \/ (c.shown = 0 /\ c.hits = 0))
                       /\ c.calls[j].size = Search!Slice(c.hits, c.shown)
        <3>1. SearchWanted(state, j) /\ j \in DOMAIN state.calls
            BY <1>4, <2>3
        <3>2. /\ state.calls[j].query = state.asked
              /\ state.moreHidden \/ state.moreDisabled
              /\ state.calls[j].stage # "page" => state.shown = 0 /\ state.hits = 0 /\ state.moreHidden /\ state.status = "searching"
              /\ state.calls[j].stage = "page" =>
                    /\ state.hits = HitsOf[state.asked] /\ (state.shown < state.hits \/ (state.shown = 0 /\ state.hits = 0))
                    /\ state.calls[j].size = Search!Slice(state.hits, state.shown)
            BY <1>0, <3>1 DEF SearchCalled
        <3>3. CASE j = i
            BY <1>1, <1>2, <1>4, <3>2, <3>3 DEF SearchSame
        <3>4. CASE j # i
            BY <1>4, <3>1, <3>2, <3>4 DEF SearchSame
        <3> QED  BY <3>3, <3>4
    <2> QED  BY <2>1, <2>2, <2>3 DEF SearchCalled
<1>6. SearchListed(c)
    BY <1>0, <1>4, SearchListedSame
<1> QED  BY <1>3, <1>4, <1>5, <1>6 DEF SearchGood

\* A page does not go past the last hit, and only that of an empty answer is empty.
LEMMA SearchSlice ==
    ASSUME NEW hits \in Nat, NEW shown \in Nat, shown < hits \/ (shown = 0 /\ hits = 0)
    PROVE  LET size == Search!Slice(hits, shown) IN
           size \in Nat /\ shown + size <= hits /\ (hits # 0 => shown + size > 0)
<1>1. HitsPerPage \in Nat \ {0}
    BY SearchAssumption, Zenon
<1> QED  BY <1>1 DEF Search!Slice, Search!Smaller

\* The wanted answer is counted, and its first page asked for.
LEMMA SearchAnswered ==
    ASSUME SearchGood(state), NEW i \in DOMAIN state.calls, Search!Answered(i)
    PROVE  SearchGood(state')
<1>0. state \in SearchBoxes /\ SearchListed(state) /\ SearchCalled(state) /\ state.calls[i] \in SearchCalls
    <2>1. state \in SearchBoxes /\ SearchListed(state) /\ SearchCalled(state)
        BY DEF SearchGood
    <2>2. state.calls \in Seq(SearchCalls)
        BY <2>1 DEF SearchBoxes
    <2> QED  BY <2>1, <2>2
<1>1. CASE ~SearchWanted(state, i)
    BY <1>1, SearchEnded DEF Search!Answered, Search!Current, SearchWanted
<1>2. CASE SearchWanted(state, i)
    <2> DEFINE hits == HitsOf[state.calls[i].query]
               size == Search!Slice(hits, state.shown)
               call == [state.calls[i] EXCEPT !.stage = "page", !.size = size]
               b    == [state EXCEPT !.hits = hits, !.moreDisabled = TRUE, !.busy = TRUE]
               c    == [b EXCEPT !.calls[i] = call]
    <2>1. /\ state.calls[i].stage = "query" /\ state.calls[i].query = state.asked /\ state.calls[i].query \in DOMAIN HitsOf
          /\ state.shown = 0 /\ state.moreHidden /\ state.status = "searching"
        BY <1>0, <1>2 DEF Search!Answered, SearchCalled, SearchCalls
    <2>2. hits \in Nat /\ size \in Nat
        <3>1. hits \in Nat
            BY <2>1, SearchAssumption
        <3>2. state.shown \in Nat /\ (state.shown < hits \/ (state.shown = 0 /\ hits = 0))
            BY <2>1, <3>1
        <3> HIDE DEF hits
        <3> QED  BY <3>1, <3>2, SearchSlice
    <2>3. state' = [state EXCEPT !.hits = hits, !.moreDisabled = TRUE, !.busy = TRUE, !.calls[i] = call]
        BY <1>2 DEF Search!Answered, Search!Current, SearchWanted
    <2>4. [state EXCEPT !.hits = hits, !.moreDisabled = TRUE, !.busy = TRUE, !.calls[i] = call] = c
        BY <1>0 DEF SearchBoxes
    <2>5. /\ call \in SearchCalls /\ call.ticket = state.calls[i].ticket /\ call.query = state.asked
          /\ call.stage = "page" /\ call.size = size
        BY <1>0, <2>1, <2>2 DEF SearchCalls
    <2> HIDE DEF call
    <2>6. /\ b \in SearchBoxes /\ b.hits = hits /\ b.moreDisabled = TRUE /\ b.calls = state.calls
          /\ b.epoch = state.epoch /\ b.list = state.list /\ b.asked = state.asked /\ b.shown = state.shown
          /\ b.moreHidden = state.moreHidden /\ b.status = state.status /\ b.timer = state.timer
        BY <1>0, <2>2 DEF SearchBoxes
    <2> HIDE DEF hits, size, b
    <2>7. /\ c \in SearchBoxes /\ SearchSame(c, b) /\ DOMAIN c.calls = DOMAIN b.calls /\ c.calls[i] = call
          /\ \A j \in DOMAIN b.calls : j # i => c.calls[j] = b.calls[j]
          /\ \A j \in DOMAIN b.calls : SearchWanted(c, j) = SearchWanted(b, j)
          /\ SearchAwaited(c) = SearchAwaited(b)
        BY <2>5, <2>6, SearchReplaced
    <2> HIDE DEF c
    <2>8. \A j \in DOMAIN c.calls : SearchWanted(c, j) => j = i
        BY <1>0, <1>2, <2>6, <2>7 DEF SearchCalled, SearchWanted
    <2>9. SearchCalled(c)
        <3>1. \A j \in DOMAIN c.calls : c.calls[j].ticket <= c.epoch
            BY <1>0, <2>5, <2>6, <2>7 DEF SearchCalled, SearchSame
        <3>2. c.hits = HitsOf[c.asked] /\ (c.shown < c.hits \/ (c.shown = 0 /\ c.hits = 0))
            BY <2>1, <2>2, <2>6, <2>7 DEF SearchSame, hits
        <3>3. c.calls[i].size = Search!Slice(c.hits, c.shown)
            BY <2>5, <2>6, <2>7 DEF SearchSame, size
        <3> QED  BY <2>5, <2>6, <2>7, <2>8, <3>1, <3>2, <3>3 DEF SearchCalled, SearchSame
    <2>10. SearchListed(c)
        <3>1. SearchAwaited(c)
            BY <1>2, <2>6, <2>7 DEF SearchAwaited, SearchWanted
        <3> QED  BY <1>0, <2>1, <2>6, <2>7, <3>1 DEF SearchListed, SearchSame
    <2> QED  BY <2>3, <2>4, <2>7, <2>9, <2>10 DEF SearchGood
<1> QED  BY <1>1, <1>2

\* The wanted page continues the list.
LEMMA SearchPaged ==
    ASSUME SearchGood(state), NEW i \in DOMAIN state.calls, Search!PageArrives(i)
    PROVE  SearchGood(state')
<1>0. state \in SearchBoxes /\ SearchListed(state) /\ SearchCalled(state) /\ state.calls[i] \in SearchCalls
    <2>1. state \in SearchBoxes /\ SearchListed(state) /\ SearchCalled(state)
        BY DEF SearchGood
    <2>2. state.calls \in Seq(SearchCalls)
        BY <2>1 DEF SearchBoxes
    <2> QED  BY <2>1, <2>2
<1>1. CASE ~SearchWanted(state, i)
    BY <1>1, SearchEnded DEF Search!PageArrives, Search!Wanted, Search!Current, SearchWanted
<1>2. CASE SearchWanted(state, i)
    <2> DEFINE call   == state.calls[i]
               d      == Search!Ends(i)
               shown  == state.shown + call.size
               page   == [k \in 1..call.size |-> <<call.query, state.shown + k>>]
               list   == d.list \o page
               status == IF state.hits = 0 THEN "empty" ELSE "found"
               hidden == shown >= state.hits
               c      == [d EXCEPT !.list = list, !.shown = shown, !.status = status, !.moreHidden = hidden,
                                   !.moreDisabled = FALSE, !.busy = FALSE]
    <2>1. state' = c
        BY <1>2 DEF Search!PageArrives, Search!Wanted, Search!Current, SearchWanted
    <2>2. /\ call.stage = "page" /\ call.query = state.asked /\ call.query \in DOMAIN HitsOf
          /\ state.hits = HitsOf[state.asked] /\ (state.shown < state.hits \/ (state.shown = 0 /\ state.hits = 0))
          /\ call.size = Search!Slice(state.hits, state.shown)
        BY <1>0, <1>2 DEF Search!PageArrives, SearchCalled, SearchCalls
    <2>3. /\ d \in SearchBoxes /\ SearchSame(d, state)
          /\ \A k \in DOMAIN d.calls : d.calls[k].ticket < state.epoch
        BY <1>2, SearchEnded
    <2>4. state.hits \in Nat /\ state.shown \in Nat /\ call.size \in Nat /\ shown \in Nat /\ call.query \in Search!Texts
          /\ shown <= state.hits /\ (state.hits # 0 => shown > 0)
        <3>1. state.hits \in Nat /\ state.shown \in Nat /\ call.query \in Search!Texts
            BY <1>0, <2>2 DEF SearchBoxes, Search!Texts
        <3> DEFINE size == Search!Slice(state.hits, state.shown)
        <3>2. size \in Nat /\ state.shown + size <= state.hits /\ (state.hits # 0 => state.shown + size > 0)
            BY <2>2, <3>1, SearchSlice
        <3>3. call.size = size
            BY <2>2
        <3> HIDE DEF size
        <3> QED  BY <3>1, <3>2, <3>3
    <2>5. status \in {"hint", "searching", "error", "empty", "found"} /\ hidden \in BOOLEAN
        OBVIOUS
    <2> HIDE DEF d, call
    <2>6. /\ list \in Seq(Search!Texts \X Nat)
          /\ list = [k \in 1..shown |-> <<state.asked, k>>]
        <3>1. d.list = [k \in 1..state.shown |-> <<state.asked, k>>] /\ d.list \in Seq(Search!Texts \X Nat)
            BY <1>0, <2>3 DEF SearchListed, SearchBoxes, SearchSame
        <3>2. Len(d.list) = state.shown /\ \A k \in 1..state.shown : d.list[k] = <<state.asked, k>>
            BY <2>4, <3>1
        <3>3. page \in Seq(Search!Texts \X Nat) /\ Len(page) = call.size
              /\ \A k \in 1..call.size : page[k] = <<state.asked, state.shown + k>>
            BY <2>2, <2>4
        <3> HIDE DEF page
        <3>4. list \in Seq(Search!Texts \X Nat) /\ Len(list) = shown
              /\ \A k \in 1..shown : list[k] = IF k <= state.shown THEN d.list[k] ELSE page[k - state.shown]
            BY <2>4, <3>1, <3>2, <3>3, ConcatProperties
        <3> HIDE DEF list
        <3>5. \A k \in 1..shown : list[k] = <<state.asked, k>>
            <4> SUFFICES ASSUME NEW k \in 1..shown  PROVE list[k] = <<state.asked, k>>
                OBVIOUS
            <4>1. CASE k <= state.shown
                <5>1. k \in 1..state.shown
                    BY <2>4, <4>1
                <5>2. list[k] = d.list[k]
                    BY <3>4, <4>1
                <5> QED  BY <3>2, <5>1, <5>2
            <4>2. CASE ~(k <= state.shown)
                <5>1. k - state.shown \in 1..call.size /\ state.shown + (k - state.shown) = k
                    BY <2>4, <4>2
                <5> QED  BY <3>3, <3>4, <4>2, <5>1
            <4> QED  BY <4>1, <4>2
        <3>6. list = [k \in DOMAIN list |-> list[k]] /\ DOMAIN list = 1..shown
            BY <3>4
        <3> HIDE DEF shown
        <3> QED  BY <3>4, <3>5, <3>6
    <2>7. (~hidden => ~(shown >= state.hits)) /\ (state.hits # 0 => status = "found") /\ (state.hits = 0 => status = "empty")
        OBVIOUS
    <2> HIDE DEF page, list, status, hidden, shown
    <2>8. /\ c \in SearchBoxes /\ c.calls = d.calls /\ c.list = list /\ c.shown = shown /\ c.status = status
          /\ c.moreHidden = hidden /\ c.moreDisabled = FALSE /\ c.busy = FALSE
          /\ c.epoch = d.epoch /\ c.asked = d.asked /\ c.hits = d.hits
        BY <2>3, <2>4, <2>5, <2>6, ZenonT(60) DEF SearchBoxes
    <2> HIDE DEF c
    <2>9. SearchCalled(c)
        <3>1. c.calls \in Seq(SearchCalls) /\ c.epoch = state.epoch /\ c.epoch \in Nat
            BY <2>3, <2>8 DEF SearchBoxes, SearchSame
        <3>2. \A k \in DOMAIN c.calls : c.calls[k] \in SearchCalls
            BY <3>1
        <3>3. \A k \in DOMAIN c.calls : c.calls[k].ticket \in Nat /\ c.calls[k].ticket < c.epoch
            BY <2>3, <2>8, <3>1, <3>2 DEF SearchCalls
        <3> QED  BY <3>1, <3>3 DEF SearchCalled, SearchWanted
    <2>10. SearchListed(c)
        <3>1. c.list = [k \in 1..c.shown |-> <<c.asked, k>>]
            BY <2>3, <2>6, <2>8 DEF SearchSame
        <3>2. c.asked = state.asked /\ c.hits = state.hits /\ c.asked # ""
            BY <2>2, <2>3, <2>8, SearchAssumption DEF SearchSame
        <3>3. c.status = "found" => c.shown > 0 /\ c.hits = HitsOf[c.asked]
            BY <2>2, <2>4, <2>7, <2>8, <3>2
        <3>4. c.status = "empty" => HitsOf[c.asked] = 0
            BY <2>2, <2>4, <2>7, <2>8, <3>2
        <3>5. ~c.moreHidden => c.shown < c.hits /\ c.hits = HitsOf[c.asked]
            <4>1. ~hidden => shown < state.hits
                BY <2>4, <2>7
            <4> QED  BY <2>2, <2>8, <3>2, <4>1
        <3>6. c.status # "searching"
            BY <2>4, <2>7, <2>8
        <3> QED  BY <2>8, <3>1, <3>2, <3>3, <3>4, <3>5, <3>6 DEF SearchListed
    <2> QED  BY <2>1, <2>8, <2>9, <2>10 DEF SearchGood
<1> QED  BY <1>1, <1>2

\* "more" asks for the page after what is shown.
LEMMA SearchMore ==
    ASSUME SearchGood(state), Search!More
    PROVE  SearchGood(state')
<1>0. state \in SearchBoxes /\ SearchListed(state) /\ SearchCalled(state) /\ ~state.moreHidden /\ ~state.moreDisabled
    BY DEF SearchGood, Search!More
<1> DEFINE size == Search!Slice(state.hits, state.shown)
           call == [stage |-> "page", ticket |-> state.epoch, query |-> state.asked, load |-> 0, size |-> size]
           b    == [state EXCEPT !.moreDisabled = TRUE, !.busy = TRUE]
           c    == [b EXCEPT !.calls = Append(@, call)]
<1>1. state.shown < state.hits /\ state.hits = HitsOf[state.asked] /\ state.asked # ""
    BY <1>0 DEF SearchListed
<1>2. size \in Nat /\ state.asked \in DOMAIN HitsOf /\ state.epoch \in Nat
    <2>1. state.hits \in Nat /\ state.shown \in Nat /\ state.epoch \in Nat /\ state.asked \in Search!Texts
        BY <1>0 DEF SearchBoxes
    <2> QED  BY <1>1, <2>1, SearchSlice DEF Search!Texts
<1>3. state' = c
    <2>1. state' = [state EXCEPT !.moreDisabled = TRUE, !.busy = TRUE, !.calls = Append(@, call)]
        BY DEF Search!More
    <2> HIDE DEF call
    <2> QED  BY <1>0, <2>1 DEF SearchBoxes
<1> HIDE DEF size
<1>4. /\ call \in SearchCalls /\ call.stage = "page" /\ call.ticket = state.epoch /\ call.query = state.asked
      /\ call.size = Search!Slice(state.hits, state.shown)
    BY <1>2 DEF SearchCalls, size
<1> HIDE DEF call
<1>5. /\ b \in SearchBoxes /\ b.moreDisabled = TRUE /\ b.calls = state.calls /\ b.hits = state.hits
      /\ b.epoch = state.epoch /\ b.list = state.list /\ b.asked = state.asked /\ b.shown = state.shown
      /\ b.moreHidden = state.moreHidden /\ b.status = state.status
    BY <1>0 DEF SearchBoxes
<1> HIDE DEF b
<1>6. \A j \in DOMAIN b.calls : b.calls[j].ticket < b.epoch
    <2>1. b.calls \in Seq(SearchCalls)
        BY <1>5 DEF SearchBoxes
    <2>2. \A j \in DOMAIN b.calls : b.calls[j] \in SearchCalls
        BY <2>1
    <2>3. \A j \in DOMAIN b.calls : b.calls[j].ticket <= b.epoch /\ b.calls[j].ticket # b.epoch
        BY <1>0, <1>5 DEF SearchCalled, SearchWanted
    <2>4. \A j \in DOMAIN b.calls : b.calls[j].ticket \in Nat
        BY <2>2 DEF SearchCalls
    <2> QED  BY <1>2, <1>5, <2>3, <2>4
<1>7. c \in SearchBoxes /\ SearchSame(c, b) /\ SearchCalled(c) /\ SearchAwaited(c)
    BY <1>1, <1>4, <1>5, <1>6, SearchAdded
<1> HIDE DEF c
<1>8. SearchListed(c)
    <2>1. c.list = [k \in 1..c.shown |-> <<c.asked, k>>]
        <3>1. state.list = [k \in 1..state.shown |-> <<state.asked, k>>]
            BY <1>0 DEF SearchListed
        <3>2. c.list = state.list /\ c.shown = state.shown /\ c.asked = state.asked
            BY <1>5, <1>7 DEF SearchSame
        <3> QED  BY <3>1, <3>2, Zenon
    <2>2. c.status = state.status /\ c.hits = state.hits /\ c.asked = state.asked /\ c.shown = state.shown
        BY <1>5, <1>7 DEF SearchSame
    <2>3. c.status = "found" => c.shown > 0 /\ c.hits = HitsOf[c.asked]
        BY <1>0, <2>2 DEF SearchListed
    <2>4. c.status # "empty" \/ (c.asked # "" /\ HitsOf[c.asked] = 0)
        BY <1>0, <2>2 DEF SearchListed
    <2>5. c.shown < c.hits /\ c.hits = HitsOf[c.asked] /\ c.asked # ""
        BY <1>1, <2>2
    <2> QED  BY <1>7, <2>1, <2>3, <2>4, <2>5 DEF SearchListed
<1> QED  BY <1>3, <1>7, <1>8 DEF SearchGood

LEMMA SearchLoaded ==
    ASSUME SearchGood(state), Search!LoadEnds
    PROVE  SearchGood(state')
<1>0. state \in SearchBoxes
    BY DEF SearchGood
<1>1. PICK n \in DOMAIN state.loads : \E outcome \in {"ready", "failed"} : state' = [state EXCEPT !.loads[n] = outcome]
    BY DEF Search!LoadEnds
<1>2. PICK outcome \in {"ready", "failed"} : state' = [state EXCEPT !.loads[n] = outcome]
    BY <1>1
<1> DEFINE loads == [state.loads EXCEPT ![n] = outcome]
           c     == [state EXCEPT !.loads = loads]
<1>3. loads \in Seq({"pending", "ready", "failed"})
    <2>1. state.loads \in Seq({"pending", "ready", "failed"})
        BY <1>0 DEF SearchBoxes
    <2> QED  BY <2>1
<1>4. state' = c
    BY <1>2
<1> HIDE DEF loads
<1>5. c \in SearchBoxes /\ SearchSame(c, state) /\ c.calls = state.calls
    BY <1>0, <1>3 DEF SearchBoxes, SearchSame
<1> HIDE DEF c
<1> QED  BY <1>4, <1>5, SearchAside

LEMMA SearchStep ==
    ASSUME SearchGood(state), Search!Next
    PROVE  SearchGood(state')
BY SearchTyped, SearchSearched, SearchLoaded, SearchMore, SearchFailed, SearchReady, SearchAnswered, SearchPaged
   DEF Search!Next

LEMMA SearchShows ==
    ASSUME SearchGood(state)
    PROVE  Search!ListIsOneAnswer
<1>1. SearchAwaited(state) = Search!Awaited
    BY Zenon DEF SearchAwaited, SearchWanted, Search!Awaited, Search!Current
<1> QED  BY <1>1 DEF SearchGood, SearchListed, Search!ListIsOneAnswer

-----------------------------------------------------------------------------
(* The theme: the active transition brings the theme last chosen.           *)

ThemeJobs ==
    [theme : Theme!Themes, applied : BOOLEAN, skipped : BOOLEAN, revealing : BOOLEAN,
     at : {"started", "updated", "ready", "over"}]
ThemeBoxes ==
    [theme : Theme!Themes, stored : Theme!Themes, stores : BOOLEAN, capable : BOOLEAN, reduced : BOOLEAN,
     documentHidden : BOOLEAN, chosen : Theme!Themes, clicks : Nat, jobs : Seq(ThemeJobs), active : Nat,
     busy : BOOLEAN, comments : {"off", "offered", "loading", "shown"}, frame : Theme!Themes,
     missed : BOOLEAN, fallback : BOOLEAN]

\* The theme is the one last chosen, or the active transition brings it.
ThemeGood(b) ==
    /\ b \in ThemeBoxes
    /\ b.active = 0 => b.theme = b.chosen
    /\ b.active # 0 => /\ b.active \in DOMAIN b.jobs /\ b.jobs[b.active].theme = b.chosen
                       /\ b.jobs[b.active].applied => b.theme = b.chosen
    /\ \A j \in DOMAIN b.jobs : j # b.active => b.jobs[j].applied /\ ~b.jobs[j].revealing
    /\ b.busy = (b.active # 0)
    /\ b.stores => b.stored = b.theme
    /\ b.comments \in {"loading", "shown"} /\ ~b.missed => b.frame = b.theme

LEMMA ThemeThemed ==
    ASSUME NEW b \in ThemeBoxes, NEW t \in Theme!Themes
    PROVE  LET c == Theme!Themed(b, t) IN
           /\ c \in ThemeBoxes /\ c.theme = t
           /\ c.chosen = b.chosen /\ c.jobs = b.jobs /\ c.active = b.active /\ c.busy = b.busy
           /\ c.stores = b.stores /\ c.comments = b.comments
           /\ c.stores => c.stored = t
           /\ c.comments \in {"loading", "shown"} /\ ~c.missed => c.frame = t
BY DEF ThemeBoxes, Theme!Themed

\* What differs between the transitions of c and of b: transition j is as given.
ThemeJobsOf(c, b, j, job) ==
    /\ DOMAIN c.jobs = DOMAIN b.jobs
    /\ c.jobs[j] = job
    /\ \A i \in DOMAIN b.jobs : i # j => c.jobs[i] = b.jobs[i]

LEMMA ThemeJobSet ==
    ASSUME NEW b \in ThemeBoxes, NEW j \in DOMAIN b.jobs, NEW job \in ThemeJobs
    PROVE  LET c == [b EXCEPT !.jobs[j] = job] IN
           /\ c \in ThemeBoxes /\ ThemeJobsOf(c, b, j, job)
           /\ c.theme = b.theme /\ c.stored = b.stored /\ c.frame = b.frame /\ c.missed = b.missed
           /\ c.chosen = b.chosen /\ c.active = b.active /\ c.busy = b.busy
           /\ c.stores = b.stores /\ c.comments = b.comments
           /\ c.reduced = b.reduced /\ c.documentHidden = b.documentHidden
<1> DEFINE jobs == [b.jobs EXCEPT ![j] = job]
<1>1. jobs \in Seq(ThemeJobs) /\ DOMAIN jobs = DOMAIN b.jobs /\ jobs[j] = job
      /\ \A i \in DOMAIN b.jobs : i # j => jobs[i] = b.jobs[i]
    BY DEF ThemeBoxes
<1>2. [b EXCEPT !.jobs[j] = job] = [b EXCEPT !.jobs = jobs]
    OBVIOUS
<1> HIDE DEF jobs
<1> QED  BY <1>1, <1>2 DEF ThemeBoxes, ThemeJobsOf

LEMMA ThemeApplied ==
    ASSUME NEW b, ThemeGood(b), NEW j \in DOMAIN b.jobs
    PROVE  LET c == Theme!Apply(b, j) IN
           /\ c \in ThemeBoxes
           /\ ThemeJobsOf(c, b, j, [b.jobs[j] EXCEPT !.applied = TRUE])
           /\ c.theme = IF b.jobs[j].applied THEN b.theme ELSE b.jobs[j].theme
           /\ c.chosen = b.chosen /\ c.active = b.active /\ c.busy = b.busy
           /\ c.stores = b.stores /\ c.comments = b.comments
           /\ c.stores => c.stored = c.theme
           /\ c.comments \in {"loading", "shown"} /\ ~c.missed => c.frame = c.theme
<1> DEFINE job == [b.jobs[j] EXCEPT !.applied = TRUE]
           d   == [b EXCEPT !.jobs[j] = job]
<1>1. b.jobs[j] \in ThemeJobs /\ b \in ThemeBoxes
    BY DEF ThemeGood, ThemeBoxes
<1>2. job \in ThemeJobs /\ b.jobs[j].theme \in Theme!Themes
    BY <1>1 DEF ThemeJobs
<1>3. CASE b.jobs[j].applied
    <2>1. job = b.jobs[j]
        BY <1>1, <1>3 DEF ThemeJobs
    <2>2. Theme!Apply(b, j) = b
        BY <1>3 DEF Theme!Apply, Theme!Applies
    <2> HIDE DEF job
    <2> QED  BY <1>3, <2>1, <2>2 DEF ThemeGood, ThemeJobsOf, job
<1>4. CASE ~b.jobs[j].applied
    <2>1. Theme!Apply(b, j) = Theme!Themed(d, b.jobs[j].theme)
        BY <1>4 DEF Theme!Apply, Theme!Applies
    <2> HIDE DEF job
    <2>2. /\ d \in ThemeBoxes /\ ThemeJobsOf(d, b, j, job)
          /\ d.chosen = b.chosen /\ d.active = b.active /\ d.busy = b.busy
          /\ d.stores = b.stores /\ d.comments = b.comments
        BY <1>1, <1>2, ThemeJobSet
    <2> HIDE DEF d
    <2>3. LET c == Theme!Themed(d, b.jobs[j].theme) IN
           /\ c \in ThemeBoxes /\ c.theme = b.jobs[j].theme
           /\ c.chosen = d.chosen /\ c.jobs = d.jobs /\ c.active = d.active /\ c.busy = d.busy
           /\ c.stores = d.stores /\ c.comments = d.comments
           /\ c.stores => c.stored = c.theme
           /\ c.comments \in {"loading", "shown"} /\ ~c.missed => c.frame = c.theme
        BY <1>2, <2>2, ThemeThemed
    <2> QED  BY <1>4, <2>1, <2>2, <2>3 DEF ThemeJobsOf, job
<1> QED  BY <1>3, <1>4

\* Whatever ends the active transition leaves the theme that was chosen.
LEMMA ThemeFinished ==
    ASSUME NEW b, ThemeGood(b), NEW j \in DOMAIN b.jobs, NEW skip \in BOOLEAN
    PROVE  ThemeGood(Theme!Finish(b, j, skip))
<1>1. CASE b.active # j
    BY <1>1 DEF Theme!Finish
<1>2. CASE b.active = j
    <2> DEFINE c   == Theme!Apply(b, j)
               job == Theme!Ended(c.jobs[j], skip)
               e   == [c EXCEPT !.jobs[j] = job, !.active = 0, !.busy = FALSE]
    <2>0. Theme!Finish(b, j, skip) = e
        BY <1>2 DEF Theme!Finish
    <2>1. /\ c \in ThemeBoxes
          /\ ThemeJobsOf(c, b, j, [b.jobs[j] EXCEPT !.applied = TRUE])
          /\ c.theme = IF b.jobs[j].applied THEN b.theme ELSE b.jobs[j].theme
          /\ c.chosen = b.chosen /\ c.active = b.active /\ c.busy = b.busy
          /\ c.stores = b.stores /\ c.comments = b.comments
          /\ c.stores => c.stored = c.theme
          /\ c.comments \in {"loading", "shown"} /\ ~c.missed => c.frame = c.theme
        BY ThemeApplied
    <2> HIDE DEF c
    <2>2. c.jobs[j] \in ThemeJobs /\ c.jobs[j].applied /\ j \in DOMAIN c.jobs /\ b.jobs[j] \in ThemeJobs
        <3>1. b.jobs[j] \in ThemeJobs
            BY DEF ThemeGood, ThemeBoxes
        <3>2. c.jobs[j] = [b.jobs[j] EXCEPT !.applied = TRUE] /\ j \in DOMAIN c.jobs
            BY <2>1 DEF ThemeJobsOf
        <3> QED  BY <3>1, <3>2 DEF ThemeJobs
    <2>3. job \in ThemeJobs /\ job.applied /\ ~job.revealing
        BY <2>2 DEF ThemeJobs, Theme!Ended
    <2> HIDE DEF job
    <2> DEFINE jobs == [c.jobs EXCEPT ![j] = job]
    <2>4. /\ jobs \in Seq(ThemeJobs) /\ DOMAIN jobs = DOMAIN c.jobs /\ jobs[j] = job
          /\ \A i \in DOMAIN c.jobs : i # j => jobs[i] = c.jobs[i]
        BY <2>1, <2>2, <2>3 DEF ThemeBoxes
    <2>5. e = [c EXCEPT !.jobs = jobs, !.active = 0, !.busy = FALSE]
        OBVIOUS
    <2> HIDE DEF jobs
    <2>6. /\ e \in ThemeBoxes /\ e.jobs = jobs /\ e.active = 0 /\ e.busy = FALSE
          /\ e.theme = c.theme /\ e.stored = c.stored /\ e.frame = c.frame /\ e.missed = c.missed
          /\ e.chosen = c.chosen /\ e.stores = c.stores /\ e.comments = c.comments
        BY <2>1, <2>4, <2>5 DEF ThemeBoxes
    <2> HIDE DEF e
    <2>7. e.theme = e.chosen
        BY <1>2, <2>1, <2>6 DEF ThemeGood, ThemeBoxes
    <2>8. \A i \in DOMAIN e.jobs : e.jobs[i].applied /\ ~e.jobs[i].revealing
        BY <1>2, <2>1, <2>2, <2>3, <2>4, <2>6 DEF ThemeGood, ThemeJobsOf
    <2> QED  BY <2>0, <2>1, <2>6, <2>7, <2>8 DEF ThemeGood
<1> QED  BY <1>1, <1>2

LEMMA ThemeStopped ==
    ASSUME NEW b, ThemeGood(b)
    PROVE  ThemeGood(Theme!Stop(b))
BY ThemeFinished DEF Theme!Stop, ThemeGood

LEMMA ThemeInit ==
    ASSUME Theme!Init
    PROVE  ThemeGood(state)
<1>1. PICK theme \in Theme!Themes, capable \in BOOLEAN, stores \in BOOLEAN, comments \in BOOLEAN :
        state = [theme |-> theme, stored |-> theme, stores |-> stores, capable |-> capable,
                 reduced |-> FALSE, documentHidden |-> FALSE, chosen |-> theme, clicks |-> 0,
                 jobs |-> <<>>, active |-> 0, busy |-> FALSE,
                 comments |-> IF comments THEN "offered" ELSE "off", frame |-> theme, missed |-> FALSE,
                 fallback |-> FALSE]
    BY DEF Theme!Init
<1>2. state \in ThemeBoxes
    BY <1>1 DEF ThemeBoxes
<1>3. /\ state.jobs = <<>> /\ state.active = 0 /\ state.busy = FALSE /\ state.theme = state.chosen
      /\ state.stored = state.theme /\ state.comments \in {"off", "offered"}
    BY <1>1
<1>4. DOMAIN state.jobs = {}
    BY <1>3
<1> QED  BY <1>2, <1>3, <1>4 DEF ThemeGood

\* A new transition, for the theme that was just chosen.
LEMMA ThemeStarted ==
    ASSUME NEW b, ThemeGood(b), b.active = 0, NEW theme \in Theme!Themes
    PROVE  LET job == [theme |-> theme, applied |-> FALSE, skipped |-> FALSE, revealing |-> FALSE, at |-> "started"]
               c == [[b EXCEPT !.clicks = @ + 1, !.chosen = theme]
                        EXCEPT !.active = Len(b.jobs) + 1, !.busy = TRUE, !.jobs = Append(@, job)]
           IN  ThemeGood(c) /\ Len(b.jobs) + 1 \in DOMAIN c.jobs
<1> DEFINE j    == Len(b.jobs) + 1
           job  == [theme |-> theme, applied |-> FALSE, skipped |-> FALSE, revealing |-> FALSE, at |-> "started"]
           jobs == Append(b.jobs, job)
           n    == b.clicks + 1
           d    == [b EXCEPT !.clicks = n, !.chosen = theme]
           c    == [d EXCEPT !.active = j, !.busy = TRUE, !.jobs = Append(@, job)]
<1>1. job \in ThemeJobs /\ b \in ThemeBoxes /\ b.jobs \in Seq(ThemeJobs)
    BY DEF ThemeGood, ThemeBoxes, ThemeJobs
<1>2. job.theme = theme /\ job.applied = FALSE /\ n \in Nat
    BY <1>1 DEF ThemeBoxes
<1> HIDE DEF n
<1>3. /\ d \in ThemeBoxes /\ d.jobs = b.jobs /\ d.chosen = theme
      /\ d.theme = b.theme /\ d.stored = b.stored /\ d.frame = b.frame /\ d.missed = b.missed
      /\ d.stores = b.stores /\ d.comments = b.comments
    BY <1>1, <1>2 DEF ThemeBoxes
<1>4. c = [d EXCEPT !.active = j, !.busy = TRUE, !.jobs = jobs]
    BY <1>3
<1> HIDE DEF job, d
<1>5. /\ jobs \in Seq(ThemeJobs) /\ DOMAIN jobs = 1..j /\ jobs[j] = job
      /\ DOMAIN b.jobs = 1..Len(b.jobs) /\ j \in 1..j /\ j \in Nat /\ j # 0
      /\ \A i \in DOMAIN b.jobs : jobs[i] = b.jobs[i]
    BY <1>1
<1> HIDE DEF jobs, c
<1>6. /\ c \in ThemeBoxes /\ c.jobs = jobs /\ c.active = j /\ c.busy = TRUE /\ c.chosen = theme
      /\ c.theme = b.theme /\ c.stored = b.stored /\ c.frame = b.frame /\ c.missed = b.missed
      /\ c.stores = b.stores /\ c.comments = b.comments
    BY <1>3, <1>4, <1>5 DEF ThemeBoxes
<1>7. \A i \in DOMAIN jobs : i # j => i \in DOMAIN b.jobs
    BY <1>1, <1>5
<1>8. \A i \in DOMAIN c.jobs : i # c.active => c.jobs[i].applied /\ ~c.jobs[i].revealing
    BY <1>5, <1>6, <1>7 DEF ThemeGood
<1>9. ThemeGood(c) /\ j \in DOMAIN c.jobs
    BY <1>2, <1>5, <1>6, <1>8 DEF ThemeGood
<1> QED  BY <1>9 DEF c, d, job, n

\* The browser's step of a transition does not touch what it brings.
LEMMA ThemeMoved ==
    ASSUME NEW b, ThemeGood(b), NEW j \in DOMAIN b.jobs, NEW at \in {"updated", "ready", "over"}
    PROVE  LET c == [b EXCEPT !.jobs[j].at = at] IN ThemeGood(c) /\ DOMAIN c.jobs = DOMAIN b.jobs /\ c.active = b.active
<1> DEFINE job == [b.jobs[j] EXCEPT !.at = at]
           c   == [b EXCEPT !.jobs[j] = job]
<1>1. b.jobs[j] \in ThemeJobs /\ b \in ThemeBoxes
    BY DEF ThemeGood, ThemeBoxes
<1>2. /\ job \in ThemeJobs /\ job.applied = b.jobs[j].applied /\ job.theme = b.jobs[j].theme
      /\ job.revealing = b.jobs[j].revealing
    BY <1>1 DEF ThemeJobs
<1>3. [b EXCEPT !.jobs[j].at = at] = c
    OBVIOUS
<1> HIDE DEF job
<1>4. /\ c \in ThemeBoxes /\ ThemeJobsOf(c, b, j, job)
      /\ c.theme = b.theme /\ c.stored = b.stored /\ c.frame = b.frame /\ c.missed = b.missed
      /\ c.chosen = b.chosen /\ c.active = b.active /\ c.busy = b.busy
      /\ c.stores = b.stores /\ c.comments = b.comments
    BY <1>1, <1>2, ThemeJobSet
<1> HIDE DEF c
<1> QED  BY <1>2, <1>3, <1>4 DEF ThemeGood, ThemeJobsOf

LEMMA ThemeStep ==
    ASSUME ThemeGood(state), Theme!Next
    PROVE  ThemeGood(state')
<1>1. CASE Theme!Toggle
    <2> DEFINE theme == Theme!Other(state.theme)
               b     == [state EXCEPT !.clicks = @ + 1, !.chosen = theme]
               j     == Len(state.jobs) + 1
               c     == [b EXCEPT !.active = j, !.busy = TRUE, !.jobs = Append(@,
                    [theme |-> theme, applied |-> FALSE, skipped |-> FALSE, revealing |-> FALSE, at |-> "started"])]
    <2>1. \/ state.active # 0 /\ state' = [state EXCEPT !.clicks = @ + 1]
          \/ state.active = 0 /\ state' = Theme!Themed(b, theme)
          \/ state.active = 0 /\ state' = c
          \/ state.active = 0 /\ state' = Theme!Finish([c EXCEPT !.jobs[j].at = "over"], j, TRUE)
        BY <1>1 DEF Theme!Toggle
    <2>2. theme \in Theme!Themes
        BY DEF Theme!Themes, Theme!Other
    <2> HIDE DEF theme
    <2>3. CASE state' = [state EXCEPT !.clicks = @ + 1]
        <3>1. /\ state' \in ThemeBoxes /\ state'.theme = state.theme /\ state'.chosen = state.chosen
              /\ state'.jobs = state.jobs /\ state'.active = state.active /\ state'.busy = state.busy
              /\ state'.stores = state.stores /\ state'.stored = state.stored /\ state'.comments = state.comments
              /\ state'.missed = state.missed /\ state'.frame = state.frame
            BY <2>3 DEF ThemeGood, ThemeBoxes
        <3> QED  BY <3>1 DEF ThemeGood
    <2>4. CASE state.active = 0 /\ state' = Theme!Themed(b, theme)
        <3> DEFINE n == state.clicks + 1
        <3>0. n \in Nat /\ b = [state EXCEPT !.clicks = n, !.chosen = theme]
            BY DEF ThemeGood, ThemeBoxes
        <3> HIDE DEF b, n
        <3>1. b \in ThemeBoxes /\ b.chosen = theme /\ b.jobs = state.jobs
              /\ b.active = state.active /\ b.busy = state.busy
            BY <2>2, <3>0 DEF ThemeGood, ThemeBoxes
        <3>2. /\ state' \in ThemeBoxes /\ state'.theme = theme /\ state'.chosen = b.chosen /\ state'.jobs = b.jobs
              /\ state'.active = b.active /\ state'.busy = b.busy
              /\ state'.stores => state'.stored = theme
              /\ state'.comments \in {"loading", "shown"} /\ ~state'.missed => state'.frame = theme
            BY <2>2, <2>4, <3>1, ThemeThemed
        <3> QED  BY <2>4, <3>1, <3>2 DEF ThemeGood
    <2>5. state.active = 0 => ThemeGood(c) /\ j \in DOMAIN c.jobs
        BY <2>2, ThemeStarted
    <2> HIDE DEF b, c, j
    <2>6. CASE state.active = 0 /\ state' = Theme!Finish([c EXCEPT !.jobs[j].at = "over"], j, TRUE)
        <3> DEFINE d == [c EXCEPT !.jobs[j].at = "over"]
        <3>1. ThemeGood(d) /\ j \in DOMAIN d.jobs
            BY <2>5, <2>6, ThemeMoved
        <3> HIDE DEF d
        <3>2. ThemeGood(Theme!Finish(d, j, TRUE))
            BY <3>1, ThemeFinished
        <3> QED  BY <2>6, <3>2 DEF d
    <2> QED  BY <2>1, <2>3, <2>4, <2>5, <2>6
<1>2. CASE Theme!VisibilityChanges
    <2> DEFINE b == [state EXCEPT !.documentHidden = ~@]
    <2>1. ThemeGood(b)
        BY DEF ThemeGood, ThemeBoxes
    <2> QED  BY <1>2, <2>1, ThemeStopped DEF Theme!VisibilityChanges
<1>3. CASE Theme!Prefers
    <2> DEFINE b == [state EXCEPT !.reduced = ~@]
    <2>1. ThemeGood(b)
        BY DEF ThemeGood, ThemeBoxes
    <2> QED  BY <1>3, <2>1, ThemeStopped DEF Theme!Prefers
<1>4. CASE Theme!Interrupted
    BY <1>4, ThemeStopped DEF Theme!Interrupted
<1>5. CASE Theme!LoadComments \/ Theme!FrameAppears \/ Theme!CommentsFail
    BY <1>5, ZenonT(60) DEF Theme!LoadComments, Theme!FrameAppears, Theme!CommentsFail, ThemeGood, ThemeBoxes
<1>6. ASSUME NEW j \in DOMAIN state.jobs, Theme!CallsBack(j)
      PROVE  ThemeGood(state')
    <2> DEFINE b == [state EXCEPT !.jobs[j].at = "updated"]
    <2>1. ThemeGood(b) /\ j \in DOMAIN b.jobs
        BY ThemeMoved
    <2>2. state' = Theme!Apply(b, j)
        BY <1>6 DEF Theme!CallsBack
    <2> HIDE DEF b
    <2>3. /\ state' \in ThemeBoxes
          /\ ThemeJobsOf(state', b, j, [b.jobs[j] EXCEPT !.applied = TRUE])
          /\ state'.theme = IF b.jobs[j].applied THEN b.theme ELSE b.jobs[j].theme
          /\ state'.chosen = b.chosen /\ state'.active = b.active /\ state'.busy = b.busy
          /\ state'.stores = b.stores /\ state'.comments = b.comments
          /\ state'.stores => state'.stored = state'.theme
          /\ state'.comments \in {"loading", "shown"} /\ ~state'.missed => state'.frame = state'.theme
        BY <2>1, <2>2, ThemeApplied
    <2>4. b.jobs[j] \in ThemeJobs
        BY <2>1 DEF ThemeGood, ThemeBoxes
    <2>5. state'.jobs[j].applied /\ state'.jobs[j].theme = b.jobs[j].theme /\ state'.jobs[j].revealing = b.jobs[j].revealing
        BY <2>3, <2>4 DEF ThemeJobsOf, ThemeJobs
    <2>6. state'.active = 0 => state'.theme = state'.chosen
        <3>1. b.active = 0 => j # b.active
            BY <2>1 DEF ThemeGood, ThemeBoxes
        <3> QED  BY <2>1, <2>3, <3>1 DEF ThemeGood
    <2>7. state'.active # 0 =>
              /\ state'.active \in DOMAIN state'.jobs /\ state'.jobs[state'.active].theme = state'.chosen
              /\ state'.jobs[state'.active].applied => state'.theme = state'.chosen
        BY <2>1, <2>3, <2>5, ZenonT(60) DEF ThemeGood, ThemeJobsOf
    <2>8. \A i \in DOMAIN state'.jobs : i # state'.active => state'.jobs[i].applied /\ ~state'.jobs[i].revealing
        BY <2>1, <2>3, <2>5, ZenonT(60) DEF ThemeGood, ThemeJobsOf
    <2>9. state'.busy = (state'.active # 0)
        BY <2>1, <2>3, Zenon DEF ThemeGood
    <2> QED  BY <2>3, <2>6, <2>7, <2>8, <2>9, Zenon DEF ThemeGood
<1>7. ASSUME NEW j \in DOMAIN state.jobs, Theme!Ready(j)
      PROVE  ThemeGood(state')
    <2> DEFINE b == [state EXCEPT !.jobs[j].at = "ready"]
    <2>1. ThemeGood(b) /\ j \in DOMAIN b.jobs
        BY ThemeMoved
    <2>2. state' = IF b.active # j THEN b
                   ELSE IF b.documentHidden \/ b.reduced THEN Theme!Finish(b, j, TRUE)
                   ELSE [b EXCEPT !.jobs[j].revealing = TRUE]
        BY <1>7 DEF Theme!Ready
    <2> HIDE DEF b
    <2> DEFINE job == [b.jobs[j] EXCEPT !.revealing = TRUE]
    <2>3. CASE b.active = j /\ state' = [b EXCEPT !.jobs[j] = job]
        <3>1. b \in ThemeBoxes /\ b.jobs[j] \in ThemeJobs
            BY <2>1 DEF ThemeGood, ThemeBoxes
        <3>2. job \in ThemeJobs /\ job.theme = b.jobs[j].theme /\ job.applied = b.jobs[j].applied
            BY <3>1 DEF ThemeJobs
        <3> HIDE DEF job
        <3>3. /\ state' \in ThemeBoxes /\ ThemeJobsOf(state', b, j, job)
              /\ state'.theme = b.theme /\ state'.stored = b.stored /\ state'.frame = b.frame /\ state'.missed = b.missed
              /\ state'.chosen = b.chosen /\ state'.active = b.active /\ state'.busy = b.busy
              /\ state'.stores = b.stores /\ state'.comments = b.comments
            BY <2>1, <2>3, <3>1, <3>2, ThemeJobSet
        <3> QED  BY <2>1, <2>3, <3>2, <3>3 DEF ThemeGood, ThemeJobsOf
    <2>4. CASE b.active # j \/ b.documentHidden \/ b.reduced
        BY <2>1, <2>2, <2>4, ThemeFinished
    <2> QED  BY <2>2, <2>3, <2>4
<1>8. ASSUME NEW j \in DOMAIN state.jobs, Theme!Finished(j)
      PROVE  ThemeGood(state')
    BY <1>8, ThemeMoved, ThemeFinished DEF Theme!Finished
<1> QED  BY <1>1, <1>2, <1>3, <1>4, <1>5, <1>6, <1>7, <1>8 DEF Theme!Next

LEMMA ThemeShows ==
    ASSUME ThemeGood(state)
    PROVE  Theme!ThemeIsTheLastChosen
BY DEF ThemeGood, ThemeBoxes, Theme!ThemeIsTheLastChosen

-----------------------------------------------------------------------------
(* The regions: an animation under way, or the state itself, is what was chosen.*)

MotionBoxes ==
    [jobs : [Motion!Scopes -> SUBSET {"none", "hide", "leave", "ready"}], animates : BOOLEAN, reduced : BOOLEAN, away : BOOLEAN,
     documentHidden : BOOLEAN, focus : {"main", "dock", "trigger", "option"},
     far : BOOLEAN, frame : BOOLEAN, visible : BOOLEAN, hidden : BOOLEAN, inert : BOOLEAN,
     open : BOOLEAN, leaving : BOOLEAN, value : 1..Options, option : 1..Options,
     entered : BOOLEAN, seen : BOOLEAN, suspended : BOOLEAN, active : BOOLEAN]

MotionCue(b) == b.active = (b.entered /\ b.seen /\ ~b.suspended /\ ~b.reduced)

\* A region and what is played in its scope agree.
MotionRegions(b) ==
    /\ b \in MotionBoxes
    /\ b.jobs["dock"] \subseteq {"none", "hide"}
    /\ b.jobs["select"] \subseteq {"none", "leave"}
    /\ b.jobs["hero"] \subseteq {"none", "ready"}
    /\ b.hidden => ~b.visible
    /\ "hide" \in b.jobs["dock"] => ~b.visible
    /\ ~b.visible => b.hidden \/ "hide" \in b.jobs["dock"]
    /\ b.inert = ~b.visible
    /\ b.focus = "dock" => b.visible
    /\ b.leaving => ~b.open /\ "leave" \in b.jobs["select"]
    /\ b.focus = "option" => b.open
    /\ b.entered \/ "ready" \in b.jobs["hero"]

MotionGood(b) == MotionRegions(b) /\ MotionCue(b)

\* What completing jobs leaves alone.
MotionSame(c, b) ==
    /\ c.animates = b.animates /\ c.reduced = b.reduced /\ c.away = b.away
    /\ c.documentHidden = b.documentHidden /\ c.focus = b.focus
    /\ c.far = b.far /\ c.frame = b.frame /\ c.visible = b.visible /\ c.inert = b.inert
    /\ c.open = b.open /\ c.value = b.value /\ c.option = b.option
    /\ c.seen = b.seen /\ c.suspended = b.suspended

LEMMA MotionCued ==
    ASSUME NEW b \in MotionBoxes
    PROVE  LET c == Motion!Cue(b) IN
           /\ c \in MotionBoxes /\ MotionSame(c, b) /\ c.jobs = b.jobs
           /\ c.hidden = b.hidden /\ c.leaving = b.leaving /\ c.entered = b.entered
           /\ MotionCue(c)
<1> DEFINE active == b.entered /\ b.seen /\ ~b.suspended /\ ~b.reduced
           c      == [b EXCEPT !.active = active]
<1>1. active \in BOOLEAN /\ Motion!Cue(b) = c
    BY DEF Motion!Cue
<1> HIDE DEF active
<1>2. /\ c \in MotionBoxes /\ MotionSame(c, b) /\ c.jobs = b.jobs
      /\ c.hidden = b.hidden /\ c.leaving = b.leaving /\ c.entered = b.entered /\ c.active = active
    BY <1>1 DEF MotionBoxes, MotionSame
<1> HIDE DEF c
<1>3. MotionCue(c)
    BY <1>2, Zenon DEF MotionCue, MotionSame, active
<1> QED  BY <1>1, <1>2, <1>3

LEMMA MotionDone ==
    ASSUME NEW b \in MotionBoxes, NEW jobs
    PROVE  LET c == Motion!Done(jobs, b) IN
           /\ c \in MotionBoxes /\ MotionSame(c, b) /\ c.jobs = b.jobs
           /\ c.hidden = (b.hidden \/ "hide" \in jobs)
           /\ c.leaving = (b.leaving /\ "leave" \notin jobs)
           /\ c.entered = (b.entered \/ "ready" \in jobs)
           /\ MotionCue(b) => MotionCue(c)
<1> DEFINE hidden  == b.hidden \/ "hide" \in jobs
           leaving == b.leaving /\ "leave" \notin jobs
           entered == b.entered \/ "ready" \in jobs
           d       == [b EXCEPT !.hidden = hidden, !.leaving = leaving, !.entered = entered]
<1>1. hidden \in BOOLEAN /\ leaving \in BOOLEAN /\ entered \in BOOLEAN
    OBVIOUS
<1>2. Motion!Done(jobs, b) = IF "ready" \in jobs THEN Motion!Cue(d) ELSE d
    BY DEF Motion!Done
<1>3. "ready" \notin jobs => entered = b.entered
    BY DEF MotionBoxes
<1> HIDE DEF hidden, leaving, entered
<1>4. /\ d \in MotionBoxes /\ MotionSame(d, b) /\ d.jobs = b.jobs /\ d.active = b.active
      /\ d.hidden = hidden /\ d.leaving = leaving /\ d.entered = entered
    BY <1>1, ZenonT(60) DEF MotionBoxes, MotionSame
<1> HIDE DEF d
<1>5. CASE "ready" \in jobs
    <2>1. LET c == Motion!Cue(d) IN
           /\ c \in MotionBoxes /\ MotionSame(c, d) /\ c.jobs = d.jobs
           /\ c.hidden = d.hidden /\ c.leaving = d.leaving /\ c.entered = d.entered
           /\ MotionCue(c)
        BY <1>4, MotionCued
    <2> QED  BY <1>2, <1>4, <1>5, <2>1 DEF MotionSame, hidden, leaving, entered
<1>6. CASE "ready" \notin jobs
    <2>1. MotionCue(b) => MotionCue(d)
        BY <1>3, <1>4, <1>6, Zenon DEF MotionCue, MotionSame
    <2> QED  BY <1>2, <1>4, <1>6, <2>1 DEF hidden, leaving, entered
<1> QED  BY <1>5, <1>6

LEMMA MotionJobsSet ==
    ASSUME NEW b \in MotionBoxes, NEW scope \in Motion!Scopes, NEW jobs \in SUBSET {"none", "hide", "leave", "ready"}
    PROVE  LET c == [b EXCEPT !.jobs[scope] = jobs] IN
           /\ c \in MotionBoxes /\ MotionSame(c, b) /\ c.hidden = b.hidden /\ c.leaving = b.leaving /\ c.entered = b.entered
           /\ c.active = b.active /\ c.jobs[scope] = jobs
           /\ \A s \in Motion!Scopes : s # scope => c.jobs[s] = b.jobs[s]
<1> DEFINE all == [b.jobs EXCEPT ![scope] = jobs]
<1>1. [b EXCEPT !.jobs[scope] = jobs] = [b EXCEPT !.jobs = all]
    OBVIOUS
<1>2. all \in [Motion!Scopes -> SUBSET {"none", "hide", "leave", "ready"}] /\ all[scope] = jobs
      /\ \A s \in Motion!Scopes : s # scope => all[s] = b.jobs[s]
    BY DEF MotionBoxes
<1> HIDE DEF all
<1> QED  BY <1>1, <1>2 DEF MotionBoxes, MotionSame

\* What is played in a scope, for which what was played there is given up.
LEMMA MotionPlayed ==
    ASSUME NEW b \in MotionBoxes, NEW scope \in Motion!Scopes, NEW jobs \in SUBSET {"none", "hide", "leave", "ready"}
    PROVE  LET c == Motion!Play(Motion!Cancel(b, scope), scope, jobs) IN
           /\ c \in MotionBoxes /\ MotionSame(c, b)
           /\ \A s \in Motion!Scopes : s # scope => c.jobs[s] = b.jobs[s]
           /\ MotionCue(b) => MotionCue(c)
           /\ \/ c.jobs[scope] = jobs /\ c.hidden = b.hidden /\ c.leaving = b.leaving /\ c.entered = b.entered
              \/ /\ c.jobs[scope] = {} /\ c.hidden = (b.hidden \/ "hide" \in jobs)
                 /\ c.leaving = (b.leaving /\ "leave" \notin jobs)
                 /\ c.entered = (b.entered \/ "ready" \in jobs)
<1> DEFINE d == Motion!Cancel(b, scope)
<1>1. /\ d \in MotionBoxes /\ MotionSame(d, b) /\ d.hidden = b.hidden /\ d.leaving = b.leaving /\ d.entered = b.entered
      /\ d.active = b.active /\ d.jobs[scope] = {}
      /\ \A s \in Motion!Scopes : s # scope => d.jobs[s] = b.jobs[s]
    <2> DEFINE c == [b EXCEPT !.jobs[scope] = {}]
    <2>1. {} \in SUBSET {"none", "hide", "leave", "ready"}
        OBVIOUS
    <2>2. /\ c \in MotionBoxes /\ MotionSame(c, b) /\ c.hidden = b.hidden /\ c.leaving = b.leaving /\ c.entered = b.entered
          /\ c.active = b.active /\ c.jobs[scope] = {}
          /\ \A s \in Motion!Scopes : s # scope => c.jobs[s] = b.jobs[s]
        BY <2>1, MotionJobsSet, ZenonT(60)
    <2> QED  BY <2>2 DEF Motion!Cancel
<1>2. MotionCue(b) => MotionCue(d)
    BY <1>1, Zenon DEF MotionCue, MotionSame
<1> HIDE DEF d
<1>3. CASE d.animates /\ ~d.reduced
    <2> DEFINE c == [d EXCEPT !.jobs[scope] = jobs]
    <2>1. /\ c \in MotionBoxes /\ MotionSame(c, d) /\ c.hidden = d.hidden /\ c.leaving = d.leaving /\ c.entered = d.entered
          /\ c.active = d.active /\ c.jobs[scope] = jobs
          /\ \A s \in Motion!Scopes : s # scope => c.jobs[s] = d.jobs[s]
        BY <1>1, MotionJobsSet
    <2>2. Motion!Play(d, scope, jobs) = c
        BY <1>3 DEF Motion!Play
    <2> HIDE DEF c
    <2>3. MotionCue(d) => MotionCue(c)
        BY <2>1, Zenon DEF MotionCue, MotionSame
    <2> QED  BY <1>1, <1>2, <2>1, <2>2, <2>3 DEF d, MotionSame
<1>4. CASE ~(d.animates /\ ~d.reduced)
    <2> DEFINE c == Motion!Done(jobs, d)
    <2>1. /\ c \in MotionBoxes /\ MotionSame(c, d) /\ c.jobs = d.jobs
          /\ c.hidden = (d.hidden \/ "hide" \in jobs)
          /\ c.leaving = (d.leaving /\ "leave" \notin jobs)
          /\ c.entered = (d.entered \/ "ready" \in jobs)
          /\ MotionCue(d) => MotionCue(c)
        BY <1>1, MotionDone
    <2>2. Motion!Play(d, scope, jobs) = c
        BY <1>4 DEF Motion!Play
    <2> HIDE DEF c
    <2> QED  BY <1>1, <1>2, <2>1, <2>2 DEF d, MotionSame
<1> QED  BY <1>3, <1>4

LEMMA MotionCuedGood ==
    ASSUME NEW b, MotionRegions(b)
    PROVE  MotionGood(Motion!Cue(b))
<1> DEFINE c == Motion!Cue(b)
<1>1. /\ c \in MotionBoxes /\ MotionSame(c, b) /\ c.jobs = b.jobs
      /\ c.hidden = b.hidden /\ c.leaving = b.leaving /\ c.entered = b.entered
      /\ MotionCue(c)
    BY MotionCued DEF MotionRegions
<1> HIDE DEF c
<1>2. MotionRegions(c)
    BY <1>1 DEF MotionRegions, MotionSame
<1> QED  BY <1>1, <1>2 DEF MotionGood, c

\* Some of what a scope plays completes.
LEMMA MotionFinished ==
    ASSUME NEW b, MotionGood(b), NEW scope \in Motion!Scopes,
           NEW jobs \in SUBSET b.jobs[scope]
    PROVE  MotionGood(Motion!Done(jobs, [b EXCEPT !.jobs[scope] = @ \ jobs]))
<1> DEFINE left == b.jobs[scope] \ jobs
           d    == [b EXCEPT !.jobs[scope] = left]
           c    == Motion!Done(jobs, d)
<1>1. b \in MotionBoxes /\ left \in SUBSET {"none", "hide", "leave", "ready"}
    BY DEF MotionGood, MotionRegions, MotionBoxes
<1>2. [b EXCEPT !.jobs[scope] = @ \ jobs] = d
    OBVIOUS
<1>3. left \subseteq b.jobs[scope] /\ b.jobs[scope] = left \union jobs
    OBVIOUS
<1> HIDE DEF left
<1>4. /\ d \in MotionBoxes /\ MotionSame(d, b) /\ d.hidden = b.hidden /\ d.leaving = b.leaving /\ d.entered = b.entered
      /\ d.active = b.active /\ d.jobs[scope] = left
      /\ \A s \in Motion!Scopes : s # scope => d.jobs[s] = b.jobs[s]
    BY <1>1, MotionJobsSet
<1>5. MotionCue(d)
    BY <1>4, Zenon DEF MotionGood, MotionCue, MotionSame
<1> HIDE DEF d
<1>6. /\ c \in MotionBoxes /\ MotionSame(c, d) /\ c.jobs = d.jobs
      /\ c.hidden = (d.hidden \/ "hide" \in jobs)
      /\ c.leaving = (d.leaving /\ "leave" \notin jobs)
      /\ c.entered = (d.entered \/ "ready" \in jobs)
      /\ MotionCue(d) => MotionCue(c)
    BY <1>4, MotionDone
<1> HIDE DEF c
<1>7. MotionRegions(c)
    <2>1. CASE scope = "dock"
        <3>1. c.jobs["dock"] = left /\ c.jobs["select"] = b.jobs["select"] /\ c.jobs["hero"] = b.jobs["hero"]
            BY <1>4, <1>6, <2>1 DEF Motion!Scopes
        <3>2. left \subseteq {"none", "hide"} /\ jobs \subseteq {"none", "hide"}
              /\ ("hide" \in b.jobs["dock"] <=> "hide" \in left \/ "hide" \in jobs)
            BY <1>3, <2>1 DEF MotionGood, MotionRegions
        <3> QED  BY <1>4, <1>6, <3>1, <3>2 DEF MotionGood, MotionRegions, MotionSame
    <2>2. CASE scope = "select"
        <3>1. c.jobs["select"] = left /\ c.jobs["dock"] = b.jobs["dock"] /\ c.jobs["hero"] = b.jobs["hero"]
            BY <1>4, <1>6, <2>2 DEF Motion!Scopes
        <3>2. left \subseteq {"none", "leave"} /\ jobs \subseteq {"none", "leave"}
              /\ ("leave" \in b.jobs["select"] <=> "leave" \in left \/ "leave" \in jobs)
            BY <1>3, <2>2 DEF MotionGood, MotionRegions
        <3> QED  BY <1>4, <1>6, <3>1, <3>2 DEF MotionGood, MotionRegions, MotionSame
    <2>3. CASE scope = "hero"
        <3>1. c.jobs["hero"] = left /\ c.jobs["dock"] = b.jobs["dock"] /\ c.jobs["select"] = b.jobs["select"]
            BY <1>4, <1>6, <2>3 DEF Motion!Scopes
        <3>2. left \subseteq {"none", "ready"} /\ jobs \subseteq {"none", "ready"}
              /\ ("ready" \in b.jobs["hero"] <=> "ready" \in left \/ "ready" \in jobs)
            BY <1>3, <2>3 DEF MotionGood, MotionRegions
        <3> QED  BY <1>4, <1>6, <3>1, <3>2 DEF MotionGood, MotionRegions, MotionSame
    <2> QED  BY <2>1, <2>2, <2>3 DEF Motion!Scopes
<1> QED  BY <1>2, <1>5, <1>6, <1>7 DEF MotionGood, c

LEMMA MotionAllFinished ==
    ASSUME NEW b, MotionGood(b)
    PROVE  MotionGood(Motion!FinishAll(b))
<1> DEFINE jobs == UNION {b.jobs[s] : s \in Motion!Scopes}
           none == [s \in Motion!Scopes |-> {}]
           d    == [b EXCEPT !.jobs = none]
           c    == Motion!Done(jobs, d)
<1>1. Motion!FinishAll(b) = c
    BY DEF Motion!FinishAll
<1>2. b.jobs["dock"] \subseteq jobs /\ b.jobs["hero"] \subseteq jobs /\ b.jobs["select"] \subseteq jobs
      /\ jobs \subseteq b.jobs["dock"] \union b.jobs["hero"] \union b.jobs["select"]
    BY DEF Motion!Scopes
<1>3. none \in [Motion!Scopes -> SUBSET {"none", "hide", "leave", "ready"}]
      /\ none["dock"] = {} /\ none["hero"] = {} /\ none["select"] = {}
    BY DEF Motion!Scopes
<1> HIDE DEF jobs, none
<1>4. /\ d \in MotionBoxes /\ MotionSame(d, b) /\ d.hidden = b.hidden /\ d.leaving = b.leaving /\ d.entered = b.entered
      /\ d.active = b.active /\ d.jobs = none
    BY <1>3 DEF MotionGood, MotionRegions, MotionBoxes, MotionSame
<1>5. MotionCue(d)
    BY <1>4, Zenon DEF MotionGood, MotionCue, MotionSame
<1> HIDE DEF d
<1>6. /\ c \in MotionBoxes /\ MotionSame(c, d) /\ c.jobs = d.jobs
      /\ c.hidden = (d.hidden \/ "hide" \in jobs)
      /\ c.leaving = (d.leaving /\ "leave" \notin jobs)
      /\ c.entered = (d.entered \/ "ready" \in jobs)
      /\ MotionCue(d) => MotionCue(c)
    BY <1>4, MotionDone
<1> HIDE DEF c
<1>7. MotionRegions(c)
    BY <1>2, <1>3, <1>4, <1>6, ZenonT(60) DEF MotionGood, MotionRegions, MotionSame
<1> QED  BY <1>1, <1>5, <1>6, <1>7 DEF MotionGood

\* A list that is closed, with the focus elsewhere.
LEMMA MotionClosed ==
    ASSUME NEW b, MotionGood(b), NEW focus \in {"trigger", "main"}
    PROVE  MotionGood([Motion!Closed(b) EXCEPT !.focus = focus])
<1> DEFINE e == [Motion!Closed(b) EXCEPT !.focus = focus]
<1>1. CASE ~b.open
    <2>1. e = [b EXCEPT !.focus = focus]
        BY <1>1 DEF Motion!Closed
    <2>2. e \in MotionBoxes /\ e.focus = focus /\ e.jobs = b.jobs /\ e.hidden = b.hidden /\ e.visible = b.visible
          /\ e.inert = b.inert /\ e.leaving = b.leaving /\ e.open = b.open /\ e.entered = b.entered
          /\ e.active = b.active /\ e.seen = b.seen /\ e.suspended = b.suspended /\ e.reduced = b.reduced
        BY <2>1 DEF MotionGood, MotionRegions, MotionBoxes
    <2> HIDE DEF e
    <2>3. MotionCue(e)
        BY <2>2, Zenon DEF MotionGood, MotionCue
    <2> QED  BY <2>2, <2>3 DEF MotionGood, MotionRegions, e
<1>2. CASE b.open
    <2> DEFINE d == [b EXCEPT !.open = FALSE, !.leaving = TRUE]
               c == Motion!Play(Motion!Cancel(d, "select"), "select", {"leave"})
    <2>1. e = [c EXCEPT !.focus = focus]
        BY <1>2 DEF Motion!Closed, Motion!Exit
    <2>2. d \in MotionBoxes /\ d.open = FALSE /\ d.leaving = TRUE /\ d.jobs = b.jobs /\ d.hidden = b.hidden /\ d.visible = b.visible
          /\ d.inert = b.inert /\ d.entered = b.entered
          /\ d.active = b.active /\ d.seen = b.seen /\ d.suspended = b.suspended /\ d.reduced = b.reduced
        BY ZenonT(60) DEF MotionGood, MotionRegions, MotionBoxes
    <2> HIDE DEF d
    <2>3. MotionCue(d)
        BY <2>2, Zenon DEF MotionGood, MotionCue
    <2>4. "select" \in Motion!Scopes /\ {"leave"} \in SUBSET {"none", "hide", "leave", "ready"}
        BY DEF Motion!Scopes
    <2>5. /\ c \in MotionBoxes /\ MotionSame(c, d)
          /\ \A s \in Motion!Scopes : s # "select" => c.jobs[s] = d.jobs[s]
          /\ MotionCue(d) => MotionCue(c)
          /\ \/ c.jobs["select"] = {"leave"} /\ c.hidden = d.hidden /\ c.leaving = d.leaving /\ c.entered = d.entered
             \/ /\ c.jobs["select"] = {} /\ c.hidden = (d.hidden \/ "hide" \in {"leave"})
                /\ c.leaving = (d.leaving /\ "leave" \notin {"leave"})
                /\ c.entered = (d.entered \/ "ready" \in {"leave"})
        BY <2>2, <2>4, MotionPlayed
    <2> HIDE DEF c
    <2>6. e \in MotionBoxes /\ e.focus = focus /\ e.jobs = c.jobs /\ e.hidden = c.hidden /\ e.visible = c.visible
          /\ e.inert = c.inert /\ e.leaving = c.leaving /\ e.open = c.open /\ e.entered = c.entered
          /\ e.active = c.active /\ e.seen = c.seen /\ e.suspended = c.suspended /\ e.reduced = c.reduced
        BY <2>1, <2>5 DEF MotionBoxes
    <2> HIDE DEF e
    <2>7. MotionCue(e)
        BY <2>3, <2>5, <2>6, Zenon DEF MotionCue
    <2>8. c.jobs["dock"] = b.jobs["dock"] /\ c.jobs["hero"] = b.jobs["hero"] /\ c.entered = b.entered /\ c.hidden = b.hidden
          /\ c.visible = b.visible /\ c.inert = b.inert /\ c.open = FALSE
          /\ c.jobs["select"] \in {{"leave"}, {}} /\ (c.leaving => "leave" \in c.jobs["select"])
        BY <2>2, <2>5 DEF Motion!Scopes, MotionSame, MotionBoxes
    <2> QED  BY <2>6, <2>7, <2>8 DEF MotionGood, MotionRegions, e
<1> QED  BY <1>1, <1>2

LEMMA MotionOpened ==
    ASSUME NEW b, MotionGood(b)
    PROVE  MotionGood(Motion!Opened(b))
<1> DEFINE d == [b EXCEPT !.open = TRUE, !.leaving = FALSE]
           c == Motion!Play(Motion!Cancel(d, "select"), "select", {"none"})
           e == [c EXCEPT !.focus = "option", !.option = b.value]
<1>1. Motion!Opened(b) = e
    BY DEF Motion!Opened, Motion!Enter
<1>2. d \in MotionBoxes /\ d.open = TRUE /\ d.leaving = FALSE /\ d.jobs = b.jobs /\ d.hidden = b.hidden /\ d.visible = b.visible
      /\ d.inert = b.inert /\ d.entered = b.entered
      /\ d.active = b.active /\ d.seen = b.seen /\ d.suspended = b.suspended /\ d.reduced = b.reduced
    BY ZenonT(60) DEF MotionGood, MotionRegions, MotionBoxes
<1> HIDE DEF d
<1>3. MotionCue(d)
    BY <1>2, Zenon DEF MotionGood, MotionCue
<1>4. "select" \in Motion!Scopes /\ {"none"} \in SUBSET {"none", "hide", "leave", "ready"}
    BY DEF Motion!Scopes
<1>5. /\ c \in MotionBoxes /\ MotionSame(c, d)
      /\ \A s \in Motion!Scopes : s # "select" => c.jobs[s] = d.jobs[s]
      /\ MotionCue(d) => MotionCue(c)
      /\ \/ c.jobs["select"] = {"none"} /\ c.hidden = d.hidden /\ c.leaving = d.leaving /\ c.entered = d.entered
         \/ /\ c.jobs["select"] = {} /\ c.hidden = (d.hidden \/ "hide" \in {"none"})
            /\ c.leaving = (d.leaving /\ "leave" \notin {"none"})
            /\ c.entered = (d.entered \/ "ready" \in {"none"})
    BY <1>2, <1>4, MotionPlayed
<1> HIDE DEF c
<1>6. e \in MotionBoxes /\ e.focus = "option" /\ e.jobs = c.jobs /\ e.hidden = c.hidden /\ e.visible = c.visible
      /\ e.inert = c.inert /\ e.leaving = c.leaving /\ e.open = c.open /\ e.entered = c.entered
      /\ e.active = c.active /\ e.seen = c.seen /\ e.suspended = c.suspended /\ e.reduced = c.reduced
    BY <1>5 DEF MotionBoxes, MotionGood, MotionRegions
<1> HIDE DEF e
<1>7. MotionCue(e)
    BY <1>3, <1>5, <1>6, Zenon DEF MotionCue
<1>8. c.jobs["dock"] = b.jobs["dock"] /\ c.jobs["hero"] = b.jobs["hero"] /\ c.entered = b.entered /\ c.hidden = b.hidden
      /\ c.visible = b.visible /\ c.inert = b.inert /\ c.open = TRUE /\ c.leaving = FALSE
      /\ c.jobs["select"] \in {{"none"}, {}}
    BY <1>2, <1>5 DEF Motion!Scopes, MotionSame, MotionBoxes
<1> QED  BY <1>1, <1>6, <1>7, <1>8 DEF MotionGood, MotionRegions

LEMMA MotionInit ==
    ASSUME Motion!Init
    PROVE  MotionGood(state)
<1>1. PICK animates \in BOOLEAN, reduced \in BOOLEAN, documentHidden \in BOOLEAN :
        state = Motion!Play([jobs |-> [s \in Motion!Scopes |-> {}], animates |-> animates, reduced |-> reduced,
                    away |-> FALSE, documentHidden |-> documentHidden, focus |-> "main",
                    far |-> FALSE, frame |-> FALSE, visible |-> FALSE, hidden |-> TRUE, inert |-> TRUE,
                    open |-> FALSE, leaving |-> FALSE, value |-> 1, option |-> 1,
                    entered |-> FALSE, seen |-> FALSE, suspended |-> documentHidden, active |-> FALSE],
                   "hero", {"none", "ready"})
    BY DEF Motion!Init
<1> DEFINE none == [s \in Motion!Scopes |-> {}]
           b == [jobs |-> none, animates |-> animates, reduced |-> reduced,
                 away |-> FALSE, documentHidden |-> documentHidden, focus |-> "main",
                 far |-> FALSE, frame |-> FALSE, visible |-> FALSE, hidden |-> TRUE, inert |-> TRUE,
                 open |-> FALSE, leaving |-> FALSE, value |-> 1, option |-> 1,
                 entered |-> FALSE, seen |-> FALSE, suspended |-> documentHidden, active |-> FALSE]
<1>2. state = Motion!Play(b, "hero", {"none", "ready"})
    BY <1>1
<1>3. none \in [Motion!Scopes -> SUBSET {"none", "hide", "leave", "ready"}]
      /\ none["dock"] = {} /\ none["hero"] = {} /\ none["select"] = {}
    BY DEF Motion!Scopes
<1> HIDE DEF none
<1>4. /\ b \in MotionBoxes /\ b.jobs = none /\ b.focus = "main" /\ b.visible = FALSE /\ b.hidden = TRUE /\ b.inert = TRUE
      /\ b.open = FALSE /\ b.leaving = FALSE /\ b.entered = FALSE /\ b.seen = FALSE /\ b.active = FALSE
    BY <1>3, MotionAssumption DEF MotionBoxes
<1> HIDE DEF b
<1>5. CASE b.animates /\ ~b.reduced
    <2> DEFINE jobs == {"none", "ready"}
               c    == [b EXCEPT !.jobs["hero"] = jobs]
    <2>1. state = c
        BY <1>2, <1>5 DEF Motion!Play
    <2>2. "hero" \in Motion!Scopes /\ jobs \in SUBSET {"none", "hide", "leave", "ready"}
        BY DEF Motion!Scopes
    <2>3. "ready" \in jobs /\ jobs \subseteq {"none", "ready"}
        OBVIOUS
    <2> HIDE DEF jobs
    <2>4. /\ c \in MotionBoxes /\ MotionSame(c, b) /\ c.hidden = b.hidden /\ c.leaving = b.leaving /\ c.entered = b.entered
          /\ c.active = b.active /\ c.jobs["hero"] = jobs
          /\ \A s \in Motion!Scopes : s # "hero" => c.jobs[s] = b.jobs[s]
        BY <1>4, <2>2, MotionJobsSet
    <2> HIDE DEF c
    <2>5. c.jobs["dock"] = {} /\ c.jobs["select"] = {}
        BY <1>3, <1>4, <2>4 DEF Motion!Scopes
    <2> QED  BY <1>4, <2>1, <2>3, <2>4, <2>5 DEF MotionGood, MotionRegions, MotionCue, MotionSame
<1>6. CASE ~(b.animates /\ ~b.reduced)
    <2> DEFINE jobs == {"none", "ready"}
               c    == Motion!Done(jobs, b)
    <2>1. state = c
        BY <1>2, <1>6 DEF Motion!Play
    <2>2. "ready" \in jobs /\ "hide" \notin jobs
        OBVIOUS
    <2> HIDE DEF jobs
    <2>3. /\ c \in MotionBoxes /\ MotionSame(c, b) /\ c.jobs = b.jobs
          /\ c.hidden = (b.hidden \/ "hide" \in jobs)
          /\ c.leaving = (b.leaving /\ "leave" \notin jobs)
          /\ c.entered = (b.entered \/ "ready" \in jobs)
          /\ MotionCue(b) => MotionCue(c)
        BY <1>4, MotionDone
    <2>4. MotionCue(b)
        BY <1>4 DEF MotionCue
    <2> HIDE DEF c
    <2> QED  BY <1>3, <1>4, <2>1, <2>2, <2>3, <2>4 DEF MotionGood, MotionRegions, MotionSame
<1> QED  BY <1>5, <1>6

\* A step that moves nothing the regions or the focus depend on.
LEMMA MotionAside ==
    ASSUME NEW b, NEW c, MotionGood(b), c \in MotionBoxes, c.jobs = b.jobs, c.hidden = b.hidden, c.visible = b.visible,
           c.inert = b.inert, c.focus = b.focus, c.leaving = b.leaving, c.open = b.open, c.entered = b.entered
    PROVE  /\ MotionRegions(c)
           /\ c.active = b.active /\ c.seen = b.seen /\ c.suspended = b.suspended /\ c.reduced = b.reduced => MotionGood(c)
<1>1. MotionRegions(c)
    BY DEF MotionGood, MotionRegions
<1>2. ASSUME c.active = b.active, c.seen = b.seen, c.suspended = b.suspended, c.reduced = b.reduced
      PROVE  MotionCue(c)
    BY <1>2, Zenon DEF MotionGood, MotionCue
<1> QED  BY <1>1, <1>2 DEF MotionGood

LEMMA MotionDock ==
    ASSUME MotionGood(state), Motion!UpdateDock
    PROVE  MotionGood(state')
<1> DEFINE b == [state EXCEPT !.frame = FALSE]
<1>1. b \in MotionBoxes /\ b.jobs = state.jobs /\ b.hidden = state.hidden /\ b.visible = state.visible
      /\ b.inert = state.inert /\ b.focus = state.focus /\ b.leaving = state.leaving /\ b.open = state.open
      /\ b.entered = state.entered /\ b.active = state.active /\ b.seen = state.seen /\ b.suspended = state.suspended
      /\ b.reduced = state.reduced
    BY DEF MotionGood, MotionRegions, MotionBoxes
<1>2. state' = IF b.visible = b.far THEN b
               ELSE IF b.far THEN Motion!Enter([[b EXCEPT !.visible = b.far, !.inert = ~b.far] EXCEPT !.hidden = FALSE], "dock")
               ELSE Motion!Exit([[b EXCEPT !.visible = b.far, !.inert = ~b.far] EXCEPT !.focus = IF @ = "dock" THEN "main" ELSE @],
                                "dock", "hide")
    BY DEF Motion!UpdateDock
<1> HIDE DEF b
<1>3. MotionGood(b)
    BY <1>1, MotionAside
<1>4. CASE b.visible # b.far /\ b.far
    <2> DEFINE inert == ~b.far
               e == [b EXCEPT !.visible = b.far, !.inert = inert]
               d == [e EXCEPT !.hidden = FALSE]
               c == Motion!Play(Motion!Cancel(d, "dock"), "dock", {"none"})
    <2>1. state' = c
        BY <1>2, <1>4 DEF Motion!Enter
    <2>2. inert = FALSE /\ b.far = TRUE
        BY <1>1, <1>4 DEF MotionBoxes
    <2> HIDE DEF inert
    <2>0. e \in MotionBoxes /\ e.jobs = b.jobs /\ e.visible = TRUE /\ e.inert = FALSE /\ e.focus = b.focus
          /\ e.leaving = b.leaving /\ e.open = b.open /\ e.entered = b.entered /\ e.active = b.active /\ e.seen = b.seen
          /\ e.suspended = b.suspended /\ e.reduced = b.reduced
        BY <1>1, <2>2, ZenonT(60) DEF MotionBoxes
    <2> HIDE DEF e
    <2>3. d \in MotionBoxes /\ d.jobs = b.jobs /\ d.hidden = FALSE /\ d.visible = TRUE /\ d.inert = FALSE /\ d.focus = b.focus
          /\ d.leaving = b.leaving /\ d.open = b.open /\ d.entered = b.entered /\ d.active = b.active /\ d.seen = b.seen
          /\ d.suspended = b.suspended /\ d.reduced = b.reduced
        BY <2>0 DEF MotionBoxes
    <2> HIDE DEF d
    <2>4. MotionCue(d)
        BY <1>3, <2>3, Zenon DEF MotionGood, MotionCue
    <2>5. "dock" \in Motion!Scopes /\ {"none"} \in SUBSET {"none", "hide", "leave", "ready"}
        BY DEF Motion!Scopes
    <2>6. /\ c \in MotionBoxes /\ MotionSame(c, d)
          /\ \A s \in Motion!Scopes : s # "dock" => c.jobs[s] = d.jobs[s]
          /\ MotionCue(d) => MotionCue(c)
          /\ \/ c.jobs["dock"] = {"none"} /\ c.hidden = d.hidden /\ c.leaving = d.leaving /\ c.entered = d.entered
             \/ /\ c.jobs["dock"] = {} /\ c.hidden = (d.hidden \/ "hide" \in {"none"})
                /\ c.leaving = (d.leaving /\ "leave" \notin {"none"})
                /\ c.entered = (d.entered \/ "ready" \in {"none"})
        BY <2>3, <2>5, MotionPlayed
    <2> HIDE DEF c
    <2>7. c.jobs["select"] = b.jobs["select"] /\ c.jobs["hero"] = b.jobs["hero"] /\ c.jobs["dock"] \in {{"none"}, {}}
          /\ c.hidden = FALSE /\ c.leaving = b.leaving /\ c.entered = b.entered /\ c.visible = TRUE /\ c.inert = FALSE
          /\ c.focus = b.focus /\ c.open = b.open
        BY <1>1, <2>3, <2>6 DEF Motion!Scopes, MotionSame, MotionBoxes
    <2> QED  BY <1>3, <2>1, <2>4, <2>6, <2>7 DEF MotionGood, MotionRegions
<1>5. CASE b.visible # b.far /\ ~b.far
    <2> DEFINE inert == ~b.far
               focus == IF b.focus = "dock" THEN "main" ELSE b.focus
               d == [b EXCEPT !.visible = b.far, !.inert = inert, !.focus = focus]
               c == Motion!Play(Motion!Cancel(d, "dock"), "dock", {"hide"})
    <2>1. [[b EXCEPT !.visible = b.far, !.inert = inert] EXCEPT !.focus = IF @ = "dock" THEN "main" ELSE @] = d
        BY <1>1 DEF MotionBoxes
    <2>2. state' = c
        BY <1>2, <1>5, <2>1 DEF Motion!Exit
    <2>3. inert = TRUE /\ b.far = FALSE /\ focus \in {"main", "trigger", "option"} /\ (focus = "option" => b.focus = "option")
        BY <1>1, <1>5 DEF MotionBoxes
    <2> HIDE DEF inert, focus
    <2>4. d \in MotionBoxes /\ d.jobs = b.jobs /\ d.hidden = b.hidden /\ d.visible = FALSE /\ d.inert = TRUE /\ d.focus = focus
          /\ d.leaving = b.leaving /\ d.open = b.open /\ d.entered = b.entered /\ d.active = b.active /\ d.seen = b.seen
          /\ d.suspended = b.suspended /\ d.reduced = b.reduced
        BY <1>1, <2>3 DEF MotionBoxes
    <2> HIDE DEF d
    <2>5. MotionCue(d)
        BY <1>3, <2>4, Zenon DEF MotionGood, MotionCue
    <2>6. "dock" \in Motion!Scopes /\ {"hide"} \in SUBSET {"none", "hide", "leave", "ready"}
        BY DEF Motion!Scopes
    <2>7. /\ c \in MotionBoxes /\ MotionSame(c, d)
          /\ \A s \in Motion!Scopes : s # "dock" => c.jobs[s] = d.jobs[s]
          /\ MotionCue(d) => MotionCue(c)
          /\ \/ c.jobs["dock"] = {"hide"} /\ c.hidden = d.hidden /\ c.leaving = d.leaving /\ c.entered = d.entered
             \/ /\ c.jobs["dock"] = {} /\ c.hidden = (d.hidden \/ "hide" \in {"hide"})
                /\ c.leaving = (d.leaving /\ "leave" \notin {"hide"})
                /\ c.entered = (d.entered \/ "ready" \in {"hide"})
        BY <2>4, <2>6, MotionPlayed
    <2> HIDE DEF c
    <2>8. c.jobs["select"] = b.jobs["select"] /\ c.jobs["hero"] = b.jobs["hero"] /\ c.jobs["dock"] \in {{"hide"}, {}}
          /\ (c.hidden \/ "hide" \in c.jobs["dock"])
          /\ c.leaving = b.leaving /\ c.entered = b.entered /\ c.visible = FALSE /\ c.inert = TRUE
          /\ c.focus = focus /\ c.open = b.open
        BY <1>1, <2>4, <2>7 DEF Motion!Scopes, MotionSame, MotionBoxes
    <2> QED  BY <1>3, <2>2, <2>3, <2>5, <2>7, <2>8 DEF MotionGood, MotionRegions
<1> QED  BY <1>2, <1>3, <1>4, <1>5

LEMMA MotionStep ==
    ASSUME MotionGood(state), Motion!Next
    PROVE  MotionGood(state')
<1>0. state \in MotionBoxes
    BY DEF MotionGood, MotionRegions
<1>1. ASSUME Motion!AnimationEnds
      PROVE  MotionGood(state')
    <2>1. PICK scope \in Motion!Scopes : \E job \in state.jobs[scope] :
            state' = Motion!Done({job}, [state EXCEPT !.jobs[scope] = @ \ {job}])
        BY <1>1 DEF Motion!AnimationEnds
    <2>2. PICK job \in state.jobs[scope] : state' = Motion!Done({job}, [state EXCEPT !.jobs[scope] = @ \ {job}])
        BY <2>1
    <2>3. {job} \in SUBSET state.jobs[scope]
        OBVIOUS
    <2> QED  BY <2>2, <2>3, MotionFinished
<1>2. CASE Motion!Prefers
    <2> DEFINE b == [state EXCEPT !.reduced = ~@]
    <2>1. b \in MotionBoxes /\ b.jobs = state.jobs /\ b.hidden = state.hidden /\ b.visible = state.visible
          /\ b.inert = state.inert /\ b.focus = state.focus /\ b.leaving = state.leaving /\ b.open = state.open /\ b.entered = state.entered
        BY <1>0 DEF MotionBoxes
    <2>2. state' = IF Motion!Cue(b).reduced THEN Motion!FinishAll(Motion!Cue(b)) ELSE Motion!Cue(b)
        BY <1>2 DEF Motion!Prefers
    <2> HIDE DEF b
    <2>3. MotionGood(Motion!Cue(b))
        BY <2>1, MotionAside, MotionCuedGood
    <2> QED  BY <2>2, <2>3, MotionAllFinished
<1>3. CASE Motion!VisibilityChanges
    <2> DEFINE x == ~state.documentHidden
               c == [state EXCEPT !.documentHidden = x, !.suspended = x]
    <2>1. state' = Motion!Cue(c) /\ x \in BOOLEAN
        BY <1>3 DEF Motion!VisibilityChanges
    <2> HIDE DEF x
    <2>2. c \in MotionBoxes /\ c.jobs = state.jobs /\ c.hidden = state.hidden /\ c.visible = state.visible
          /\ c.inert = state.inert /\ c.focus = state.focus /\ c.leaving = state.leaving /\ c.open = state.open /\ c.entered = state.entered
        BY <1>0, <2>1 DEF MotionBoxes
    <2> HIDE DEF c
    <2> QED  BY <2>1, <2>2, MotionAside, MotionCuedGood
<1>4. CASE Motion!Interacts
    <2> DEFINE jobs == state.jobs["hero"]
    <2>1. "hero" \in Motion!Scopes /\ jobs \in SUBSET state.jobs["hero"] /\ jobs \ jobs = {}
        BY DEF Motion!Scopes
    <2>2. state' = Motion!Done(jobs, [state EXCEPT !.jobs["hero"] = @ \ jobs])
        BY <1>4 DEF Motion!Interacts, Motion!Finish
    <2> HIDE DEF jobs
    <2> QED  BY <2>1, <2>2, MotionFinished
<1>5. CASE Motion!Scrolls \/ Motion!Arrow
    <2>1. state' \in MotionBoxes /\ state'.jobs = state.jobs /\ state'.hidden = state.hidden /\ state'.visible = state.visible
          /\ state'.inert = state.inert /\ state'.focus = state.focus /\ state'.leaving = state.leaving
          /\ state'.open = state.open /\ state'.entered = state.entered /\ state'.active = state.active
          /\ state'.seen = state.seen /\ state'.suspended = state.suspended /\ state'.reduced = state.reduced
        <3>1. CASE Motion!Scrolls
            <4> DEFINE far == ~state.far
            <4>1. far \in BOOLEAN /\ state' = [state EXCEPT !.far = far, !.frame = TRUE]
                BY <3>1 DEF Motion!Scrolls
            <4> HIDE DEF far
            <4> QED  BY <1>0, <4>1 DEF MotionBoxes
        <3>2. CASE Motion!Arrow
            <4>1. PICK step \in {1, Options - 1} : state' = [state EXCEPT !.option = ((state.option - 1 + step) % Options) + 1]
                BY <3>2 DEF Motion!Arrow
            <4>2. ((state.option - 1 + step) % Options) + 1 \in 1..Options
                BY <1>0, MotionAssumption DEF MotionBoxes
            <4> QED  BY <1>0, <4>1, <4>2 DEF MotionBoxes
        <3> QED  BY <1>5, <3>1, <3>2
    <2> QED  BY <2>1, MotionAside
<1>6. CASE Motion!FocusDock
    <2>1. state' = [state EXCEPT !.focus = "dock"] /\ ~state.inert
        BY <1>6 DEF Motion!FocusDock
    <2>2. state' \in MotionBoxes /\ state'.jobs = state.jobs /\ state'.hidden = state.hidden /\ state'.visible = state.visible
          /\ state'.inert = state.inert /\ state'.focus = "dock" /\ state'.leaving = state.leaving
          /\ state'.open = state.open /\ state'.entered = state.entered /\ state'.active = state.active
          /\ state'.seen = state.seen /\ state'.suspended = state.suspended /\ state'.reduced = state.reduced
        BY <1>0, <2>1 DEF MotionBoxes
    <2>3. MotionCue(state')
        BY <2>2, Zenon DEF MotionGood, MotionCue
    <2> QED  BY <1>6, <2>1, <2>2, <2>3 DEF MotionGood, MotionRegions, Motion!FocusDock
<1>7. CASE Motion!Trigger \/ Motion!Escape \/ Motion!Elsewhere
    BY <1>7, MotionClosed, MotionOpened DEF Motion!Trigger, Motion!Escape, Motion!Elsewhere
<1>8. CASE Motion!Choose
    <2>1. PICK n \in 1..Options : state' = [Motion!Closed([state EXCEPT !.value = n]) EXCEPT !.focus = "trigger"]
        BY <1>8 DEF Motion!Choose
    <2> DEFINE b == [state EXCEPT !.value = n]
    <2>2. b \in MotionBoxes /\ b.jobs = state.jobs /\ b.hidden = state.hidden /\ b.visible = state.visible
          /\ b.inert = state.inert /\ b.focus = state.focus /\ b.leaving = state.leaving /\ b.open = state.open /\ b.entered = state.entered
          /\ b.active = state.active /\ b.seen = state.seen /\ b.suspended = state.suspended /\ b.reduced = state.reduced
        BY <1>0 DEF MotionBoxes
    <2> HIDE DEF b
    <2>3. MotionGood(b)
        BY <2>2, MotionAside
    <2> QED  BY <2>1, <2>3, MotionClosed DEF b
<1>9. CASE Motion!Intersects
    <2> DEFINE x == ~state.seen
               c == [state EXCEPT !.seen = x]
    <2>1. state' = Motion!Cue(c) /\ x \in BOOLEAN
        BY <1>9 DEF Motion!Intersects
    <2> HIDE DEF x
    <2>2. c \in MotionBoxes /\ c.jobs = state.jobs /\ c.hidden = state.hidden /\ c.visible = state.visible
          /\ c.inert = state.inert /\ c.focus = state.focus /\ c.leaving = state.leaving /\ c.open = state.open /\ c.entered = state.entered
        BY <1>0, <2>1 DEF MotionBoxes
    <2> HIDE DEF c
    <2> QED  BY <2>1, <2>2, MotionAside, MotionCuedGood
<1>10. CASE Motion!PageShow
    <2> DEFINE c == [state EXCEPT !.suspended = state.documentHidden, !.frame = TRUE, !.away = FALSE]
    <2>1. state' = Motion!Cue(c)
        BY <1>10 DEF Motion!PageShow
    <2>2. c \in MotionBoxes /\ c.jobs = state.jobs /\ c.hidden = state.hidden /\ c.visible = state.visible
          /\ c.inert = state.inert /\ c.focus = state.focus /\ c.leaving = state.leaving /\ c.open = state.open /\ c.entered = state.entered
        BY <1>0 DEF MotionBoxes
    <2> HIDE DEF c
    <2> QED  BY <2>1, <2>2, MotionAside, MotionCuedGood
<1>11. CASE Motion!PageHide
    <2> DEFINE b == Motion!FinishAll(state)
               c == [b EXCEPT !.suspended = TRUE, !.away = TRUE]
    <2>1. state' = Motion!Cue(c)
        BY <1>11 DEF Motion!PageHide
    <2>2. MotionGood(b) /\ b \in MotionBoxes
        BY MotionAllFinished DEF MotionGood, MotionRegions
    <2> HIDE DEF b
    <2>3. c \in MotionBoxes /\ c.jobs = b.jobs /\ c.hidden = b.hidden /\ c.visible = b.visible
          /\ c.inert = b.inert /\ c.focus = b.focus /\ c.leaving = b.leaving /\ c.open = b.open /\ c.entered = b.entered
        BY <2>2 DEF MotionBoxes
    <2> HIDE DEF c
    <2> QED  BY <2>1, <2>2, <2>3, MotionAside, MotionCuedGood
<1> QED  BY <1>1, <1>2, <1>3, <1>4, <1>5, <1>6, <1>7, <1>8, <1>9, <1>10, <1>11, MotionDock DEF Motion!Next, Motion!OnPage

LEMMA MotionShows ==
    ASSUME MotionGood(state)
    PROVE  Motion!RegionsFollowTheirState
BY DEF MotionGood, MotionRegions, MotionCue, Motion!RegionsFollowTheirState

-----------------------------------------------------------------------------
(* The statistics page: one request is awaited, the chart is of what is shown.*)

StatsTips ==
    [frame : BOOLEAN, pointer : Nat, pointed : BOOLEAN, drag : BOOLEAN, index : Nat, tooltip : BOOLEAN,
     rendered : (Ranges \union {"none"}) \X (Stats!Metrics \union {"none"}) \X Nat]
StatsCharts ==
    [range : Ranges \union {"none"}, metric : Stats!Metrics \union {"none"}, count : Nat]
StatsRequests == [range : Ranges, open : BOOLEAN]
StatsBoxes ==
    [selected : Ranges, metric : Stats!Metrics, data : Ranges \union {"none"}, available : BOOLEAN,
     shown : Ranges \union {"none"}, site : BOOLEAN, notice : {"none", "empty", "unavailable"}, retry : BOOLEAN,
     busy : BOOLEAN, requests : Seq(StatsRequests), current : Nat, stopped : BOOLEAN,
     chart : StatsCharts, tip : StatsTips, tab : 1..Tabs, growth : [1..Tabs -> 0..2]]

\* What is awaited, and what is shown once nothing is.
StatsLoaded(b) ==
    /\ b.current # 0 => b.current \in DOMAIN b.requests /\ b.requests[b.current].range = b.selected
    /\ ~b.stopped /\ b.busy => b.current # 0 /\ b.requests[b.current].open
    /\ ~b.stopped /\ ~b.busy => b.current = 0 \/ ~b.requests[b.current].open
    /\ ~b.busy /\ b.retry => ~b.site /\ b.notice = "unavailable"
    /\ ~b.busy /\ ~b.retry => b.shown = b.selected /\ b.data = b.selected /\ b.site = (b.notice = "none")
    /\ b.retry => b.data = "none" /\ ~b.busy
    /\ b.stopped => b.current = 0

\* The chart is of what is shown, the tooltip of the chart.
StatsCharted(b) ==
    /\ b.chart.count # 0 => b.site /\ b.chart.range = b.shown /\ b.chart.metric = b.metric /\ b.data # "none"
    /\ b.tip.pointer <= b.chart.count /\ b.tip.index <= b.chart.count
    /\ b.tip.tooltip => b.tip.rendered = <<b.chart.range, b.chart.metric, b.tip.index>> /\ b.tip.index # 0
    /\ b.tip.frame => b.tip.pointed

StatsTabbed(b) == \A t \in 1..Tabs : b.growth[t] # 0 => t = b.tab

StatsGood(b) ==
    /\ b \in StatsBoxes
    /\ StatsLoaded(b)
    /\ StatsCharted(b)
    /\ StatsTabbed(b)

LEMMA StatsStill ==
    /\ Stats!NoChart \in StatsCharts /\ Stats!Still \in StatsTips
    /\ Stats!NoChart.count = 0
    /\ Stats!Still.pointer = 0 /\ Stats!Still.index = 0 /\ ~Stats!Still.tooltip /\ ~Stats!Still.frame
BY DEF Stats!NoChart, Stats!Still, StatsCharts, StatsTips

\* What loading and showing leave alone.
StatsSameLoad(c, b) ==
    /\ c.selected = b.selected /\ c.metric = b.metric /\ c.requests = b.requests /\ c.current = b.current
    /\ c.stopped = b.stopped /\ c.retry = b.retry /\ c.busy = b.busy /\ c.tab = b.tab /\ c.growth = b.growth
    /\ c.data = b.data /\ c.available = b.available

LEMMA StatsDestroyed ==
    ASSUME NEW b \in StatsBoxes
    PROVE  LET c == Stats!DestroyChart(b) IN
           /\ c \in StatsBoxes /\ StatsSameLoad(c, b) /\ c.shown = b.shown /\ c.site = b.site /\ c.notice = b.notice
           /\ c.chart.count = 0
           /\ c.tip.pointer = 0 /\ c.tip.index = 0 /\ ~c.tip.tooltip /\ ~c.tip.frame
<1> DEFINE chart == Stats!NoChart
           tip   == Stats!Still
           c     == [b EXCEPT !.chart = chart, !.tip = tip]
<1>1. Stats!DestroyChart(b) = c
    BY DEF Stats!DestroyChart
<1>2. /\ chart \in StatsCharts /\ tip \in StatsTips /\ chart.count = 0
      /\ tip.pointer = 0 /\ tip.index = 0 /\ ~tip.tooltip /\ ~tip.frame
    BY StatsStill
<1> HIDE DEF chart, tip
<1>3. c \in StatsBoxes /\ c.chart = chart /\ c.tip = tip /\ StatsSameLoad(c, b)
      /\ c.shown = b.shown /\ c.site = b.site /\ c.notice = b.notice
    BY <1>2 DEF StatsBoxes, StatsSameLoad
<1> HIDE DEF c
<1> QED  BY <1>1, <1>2, <1>3

LEMMA StatsRendered ==
    ASSUME NEW b \in StatsBoxes, b.data # "none"
    PROVE  LET c == Stats!Render(b) IN
           /\ c \in StatsBoxes /\ StatsSameLoad(c, b)
           /\ c.shown = b.data /\ c.site = b.available /\ c.site = (c.notice = "none")
           /\ c.chart.count # 0 => c.site /\ c.chart.range = c.shown /\ c.chart.metric = c.metric
           /\ c.tip.pointer = 0 /\ c.tip.index = 0 /\ ~c.tip.tooltip /\ ~c.tip.frame
<1> DEFINE d      == Stats!DestroyChart(b)
           notice == IF b.available THEN "none" ELSE "empty"
           chart  == IF ~b.available \/ SamplesOf[b.data][b.metric] = 0 THEN Stats!NoChart
                     ELSE [range |-> b.data, metric |-> b.metric, count |-> SamplesOf[b.data][b.metric]]
           c      == [d EXCEPT !.site = b.available, !.shown = b.data, !.notice = notice, !.chart = chart]
<1>1. Stats!Render(b) = c
    BY DEF Stats!Render
<1>2. /\ d \in StatsBoxes /\ StatsSameLoad(d, b)
      /\ d.tip.pointer = 0 /\ d.tip.index = 0 /\ ~d.tip.tooltip /\ ~d.tip.frame
    BY StatsDestroyed
<1>3. b.data \in Ranges /\ b.metric \in Stats!Metrics /\ b.available \in BOOLEAN /\ SamplesOf[b.data][b.metric] \in Nat
    BY StatsAssumption DEF StatsBoxes
<1>4. notice \in {"none", "empty", "unavailable"} /\ b.available = (notice = "none")
    BY <1>3
<1>5. chart \in StatsCharts
    BY <1>3, StatsStill DEF StatsCharts
<1>6. chart.count # 0 => b.available /\ chart.range = b.data /\ chart.metric = b.metric
    BY StatsStill
<1> HIDE DEF d, notice, chart
<1>7. /\ c \in StatsBoxes /\ c.site = b.available /\ c.shown = b.data /\ c.notice = notice /\ c.chart = chart
      /\ c.tip = d.tip /\ StatsSameLoad(c, d)
    BY <1>2, <1>3, <1>4, <1>5 DEF StatsBoxes, StatsSameLoad
<1> HIDE DEF c
<1> QED  BY <1>1, <1>2, <1>3, <1>4, <1>6, <1>7 DEF StatsSameLoad

\* A new request is awaited, whatever was before.
LEMMA StatsLoads ==
    ASSUME NEW b \in StatsBoxes, ~b.stopped, StatsTabbed(b), NEW range \in Ranges
    PROVE  StatsGood(Stats!Load(b, range))
<1> DEFINE d        == Stats!DestroyChart(b)
           request  == [range |-> range, open |-> TRUE]
           requests == Append(b.requests, request)
           n        == Len(b.requests) + 1
           c        == [d EXCEPT !.requests = requests, !.current = n, !.selected = range, !.busy = TRUE, !.retry = FALSE]
<1>1. /\ d \in StatsBoxes /\ StatsSameLoad(d, b)
      /\ d.chart.count = 0
      /\ d.tip.pointer = 0 /\ d.tip.index = 0 /\ ~d.tip.tooltip /\ ~d.tip.frame
    BY StatsDestroyed
<1>2. Stats!Load(b, range) = c
    BY <1>1 DEF Stats!Load, StatsSameLoad
<1>3. request \in StatsRequests /\ request.open /\ request.range = range
    BY DEF StatsRequests
<1> HIDE DEF d, request
<1>4. /\ requests \in Seq(StatsRequests) /\ n \in Nat /\ n # 0 /\ n \in DOMAIN requests /\ requests[n] = request
    BY <1>3 DEF StatsBoxes
<1> HIDE DEF requests, n
<1>5. /\ c \in StatsBoxes /\ c.requests = requests /\ c.current = n /\ c.selected = range /\ c.busy = TRUE /\ c.retry = FALSE
      /\ c.chart = d.chart /\ c.tip = d.tip /\ c.stopped = d.stopped /\ c.tab = d.tab /\ c.growth = d.growth
    BY <1>1, <1>4 DEF StatsBoxes
<1> HIDE DEF c
<1>6. StatsLoaded(c)
    BY <1>1, <1>3, <1>4, <1>5 DEF StatsLoaded, StatsSameLoad
<1>7. StatsCharted(c)
    BY <1>1, <1>5 DEF StatsCharted, StatsBoxes, StatsCharts
<1>8. StatsTabbed(c)
    BY <1>1, <1>5 DEF StatsTabbed, StatsSameLoad
<1> QED  BY <1>2, <1>5, <1>6, <1>7, <1>8 DEF StatsGood

LEMMA StatsInit ==
    ASSUME Stats!Init
    PROVE  StatsGood(state)
<1> DEFINE tip    == Stats!Still
           chart  == Stats!NoChart
           growth == [t \in 1..Tabs |-> 0]
           b == [selected |-> First, metric |-> "pageLoads", data |-> "none", available |-> FALSE, shown |-> "none",
                 site |-> FALSE, notice |-> "none", retry |-> FALSE, busy |-> FALSE, requests |-> <<>>, current |-> 0,
                 stopped |-> FALSE, chart |-> chart, tip |-> tip, tab |-> 1, growth |-> growth]
<1>1. state = Stats!Load(b, First)
    BY DEF Stats!Init
<1>2. growth \in [1..Tabs -> 0..2] /\ \A t \in 1..Tabs : growth[t] = 0
    OBVIOUS
<1>3. chart \in StatsCharts /\ tip \in StatsTips /\ <<>> \in Seq(StatsRequests) /\ "pageLoads" \in Stats!Metrics
      /\ First \in Ranges /\ 1 \in 1..Tabs
    BY StatsStill, StatsAssumption DEF Stats!Metrics
<1> HIDE DEF tip, chart, growth
<1>4. b \in StatsBoxes
    BY <1>2, <1>3 DEF StatsBoxes
<1>5. StatsTabbed(b) /\ ~b.stopped
    BY <1>2 DEF StatsTabbed
<1> HIDE DEF b
<1> QED  BY <1>1, <1>3, <1>4, <1>5, StatsLoads

\* A request that ended: only that changed.
LEMMA StatsClosed ==
    ASSUME NEW i \in DOMAIN state.requests, state \in StatsBoxes
    PROVE  LET c == Stats!Closed(i) IN
           /\ c \in StatsBoxes
           /\ DOMAIN c.requests = DOMAIN state.requests
           /\ ~c.requests[i].open
           /\ \A k \in DOMAIN state.requests : c.requests[k].range = state.requests[k].range
           /\ \A k \in DOMAIN state.requests : k # i => c.requests[k] = state.requests[k]
           /\ c.selected = state.selected /\ c.metric = state.metric /\ c.current = state.current
           /\ c.stopped = state.stopped /\ c.retry = state.retry /\ c.busy = state.busy
           /\ c.tab = state.tab /\ c.growth = state.growth
           /\ c.data = state.data /\ c.available = state.available
           /\ c.shown = state.shown /\ c.site = state.site /\ c.notice = state.notice
           /\ c.chart = state.chart /\ c.tip = state.tip
<1> DEFINE request  == [state.requests[i] EXCEPT !.open = FALSE]
           requests == [state.requests EXCEPT ![i] = request]
           c        == [state EXCEPT !.requests = requests]
<1>1. state.requests[i] \in StatsRequests /\ state.requests \in Seq(StatsRequests)
    BY DEF StatsBoxes
<1>2. request \in StatsRequests /\ ~request.open /\ request.range = state.requests[i].range
    BY <1>1 DEF StatsRequests
<1>3. Stats!Closed(i) = c
    BY DEF Stats!Closed
<1> HIDE DEF request
<1>4. /\ requests \in Seq(StatsRequests) /\ DOMAIN requests = DOMAIN state.requests /\ requests[i] = request
      /\ \A k \in DOMAIN state.requests : k # i => requests[k] = state.requests[k]
    BY <1>1, <1>2
<1> HIDE DEF requests
<1>5. /\ c \in StatsBoxes /\ c.requests = requests
      /\ c.selected = state.selected /\ c.metric = state.metric /\ c.current = state.current
      /\ c.stopped = state.stopped /\ c.retry = state.retry /\ c.busy = state.busy
      /\ c.tab = state.tab /\ c.growth = state.growth
      /\ c.data = state.data /\ c.available = state.available
      /\ c.shown = state.shown /\ c.site = state.site /\ c.notice = state.notice
      /\ c.chart = state.chart /\ c.tip = state.tip
    BY <1>4 DEF StatsBoxes
<1> HIDE DEF c
<1> QED  BY <1>2, <1>3, <1>4, <1>5

\* The answer to an old request changes nothing; the awaited one is shown.
LEMMA StatsEnds ==
    ASSUME StatsGood(state), NEW i \in DOMAIN state.requests, Stats!Answers(i) \/ Stats!Fails(i)
    PROVE  StatsGood(state')
<1> DEFINE c == Stats!Closed(i)
<1>0. state \in StatsBoxes /\ StatsLoaded(state) /\ StatsCharted(state) /\ StatsTabbed(state) /\ i # 0 /\ state.requests[i].open
    <2>1. state \in StatsBoxes /\ StatsLoaded(state) /\ StatsCharted(state) /\ StatsTabbed(state)
        BY DEF StatsGood
    <2>2. state.requests[i].open
        BY DEF Stats!Answers, Stats!Fails
    <2>3. state.requests \in Seq(StatsRequests)
        BY <2>1 DEF StatsBoxes
    <2> QED  BY <2>1, <2>2, <2>3
<1>1. /\ c \in StatsBoxes
      /\ DOMAIN c.requests = DOMAIN state.requests
      /\ ~c.requests[i].open
      /\ \A k \in DOMAIN state.requests : c.requests[k].range = state.requests[k].range
      /\ \A k \in DOMAIN state.requests : k # i => c.requests[k] = state.requests[k]
      /\ c.selected = state.selected /\ c.metric = state.metric /\ c.current = state.current
      /\ c.stopped = state.stopped /\ c.retry = state.retry /\ c.busy = state.busy
      /\ c.tab = state.tab /\ c.growth = state.growth
      /\ c.data = state.data /\ c.available = state.available
      /\ c.shown = state.shown /\ c.site = state.site /\ c.notice = state.notice
      /\ c.chart = state.chart /\ c.tip = state.tip
    BY <1>0, StatsClosed
<1> HIDE DEF c
<1>2. CASE state.current # i
    <2>1. state' = c
        BY <1>2 DEF Stats!Answers, Stats!Fails, Stats!IsCurrent, c
    <2>2. StatsLoaded(c)
        BY <1>0, <1>1, <1>2 DEF StatsLoaded
    <2>3. StatsCharted(c) /\ StatsTabbed(c)
        BY <1>0, <1>1 DEF StatsCharted, StatsTabbed
    <2> QED  BY <1>1, <2>1, <2>2, <2>3 DEF StatsGood
<1>3. CASE state.current = i
    <2>1. ~state.stopped /\ state.busy /\ ~state.retry /\ state.requests[i].range = state.selected
        BY <1>0, <1>3 DEF StatsLoaded
    <2>2. CASE Stats!Answers(i)
        <3>1. PICK available \in BOOLEAN :
                state' = [Stats!Render([c EXCEPT !.data = state.requests[i].range, !.available = available]) EXCEPT !.busy = FALSE]
            BY <1>3, <2>2 DEF Stats!Answers, Stats!IsCurrent, c
        <3> DEFINE b == [c EXCEPT !.data = state.requests[i].range, !.available = available]
                   d == Stats!Render(b)
                   e == [d EXCEPT !.busy = FALSE]
        <3>2. state.selected \in Ranges /\ state.selected # "none"
            BY <1>0, StatsAssumption DEF StatsBoxes
        <3>3. /\ b \in StatsBoxes /\ b.data = state.selected /\ b.data # "none"
              /\ b.selected = c.selected /\ b.metric = c.metric /\ b.requests = c.requests /\ b.current = c.current
              /\ b.stopped = c.stopped /\ b.retry = c.retry /\ b.busy = c.busy /\ b.tab = c.tab /\ b.growth = c.growth
            BY <1>1, <2>1, <3>2 DEF StatsBoxes
        <3> HIDE DEF b
        <3>4. /\ d \in StatsBoxes /\ StatsSameLoad(d, b)
              /\ d.shown = b.data /\ d.site = b.available /\ d.site = (d.notice = "none")
              /\ d.chart.count # 0 => d.site /\ d.chart.range = d.shown /\ d.chart.metric = d.metric
              /\ d.tip.pointer = 0 /\ d.tip.index = 0 /\ ~d.tip.tooltip /\ ~d.tip.frame
            BY <3>3, StatsRendered
        <3> HIDE DEF d
        <3>5. /\ e \in StatsBoxes /\ e.busy = FALSE
              /\ e.selected = d.selected /\ e.metric = d.metric /\ e.requests = d.requests /\ e.current = d.current
              /\ e.stopped = d.stopped /\ e.retry = d.retry /\ e.tab = d.tab /\ e.growth = d.growth
              /\ e.data = d.data /\ e.shown = d.shown /\ e.site = d.site /\ e.notice = d.notice
              /\ e.chart = d.chart /\ e.tip = d.tip
            BY <3>4 DEF StatsBoxes
        <3> HIDE DEF e
        <3>6. StatsLoaded(e)
            <4>1. e.site = (e.notice = "none")
                BY <3>4, <3>5, Zenon
            <4> QED  BY <1>0, <1>1, <1>3, <2>1, <3>3, <3>4, <3>5, <4>1 DEF StatsLoaded, StatsSameLoad
        <3>7. StatsCharted(e)
            BY <3>3, <3>4, <3>5 DEF StatsCharted, StatsSameLoad, StatsBoxes, StatsCharts
        <3>8. StatsTabbed(e)
            BY <1>0, <1>1, <3>3, <3>4, <3>5 DEF StatsTabbed, StatsSameLoad
        <3> QED  BY <3>1, <3>5, <3>6, <3>7, <3>8 DEF StatsGood, b, d, e
    <2>3. CASE Stats!Fails(i)
        <3> DEFINE d == Stats!DestroyChart(c)
                   e == [d EXCEPT !.data = "none", !.shown = "none", !.site = FALSE,
                           !.notice = "unavailable", !.retry = TRUE, !.busy = FALSE]
        <3>1. state' = e
            BY <1>3, <2>3 DEF Stats!Fails, Stats!IsCurrent, c
        <3>2. /\ d \in StatsBoxes /\ StatsSameLoad(d, c)
              /\ d.chart.count = 0
              /\ d.tip.pointer = 0 /\ d.tip.index = 0 /\ ~d.tip.tooltip /\ ~d.tip.frame
            BY <1>1, StatsDestroyed
        <3> HIDE DEF d
        <3>3. /\ e \in StatsBoxes /\ e.busy = FALSE /\ e.retry = TRUE /\ e.site = FALSE /\ e.notice = "unavailable" /\ e.data = "none"
              /\ e.selected = d.selected /\ e.metric = d.metric /\ e.requests = d.requests /\ e.current = d.current
              /\ e.stopped = d.stopped /\ e.tab = d.tab /\ e.growth = d.growth
              /\ e.chart = d.chart /\ e.tip = d.tip
            BY <3>2 DEF StatsBoxes
        <3> HIDE DEF e
        <3>4. StatsLoaded(e)
            BY <1>0, <1>1, <1>3, <2>1, <3>2, <3>3 DEF StatsLoaded, StatsSameLoad
        <3>5. StatsCharted(e)
            BY <3>2, <3>3 DEF StatsCharted, StatsBoxes, StatsCharts
        <3>6. StatsTabbed(e)
            BY <1>0, <1>1, <3>2, <3>3 DEF StatsTabbed, StatsSameLoad
        <3> QED  BY <3>1, <3>3, <3>4, <3>5, <3>6 DEF StatsGood
    <2> QED  BY <2>2, <2>3
<1> QED  BY <1>2, <1>3

\* Only the interaction with the chart changed, and it is of the chart.
LEMMA StatsTipped ==
    ASSUME StatsGood(state), NEW tip \in StatsTips,
           tip.pointer <= state.chart.count /\ tip.index <= state.chart.count,
           tip.tooltip => tip.rendered = <<state.chart.range, state.chart.metric, tip.index>> /\ tip.index # 0,
           tip.frame => tip.pointed
    PROVE  StatsGood([state EXCEPT !.tip = tip])
<1> DEFINE c == [state EXCEPT !.tip = tip]
<1>1. /\ c \in StatsBoxes /\ c.tip = tip
      /\ c.selected = state.selected /\ c.metric = state.metric /\ c.requests = state.requests /\ c.current = state.current
      /\ c.stopped = state.stopped /\ c.retry = state.retry /\ c.busy = state.busy
      /\ c.tab = state.tab /\ c.growth = state.growth /\ c.data = state.data
      /\ c.shown = state.shown /\ c.site = state.site /\ c.notice = state.notice /\ c.chart = state.chart
    BY DEF StatsGood, StatsBoxes
<1> HIDE DEF c
<1>2. StatsLoaded(c)
    BY <1>1 DEF StatsGood, StatsLoaded
<1>3. StatsCharted(c) /\ StatsTabbed(c)
    BY <1>1 DEF StatsGood, StatsCharted, StatsTabbed
<1> QED  BY <1>1, <1>2, <1>3 DEF StatsGood, c

\* The tip shows sample n, and is otherwise as b has it.
LEMMA StatsShown ==
    ASSUME StatsGood(state), NEW b \in StatsBoxes, b = [state EXCEPT !.tip = b.tip],
           NEW n \in 1..state.chart.count, b.tip.pointer <= state.chart.count,
           b.tip.frame => b.tip.pointed
    PROVE  StatsGood(Stats!Show(b, n))
<1> DEFINE rendered == <<state.chart.range, state.chart.metric, n>>
           tip == [b.tip EXCEPT !.index = n, !.tooltip = TRUE, !.rendered = rendered]
<1>1. state.chart \in StatsCharts /\ b.tip \in StatsTips /\ b.chart = state.chart /\ state \in StatsBoxes
    BY DEF StatsGood, StatsBoxes
<1>2. n \in Nat /\ n # 0 /\ n <= state.chart.count
    BY <1>1 DEF StatsCharts
<1>3. rendered \in (Ranges \union {"none"}) \X (Stats!Metrics \union {"none"}) \X Nat
    BY <1>1, <1>2 DEF StatsCharts
<1>4. Stats!Show(b, n) = [b EXCEPT !.tip = tip]
    BY <1>1 DEF Stats!Show
<1>5. [b EXCEPT !.tip = tip] = [state EXCEPT !.tip = tip]
    BY <1>1 DEF StatsBoxes
<1> HIDE DEF rendered
<1>6. /\ tip \in StatsTips /\ tip.index = n /\ tip.tooltip = TRUE /\ tip.rendered = rendered
      /\ tip.pointer = b.tip.pointer /\ tip.frame = b.tip.frame /\ tip.pointed = b.tip.pointed
    BY <1>1, <1>2, <1>3 DEF StatsTips
<1> HIDE DEF tip
<1>7. StatsGood([state EXCEPT !.tip = tip])
    BY <1>2, <1>6, StatsTipped DEF rendered
<1> QED  BY <1>4, <1>5, <1>7

LEMMA StatsPoints ==
    ASSUME StatsGood(state),
           Stats!Reset \/ Stats!Point \/ Stats!MovePointer \/ Stats!Lift \/ Stats!Paint \/ Stats!Focus \/ Stats!Key
    PROVE  StatsGood(state')
<1>0. state \in StatsBoxes /\ StatsCharted(state) /\ state.tip \in StatsTips /\ state.chart.count \in Nat
    BY DEF StatsGood, StatsBoxes, StatsCharts
\* Nobody points at the chart any more.
<1>1. StatsGood([state EXCEPT !.tip = Stats!Still])
    <2> DEFINE tip == Stats!Still
    <2>1. tip \in StatsTips /\ tip.pointer = 0 /\ tip.index = 0 /\ ~tip.tooltip /\ ~tip.frame
        BY StatsStill
    <2> HIDE DEF tip
    <2>2. StatsGood([state EXCEPT !.tip = tip])
        BY <1>0, <2>1, StatsTipped
    <2> QED  BY <2>2 DEF tip
\* A frame is requested for the sample pointed at.
<1>2. ASSUME NEW n \in 0..state.chart.count, NEW drag \in BOOLEAN
      PROVE  StatsGood([state EXCEPT !.tip = [state.tip EXCEPT !.drag = drag, !.pointed = TRUE, !.pointer = n, !.frame = TRUE]])
    <2> DEFINE tip == [state.tip EXCEPT !.drag = drag, !.pointed = TRUE, !.pointer = n, !.frame = TRUE]
    <2>1. n \in Nat /\ n <= state.chart.count
        BY <1>0
    <2>2. /\ tip \in StatsTips /\ tip.pointed = TRUE /\ tip.pointer = n /\ tip.index = state.tip.index
          /\ tip.tooltip = state.tip.tooltip /\ tip.rendered = state.tip.rendered
        BY <1>0, <2>1 DEF StatsTips
    <2> HIDE DEF tip
    <2>3. StatsGood([state EXCEPT !.tip = tip])
        BY <1>0, <2>1, <2>2, StatsTipped DEF StatsCharted
    <2> QED  BY <2>3 DEF tip
<1>3. CASE Stats!Reset
    BY <1>1, <1>3 DEF Stats!Reset
<1>4. CASE Stats!Point
    <2>1. PICK n \in 0..state.chart.count : \E touch \in BOOLEAN :
            state' = Stats!Track([state EXCEPT !.tip.drag = touch \/ @], n)
        BY <1>4 DEF Stats!Point
    <2>2. PICK touch \in BOOLEAN : state' = Stats!Track([state EXCEPT !.tip.drag = touch \/ @], n)
        BY <2>1
    <2> DEFINE drag == touch \/ state.tip.drag
    <2>3. drag \in BOOLEAN
        OBVIOUS
    <2>4. [state EXCEPT !.tip.drag = touch \/ @] = [state EXCEPT !.tip.drag = drag]
        OBVIOUS
    <2> HIDE DEF drag
    <2>5. state' = [state EXCEPT !.tip = [state.tip EXCEPT !.drag = drag, !.pointed = TRUE, !.pointer = n, !.frame = TRUE]]
        BY <1>0, <2>2, <2>4 DEF Stats!Track, StatsBoxes
    <2> QED  BY <1>2, <2>3, <2>5
<1>5. CASE Stats!MovePointer
    <2>1. PICK n \in 0..state.chart.count :
            state' = [state EXCEPT !.tip = Stats!Still] \/ state' = Stats!Track(state, n)
        BY <1>5 DEF Stats!MovePointer
    <2>2. Stats!Track(state, n)
          = [state EXCEPT !.tip = [state.tip EXCEPT !.drag = state.tip.drag, !.pointed = TRUE, !.pointer = n, !.frame = TRUE]]
        BY <1>0 DEF Stats!Track, StatsBoxes, StatsTips
    <2>3. state.tip.drag \in BOOLEAN
        BY <1>0 DEF StatsTips
    <2> QED  BY <1>1, <1>2, <2>1, <2>2, <2>3, ZenonT(60)
<1>6. CASE Stats!Lift
    <2> DEFINE tip == [state.tip EXCEPT !.drag = FALSE]
    <2>1. state' = [state EXCEPT !.tip = tip]
        BY <1>6 DEF Stats!Lift
    <2>2. /\ tip \in StatsTips /\ tip.pointed = state.tip.pointed /\ tip.pointer = state.tip.pointer /\ tip.index = state.tip.index
          /\ tip.tooltip = state.tip.tooltip /\ tip.rendered = state.tip.rendered /\ tip.frame = state.tip.frame
        BY <1>0 DEF StatsTips
    <2> HIDE DEF tip
    <2> QED  BY <1>0, <2>1, <2>2, StatsTipped DEF StatsCharted
<1>7. CASE Stats!Paint
    <2> DEFINE tip == [state.tip EXCEPT !.frame = FALSE]
               b   == [state EXCEPT !.tip = tip]
    <2>1. state' = IF ~b.tip.pointed THEN b
                   ELSE IF b.tip.pointer = 0 THEN [state EXCEPT !.tip = Stats!Still] ELSE Stats!Show(b, b.tip.pointer)
        BY <1>7 DEF Stats!Paint
    <2>2. /\ tip \in StatsTips /\ tip.pointed = state.tip.pointed /\ tip.pointer = state.tip.pointer /\ tip.index = state.tip.index
          /\ tip.tooltip = state.tip.tooltip /\ tip.rendered = state.tip.rendered /\ tip.frame = FALSE /\ tip.pointer \in Nat
        BY <1>0 DEF StatsTips
    <2> HIDE DEF tip
    <2>3. StatsGood(b)
        BY <1>0, <2>2, StatsTipped DEF StatsCharted
    <2>4. b.tip = tip /\ b \in StatsBoxes /\ b = [state EXCEPT !.tip = b.tip]
        BY <1>0, <2>2 DEF StatsBoxes
    <2>5. b.tip.pointer # 0 => StatsGood(Stats!Show(b, b.tip.pointer))
        <3> SUFFICES ASSUME b.tip.pointer # 0  PROVE StatsGood(Stats!Show(b, b.tip.pointer))
            OBVIOUS
        <3>1. b.tip.pointer \in 1..state.chart.count /\ b.tip.pointer <= state.chart.count /\ (b.tip.frame => b.tip.pointed)
            BY <1>0, <2>2, <2>4 DEF StatsCharted
        <3> HIDE DEF b
        <3> QED  BY <2>4, <3>1, StatsShown
    <2> QED  BY <1>1, <2>1, <2>3, <2>5
<1>8. CASE Stats!Focus
    <2>1. 1 \in 1..state.chart.count /\ state' = Stats!Show(state, 1)
        BY <1>0, <1>8 DEF Stats!Focus, Stats!Charted
    <2>2. state = [state EXCEPT !.tip = state.tip]
        BY <1>0 DEF StatsBoxes
    <2>3. state.tip.pointer <= state.chart.count /\ (state.tip.frame => state.tip.pointed)
        BY <1>0 DEF StatsCharted
    <2> QED  BY <1>0, <2>1, <2>2, <2>3, StatsShown
<1>9. CASE Stats!Key
    <2> DEFINE tip == [state.tip EXCEPT !.frame = FALSE, !.pointed = FALSE, !.pointer = 0]
               b   == [state EXCEPT !.tip = tip]
    <2>1. PICK n \in 1..state.chart.count :
            state' = Stats!Show([state EXCEPT !.tip.frame = FALSE, !.tip.pointed = FALSE, !.tip.pointer = 0], n)
        <3>1. state.chart.count # 0 /\ state.tip.index <= state.chart.count /\ state.tip.index \in Nat
            BY <1>0, <1>9 DEF Stats!Key, Stats!Charted, StatsCharted, StatsTips
        <3>2. \E n \in {1, state.chart.count, IF state.tip.index < state.chart.count THEN state.tip.index + 1 ELSE state.chart.count,
                        IF state.tip.index > 1 THEN state.tip.index - 1 ELSE 1} :
                state' = Stats!Show([state EXCEPT !.tip.frame = FALSE, !.tip.pointed = FALSE, !.tip.pointer = 0], n)
            BY <1>9 DEF Stats!Key
        <3>3. {1, state.chart.count, IF state.tip.index < state.chart.count THEN state.tip.index + 1 ELSE state.chart.count,
               IF state.tip.index > 1 THEN state.tip.index - 1 ELSE 1} \subseteq 1..state.chart.count
            BY <1>0, <3>1
        <3> QED  BY <3>2, <3>3
    <2>2. [state EXCEPT !.tip.frame = FALSE, !.tip.pointed = FALSE, !.tip.pointer = 0] = b
        BY <1>0 DEF StatsBoxes
    <2>3. tip \in StatsTips /\ tip.frame = FALSE /\ tip.pointer = 0
        BY <1>0 DEF StatsTips
    <2> HIDE DEF tip
    <2>4. b.tip = tip /\ b \in StatsBoxes /\ b = [state EXCEPT !.tip = b.tip]
        BY <1>0, <2>3 DEF StatsBoxes
    <2>5. state' = Stats!Show(b, n)
        BY <2>1, <2>2
    <2> HIDE DEF b
    <2> QED  BY <1>0, <2>3, <2>4, <2>5, StatsShown
<1> QED  BY <1>3, <1>4, <1>5, <1>6, <1>7, <1>8, <1>9

LEMMA StatsStep ==
    ASSUME StatsGood(state), Stats!Next
    PROVE  StatsGood(state')
<1>0. state \in StatsBoxes /\ StatsLoaded(state) /\ StatsCharted(state) /\ StatsTabbed(state)
    BY DEF StatsGood
<1>1. CASE \E i \in DOMAIN state.requests : Stats!Answers(i) \/ Stats!Fails(i)
    BY <1>1, StatsEnds
<1>2. CASE ~state.stopped /\ Stats!ChooseRange
    BY <1>0, <1>2, StatsLoads DEF Stats!ChooseRange
<1>3. CASE ~state.stopped /\ Stats!Retry
    <2>1. state.selected \in Ranges
        BY <1>0 DEF StatsBoxes
    <2> QED  BY <1>0, <1>3, <2>1, StatsLoads DEF Stats!Retry
<1>4. CASE ~state.stopped /\ Stats!ChooseMetric
    <2>1. PICK metric \in Stats!Metrics \ {state.metric} : state' = Stats!Render([state EXCEPT !.metric = metric])
        BY <1>4 DEF Stats!ChooseMetric
    <2> DEFINE b == [state EXCEPT !.metric = metric]
               c == Stats!Render(b)
    <2>2. /\ b \in StatsBoxes /\ b.tip = state.tip /\ b.chart = state.chart
          /\ b.selected = state.selected /\ b.requests = state.requests /\ b.current = state.current
          /\ b.stopped = state.stopped /\ b.retry = state.retry /\ b.busy = state.busy
          /\ b.tab = state.tab /\ b.growth = state.growth /\ b.data = state.data
          /\ b.shown = state.shown /\ b.site = state.site /\ b.notice = state.notice
        BY <1>0 DEF StatsBoxes
    <2> HIDE DEF b
    <2>3. CASE b.data = "none"
        <3>1. c = b
            BY <2>3 DEF Stats!Render
        <3>2. b.chart.count = 0
            BY <1>0, <2>2, <2>3 DEF StatsCharted
        <3>3. StatsCharted(b)
            BY <1>0, <2>2, <3>2 DEF StatsCharted, StatsBoxes, StatsTips
        <3>4. StatsLoaded(b) /\ StatsTabbed(b)
            BY <1>0, <2>2 DEF StatsLoaded, StatsTabbed
        <3> HIDE DEF c
        <3> QED  BY <2>1, <2>2, <3>1, <3>3, <3>4 DEF StatsGood, b, c
    <2>4. CASE b.data # "none"
        <3>1. /\ c \in StatsBoxes /\ StatsSameLoad(c, b)
              /\ c.shown = b.data /\ c.site = b.available /\ c.site = (c.notice = "none")
              /\ c.chart.count # 0 => c.site /\ c.chart.range = c.shown /\ c.chart.metric = c.metric
              /\ c.tip.pointer = 0 /\ c.tip.index = 0 /\ ~c.tip.tooltip /\ ~c.tip.frame
            BY <2>2, <2>4, StatsRendered
        <3> HIDE DEF c
        <3>2. ~c.retry
            BY <1>0, <2>2, <2>4, <3>1 DEF StatsLoaded, StatsSameLoad
        <3>3. StatsLoaded(c)
            BY <1>0, <2>2, <2>4, <3>1, <3>2 DEF StatsLoaded, StatsSameLoad
        <3>4. StatsCharted(c)
            BY <2>2, <2>4, <3>1 DEF StatsCharted, StatsSameLoad, StatsBoxes, StatsCharts
        <3>5. StatsTabbed(c)
            BY <1>0, <2>2, <3>1 DEF StatsTabbed, StatsSameLoad
        <3> QED  BY <2>1, <3>1, <3>3, <3>4, <3>5 DEF StatsGood, b, c
    <2> QED  BY <2>3, <2>4
<1>5. CASE Stats!Stop
    <2> DEFINE d == Stats!DestroyChart(state)
               c == [d EXCEPT !.stopped = TRUE, !.current = 0]
    <2>1. state' = c
        BY <1>5 DEF Stats!Stop
    <2>2. /\ d \in StatsBoxes /\ StatsSameLoad(d, state) /\ d.shown = state.shown /\ d.site = state.site /\ d.notice = state.notice
          /\ d.chart.count = 0
          /\ d.tip.pointer = 0 /\ d.tip.index = 0 /\ ~d.tip.tooltip /\ ~d.tip.frame
        BY <1>0, StatsDestroyed
    <2> HIDE DEF d
    <2>3. /\ c \in StatsBoxes /\ c.stopped = TRUE /\ c.current = 0
          /\ c.tip = d.tip /\ c.chart = d.chart
          /\ c.selected = d.selected /\ c.requests = d.requests
          /\ c.retry = d.retry /\ c.busy = d.busy
          /\ c.tab = d.tab /\ c.growth = d.growth /\ c.data = d.data
          /\ c.shown = d.shown /\ c.site = d.site /\ c.notice = d.notice
        BY <2>2 DEF StatsBoxes
    <2> HIDE DEF c
    <2>4. StatsLoaded(c)
        BY <1>0, <2>2, <2>3 DEF StatsLoaded, StatsSameLoad
    <2>5. StatsCharted(c)
        BY <2>2, <2>3 DEF StatsCharted, StatsBoxes, StatsCharts
    <2>6. StatsTabbed(c)
        BY <1>0, <2>2, <2>3 DEF StatsTabbed, StatsSameLoad
    <2> QED  BY <2>1, <2>3, <2>4, <2>5, <2>6 DEF StatsGood
<1>6. CASE Stats!SelectTab \/ Stats!PointAtGrowth
    <2>1. PICK tab \in 1..Tabs, growth \in [1..Tabs -> 0..2] :
            state' = [state EXCEPT !.tab = tab, !.growth = growth] /\ \A t \in 1..Tabs : growth[t] # 0 => t = tab
        <3>1. CASE Stats!SelectTab
            <4>1. PICK t \in 1..Tabs : state' = [state EXCEPT !.tab = t, !.growth = [u \in 1..Tabs |-> 0]]
                BY <3>1 DEF Stats!SelectTab
            <4> DEFINE growth == [u \in 1..Tabs |-> 0]
            <4>2. growth \in [1..Tabs -> 0..2] /\ \A u \in 1..Tabs : growth[u] # 0 => u = t
                OBVIOUS
            <4> HIDE DEF growth
            <4> QED  BY <4>1, <4>2 DEF growth
        <3>2. CASE Stats!PointAtGrowth
            <4>1. PICK n \in 0..2 : state' = [state EXCEPT !.growth[state.tab] = n]
                BY <3>2 DEF Stats!PointAtGrowth
            <4> DEFINE growth == [state.growth EXCEPT ![state.tab] = n]
            <4>2. state.tab \in 1..Tabs /\ state.growth \in [1..Tabs -> 0..2]
                BY <1>0 DEF StatsBoxes
            <4>3. growth \in [1..Tabs -> 0..2] /\ \A u \in 1..Tabs : growth[u] # 0 => u = state.tab
                BY <1>0, <4>2 DEF StatsTabbed
            <4>4. [state EXCEPT !.growth[state.tab] = n] = [state EXCEPT !.growth = growth]
                OBVIOUS
            <4> HIDE DEF growth
            <4>5. [state EXCEPT !.growth = growth] = [state EXCEPT !.tab = state.tab, !.growth = growth]
                BY <1>0 DEF StatsBoxes
            <4> QED  BY <4>1, <4>2, <4>3, <4>4, <4>5
        <3> QED  BY <1>6, <3>1, <3>2
    <2> DEFINE c == [state EXCEPT !.tab = tab, !.growth = growth]
    <2>2. /\ c \in StatsBoxes /\ c.tab = tab /\ c.growth = growth
          /\ c.selected = state.selected /\ c.metric = state.metric /\ c.requests = state.requests /\ c.current = state.current
          /\ c.stopped = state.stopped /\ c.retry = state.retry /\ c.busy = state.busy /\ c.data = state.data
          /\ c.shown = state.shown /\ c.site = state.site /\ c.notice = state.notice /\ c.chart = state.chart /\ c.tip = state.tip
        BY <1>0, <2>1 DEF StatsBoxes
    <2> HIDE DEF c
    <2>3. StatsLoaded(c)
        BY <1>0, <2>2 DEF StatsLoaded
    <2>4. StatsCharted(c) /\ StatsTabbed(c)
        BY <1>0, <2>1, <2>2 DEF StatsCharted, StatsTabbed
    <2> QED  BY <2>1, <2>2, <2>3, <2>4 DEF StatsGood, c
<1> QED  BY <1>1, <1>2, <1>3, <1>4, <1>5, <1>6, StatsPoints DEF Stats!Next

LEMMA StatsShows ==
    ASSUME StatsGood(state)
    PROVE  Stats!ShowsWhatWasChosen
<1>0. state \in StatsBoxes /\ StatsLoaded(state) /\ StatsCharted(state) /\ StatsTabbed(state)
    BY DEF StatsGood
<1>1. ASSUME ~state.stopped
      PROVE  state.busy = (\E i \in DOMAIN state.requests : i = state.current /\ state.requests[i].open)
    <2>1. state.requests \in Seq(StatsRequests) /\ state.busy \in BOOLEAN
        BY <1>0 DEF StatsBoxes
    <2>2. 0 \notin DOMAIN state.requests
        BY <2>1
    <2>3. state.busy => \E i \in DOMAIN state.requests : i = state.current /\ state.requests[i].open
        BY <1>0, <1>1 DEF StatsLoaded
    <2>4. (\E i \in DOMAIN state.requests : i = state.current /\ state.requests[i].open) => state.busy
        BY <1>0, <1>1, <2>2 DEF StatsLoaded
    <2> QED  BY <2>1, <2>3, <2>4, Zenon
<1>2. ~state.busy => IF state.retry THEN ~state.site /\ state.notice = "unavailable"
                     ELSE state.shown = state.selected /\ state.site = (state.notice = "none")
    BY <1>0, Zenon DEF StatsLoaded
<1>3. Stats!Charted => state.site /\ state.chart.range = state.shown /\ state.chart.metric = state.metric
    BY <1>0 DEF StatsCharted, Stats!Charted, StatsBoxes, StatsCharts
<1>4. state.tip.tooltip => state.tip.rendered = <<state.chart.range, state.chart.metric, state.tip.index>>
                           /\ state.tip.index \in 1..state.chart.count
    BY <1>0 DEF StatsCharted, StatsBoxes, StatsCharts, StatsTips
<1>5. (state.tip.frame => state.tip.pointed) /\ \A t \in 1..Tabs : state.growth[t] # 0 => t = state.tab
    BY <1>0 DEF StatsCharted, StatsTabbed
<1> QED  BY <1>1, <1>2, <1>3, <1>4, <1>5, Zenon DEF Stats!ShowsWhatWasChosen

-----------------------------------------------------------------------------
(* The article explorer.                                                    *)

\* Filters as an address gives them, and on a page that can be addressed.
ExplorerFilters(f) ==
    /\ f = [q |-> f.q, topic |-> f.topic, tags |-> f.tags, ratings |-> f.ratings, lang |-> f.lang,
            sort |-> f.sort, page |-> f.page]
    /\ f.sort # Explorer!NoText /\ f.sort \notin DOMAIN Explorer!OldSorts
    /\ f.page \in 1..MaxPage

\* A form with such choices, and only boxes that it has.
ExplorerForm(m) ==
    /\ m = [q |-> m.q, topic |-> m.topic, tags |-> m.tags, ratings |-> m.ratings, lang |-> m.lang, sort |-> m.sort]
    /\ m.tags \subseteq Explorer!Slugs(TagLabels) /\ m.ratings \subseteq {r.rating : r \in Rows}
    /\ m.sort # Explorer!NoText /\ m.sort \notin DOMAIN Explorer!OldSorts

\* The same but for the page.
ExplorerAlike(f, g) ==
    /\ f.q = g.q /\ f.topic = g.topic /\ f.tags = g.tags /\ f.ratings = g.ratings /\ f.lang = g.lang /\ f.sort = g.sort

\* The filters that an address stands for.
ExplorerRead(address) == Explorer!Clamped(Explorer!Parse(address, TopicLabels, TagLabels))

ExplorerHistory(entries, at) ==
    /\ \E S : entries \in Seq(S)
    /\ at \in DOMAIN entries
    /\ \A i \in DOMAIN entries : entries[i].page \in Nat

ExplorerBox(s) ==
    s = [filters |-> s.filters, form |-> s.form, list |-> s.list, count |-> s.count, tagsShown |-> s.tagsShown,
         entries |-> s.entries, at |-> s.at, left |-> s.left]

\* The page shows its filters, and what its address says when that can be told.
ExplorerGood(s) ==
    /\ ExplorerBox(s) /\ ExplorerHistory(s.entries, s.at)
    /\ ExplorerFilters(s.filters) /\ s.filters.page \in 1..Explorer!Total(s.filters)
    /\ Explorer!Unmistakable(s.filters) => s.filters = ExplorerRead(s.entries[s.at])
    /\ s.form = Explorer!FormOf(s.filters)
    /\ s.list = Explorer!Page(s.filters)
    /\ s.count = Len(Explorer!Filtered(s.filters))

LEMMA ExplorerNoText ==
    ASSUME NEW labels \in {TopicLabels, TagLabels}
    PROVE  Explorer!Given(Explorer!NoText, labels) = Explorer!NoText
BY ExplorerAssumption DEF Explorer!Given

LEMMA ExplorerOldSorts ==
    /\ \A s \in DOMAIN Explorer!OldSorts : Explorer!OldSorts[s] \in Explorer!Sorts
    /\ \A s \in Explorer!Sorts : s # Explorer!NoText /\ s \notin DOMAIN Explorer!OldSorts
    /\ "source-date" \in Explorer!Sorts
<1>1. \A s \in DOMAIN Explorer!OldSorts : Explorer!OldSorts[s] \in Explorer!Sorts
    BY DEF Explorer!OldSorts, Explorer!Sorts
<1>2. \A s \in Explorer!Sorts : s \notin DOMAIN Explorer!OldSorts
    BY DEF Explorer!OldSorts, Explorer!Sorts
<1>3. /\ "source-date" # Explorer!NoText /\ "recommended" # Explorer!NoText /\ "rating" # Explorer!NoText
      /\ "title" # Explorer!NoText /\ "added" # Explorer!NoText
    BY Zenon DEF Explorer!NoText
<1>4. \A s \in Explorer!Sorts : s # Explorer!NoText
    BY <1>3 DEF Explorer!Sorts
<1> QED  BY <1>1, <1>2, <1>4 DEF Explorer!Sorts

\* The filters of an address.
LEMMA ExplorerParsed ==
    ASSUME NEW address, address.page \in Nat
    PROVE  ExplorerFilters(Explorer!Parse(address, TopicLabels, TagLabels))
<1> DEFINE f == Explorer!Parse(address, TopicLabels, TagLabels)
           sort == IF address.sort = Explorer!NoText THEN "source-date" ELSE address.sort
<1>1. f = [q |-> f.q, topic |-> f.topic, tags |-> f.tags, ratings |-> f.ratings, lang |-> f.lang,
            sort |-> f.sort, page |-> f.page]
    BY DEF Explorer!Parse
<1>4. f.sort = IF sort \in DOMAIN Explorer!OldSorts THEN Explorer!OldSorts[sort] ELSE sort
    BY DEF Explorer!Parse
<1>5. sort # Explorer!NoText
    BY ExplorerOldSorts
<1>6. f.sort # Explorer!NoText /\ f.sort \notin DOMAIN Explorer!OldSorts
    BY <1>4, <1>5, ExplorerOldSorts
<1>7. f.page = IF address.page = 0 THEN 1 ELSE IF address.page > MaxPage THEN MaxPage ELSE address.page
    BY DEF Explorer!Parse
<1>8. f.page \in 1..MaxPage
    BY <1>7, ExplorerAssumption
<1> QED  BY <1>1, <1>6, <1>8 DEF ExplorerFilters

LEMMA ExplorerAddressed ==
    ASSUME NEW f, ExplorerFilters(f)
    PROVE  Explorer!Address(f).page \in Nat
<1>1. f.page \in Nat
    BY ExplorerAssumption DEF ExplorerFilters
<1>2. Explorer!Address(f).page = IF f.page > 1 THEN f.page ELSE 0
    BY DEF Explorer!Address
<1> QED  BY <1>1, <1>2

\* An address written from filters that it can tell is read as the same filters.
LEMMA ExplorerRoundTrip ==
    ASSUME NEW f, ExplorerFilters(f), Explorer!Unmistakable(f)
    PROVE  Explorer!Parse(Explorer!Address(f), TopicLabels, TagLabels) = f
<1> DEFINE a == Explorer!Address(f)
           p == Explorer!Parse(a, TopicLabels, TagLabels)
<1>0. MaxPage \in Nat /\ f.page \in Nat /\ f.page >= 1 /\ f.page <= MaxPage
    BY ExplorerAssumption DEF ExplorerFilters
<1>1. /\ a.q = f.q /\ a.topic = f.topic /\ a.category = Explorer!NoText /\ a.tags = f.tags /\ a.ratings = f.ratings
      /\ a.lang = f.lang /\ a.sort = (IF f.sort = "source-date" THEN Explorer!NoText ELSE f.sort)
      /\ a.page = IF f.page > 1 THEN f.page ELSE 0
    BY DEF Explorer!Address
<1> HIDE DEF a
<1>2. p = [q |-> p.q, topic |-> p.topic, tags |-> p.tags, ratings |-> p.ratings, lang |-> p.lang,
            sort |-> p.sort, page |-> p.page]
    BY DEF Explorer!Parse
<1>3. p.q = f.q /\ p.ratings = f.ratings /\ p.lang = f.lang
    BY <1>1 DEF Explorer!Parse
<1>4. p.topic = f.topic
    <2>1. p.topic = Explorer!Given(IF a.topic # Explorer!NoText THEN a.topic ELSE a.category, TopicLabels)
        BY DEF Explorer!Parse
    <2>2. (IF a.topic # Explorer!NoText THEN a.topic ELSE a.category) = f.topic
        BY <1>1
    <2> QED  BY <2>1, <2>2 DEF Explorer!Unmistakable
<1>5. p.tags = f.tags
    <2>1. p.tags = {Explorer!Given(t, TagLabels) : t \in f.tags}
        BY <1>1 DEF Explorer!Parse
    <2>2. \A t \in f.tags : Explorer!Given(t, TagLabels) = t
        BY DEF Explorer!Unmistakable
    <2> QED  BY <2>1, <2>2
<1>6. p.sort = f.sort
    <2> DEFINE sort == IF a.sort = Explorer!NoText THEN "source-date" ELSE a.sort
    <2>1. p.sort = IF sort \in DOMAIN Explorer!OldSorts THEN Explorer!OldSorts[sort] ELSE sort
        BY DEF Explorer!Parse
    <2>2. f.sort # Explorer!NoText /\ f.sort \notin DOMAIN Explorer!OldSorts
        BY DEF ExplorerFilters
    <2>3. sort = f.sort
        BY <1>1, <2>2
    <2> QED  BY <2>1, <2>2, <2>3
<1>7. p.page = f.page
    <2>1. p.page = IF a.page = 0 THEN 1 ELSE IF a.page > MaxPage THEN MaxPage ELSE a.page
        BY DEF Explorer!Parse
    <2> QED  BY <2>1, <1>0, <1>1
<1>8. f = [q |-> f.q, topic |-> f.topic, tags |-> f.tags, ratings |-> f.ratings, lang |-> f.lang,
            sort |-> f.sort, page |-> f.page]
    BY DEF ExplorerFilters
<1>9. p = f
    <2> HIDE DEF p
    <2> QED  BY ONLY <1>2, <1>3, <1>4, <1>5, <1>6, <1>7, <1>8
<1> QED  BY <1>9 DEF a

\* What is found does not depend on the page.
LEMMA ExplorerAlikeFound ==
    ASSUME NEW f, NEW g, ExplorerAlike(f, g)
    PROVE  /\ Explorer!Filtered(f) = Explorer!Filtered(g) /\ Explorer!Total(f) = Explorer!Total(g)
           /\ Explorer!FormOf(f) = Explorer!FormOf(g)
<1>1. f.q = g.q /\ f.topic = g.topic /\ f.tags = g.tags /\ f.ratings = g.ratings /\ f.lang = g.lang /\ f.sort = g.sort
    BY DEF ExplorerAlike
<1>2. \A r : Explorer!Matches(r, f) = Explorer!Matches(r, g)
    BY <1>1 DEF Explorer!Matches
<1>3. Explorer!Filtered(f) = Explorer!Filtered(g)
    <2>1. {r \in Rows : Explorer!Matches(r, f)} = {r \in Rows : Explorer!Matches(r, g)}
        BY <1>2, Zenon
    <2> QED  BY <1>1, <2>1, Zenon DEF Explorer!Filtered, Explorer!Sorted
<1>4. Explorer!Total(f) = Explorer!Total(g)
    BY <1>3, Zenon DEF Explorer!Total
<1>5. Explorer!FormOf(f) = Explorer!FormOf(g)
    BY <1>1, Zenon DEF Explorer!FormOf
<1> QED  BY <1>3, <1>4, <1>5

\* As many are found as match, and they fit on the pages there are.
LEMMA ExplorerFound ==
    ASSUME NEW f
    PROVE  /\ Len(Explorer!Filtered(f)) \in Nat /\ Len(Explorer!Filtered(f)) <= MaxPage * RowsPerPage
           /\ Explorer!Total(f) \in 1..MaxPage
<1> DEFINE S == {r \in Rows : Explorer!Matches(r, f)}
           n == Len(Explorer!Filtered(f))
<1>1. IsFiniteSet(S) /\ Cardinality(S) \in Nat /\ Cardinality(S) <= Cardinality(Rows) /\ Cardinality(Rows) \in Nat
    BY ExplorerAssumption, FS_Subset, FS_CardinalityType
<1>2. \E h : Explorer!Filtered(f) = [k \in 1..Explorer!Cardinality(S) |-> h[k]]
    <2>1. \E below : Explorer!Filtered(f) = Explorer!Places(S, below)
        BY DEF Explorer!Filtered, Explorer!Sorted
    <2>2. PICK below : Explorer!Filtered(f) = Explorer!Places(S, below)
        BY <2>1
    <2>3. Explorer!Filtered(f) = [k \in 1..Explorer!Cardinality(S) |->
                                     CHOOSE x \in S : Explorer!Cardinality(below[x]) = k - 1]
        BY <2>2 DEF Explorer!Places
    <2> QED  BY <2>3
<1>3. Explorer!Cardinality(S) = Cardinality(S)
    BY DEF Explorer!Cardinality, Cardinality
<1>4. n = Cardinality(S)
    <2> HIDE DEF S
    <2> QED  BY <1>1, <1>2, <1>3
<1>5. n \in Nat /\ n <= MaxPage * RowsPerPage
    BY <1>1, <1>4, ExplorerAssumption
<1>6. Explorer!Total(f) = IF n = 0 THEN 1 ELSE (n + RowsPerPage - 1) \div RowsPerPage
    BY DEF Explorer!Total
<1>7. Explorer!Total(f) \in 1..MaxPage
    <2> HIDE DEF n
    <2>1. RowsPerPage \in Nat /\ RowsPerPage > 0 /\ MaxPage \in Nat /\ MaxPage > 0
        BY ExplorerAssumption
    <2>2. CASE n = 0
        BY <2>1, <2>2, <1>6
    <2>3. CASE n # 0
        <3>1. (n + RowsPerPage - 1) \div RowsPerPage <= MaxPage
            BY <1>5, <2>1
        <3>2. (n + RowsPerPage - 1) \div RowsPerPage \in Nat /\ (n + RowsPerPage - 1) \div RowsPerPage >= 1
            BY <1>5, <2>1, <2>3
        <3> QED  BY <1>6, <2>1, <2>3, <3>1, <3>2
    <2> QED  BY <2>2, <2>3
<1> QED  BY <1>5, <1>7

\* A page that exists is of the same filters, and stays.
LEMMA ExplorerPaged ==
    ASSUME NEW f, ExplorerFilters(f), NEW n \in 1..MaxPage
    PROVE  LET g == [f EXCEPT !.page = n] IN ExplorerFilters(g) /\ ExplorerAlike(g, f) /\ g.page = n
<1> DEFINE g == [f EXCEPT !.page = n]
<1>1. f = [q |-> f.q, topic |-> f.topic, tags |-> f.tags, ratings |-> f.ratings, lang |-> f.lang,
            sort |-> f.sort, page |-> f.page]
    BY DEF ExplorerFilters
<1>2. g = [q |-> f.q, topic |-> f.topic, tags |-> f.tags, ratings |-> f.ratings, lang |-> f.lang,
            sort |-> f.sort, page |-> n]
    BY <1>1
<1> HIDE DEF g
<1>3. /\ g.q = f.q /\ g.topic = f.topic /\ g.tags = f.tags /\ g.ratings = f.ratings /\ g.lang = f.lang
      /\ g.sort = f.sort /\ g.page = n
    BY <1>2
<1>4. g = [q |-> g.q, topic |-> g.topic, tags |-> g.tags, ratings |-> g.ratings, lang |-> g.lang,
            sort |-> g.sort, page |-> g.page]
    BY ONLY <1>2, <1>3
<1>5. ExplorerFilters(g) /\ ExplorerAlike(g, f)
    BY <1>3, <1>4 DEF ExplorerFilters, ExplorerAlike
<1> QED  BY <1>3, <1>5 DEF g

LEMMA ExplorerClamped ==
    ASSUME NEW f, ExplorerFilters(f)
    PROVE  LET g == Explorer!Clamped(f) IN
           /\ ExplorerFilters(g) /\ ExplorerAlike(g, f) /\ g.page \in 1..Explorer!Total(g) /\ Explorer!Clamped(g) = g
<1> DEFINE g == Explorer!Clamped(f)
           n == IF f.page > Explorer!Total(f) THEN Explorer!Total(f) ELSE f.page
<1>1. f.page \in 1..MaxPage /\ Explorer!Total(f) \in 1..MaxPage /\ MaxPage \in Nat
    BY ExplorerFound, ExplorerAssumption DEF ExplorerFilters
<1>2. n \in 1..MaxPage /\ n \in 1..Explorer!Total(f)
    BY <1>1
<1>3. g = [f EXCEPT !.page = n]
    BY DEF Explorer!Clamped
<1>4. ExplorerFilters(g) /\ ExplorerAlike(g, f) /\ g.page = n
    BY <1>2, <1>3, ExplorerPaged
<1>5. Explorer!Total(g) = Explorer!Total(f)
    BY <1>4, ExplorerAlikeFound
<1> HIDE DEF g, n
<1>6. g.page \in 1..Explorer!Total(g)
    BY <1>2, <1>4, <1>5
<1>7. Explorer!Clamped(g) = g
    <2>1. ~(g.page > Explorer!Total(g))
        BY <1>1, <1>5, <1>6
    <2>2. Explorer!Clamped(g) = [g EXCEPT !.page = g.page]
        BY <2>1 DEF Explorer!Clamped
    <2>3. [g EXCEPT !.page = g.page] = g
        <3>1. g = [q |-> g.q, topic |-> g.topic, tags |-> g.tags, ratings |-> g.ratings, lang |-> g.lang,
                    sort |-> g.sort, page |-> g.page]
            BY <1>4 DEF ExplorerFilters
        <3> QED  BY ONLY <3>1
    <2> QED  BY <2>2, <2>3
<1> QED  BY <1>4, <1>6, <1>7 DEF g

\* A page that exists shows something when anything is found, and has its number below.
LEMMA ExplorerShown ==
    ASSUME NEW f, f.page \in 1..Explorer!Total(f)
    PROVE  /\ Explorer!Page(f) = <<>> => Len(Explorer!Filtered(f)) = 0
           /\ f.page \in Explorer!Numbers(f) \union {1}
<1> DEFINE n == Len(Explorer!Filtered(f))
<1>1. n \in Nat /\ n <= MaxPage * RowsPerPage /\ Explorer!Total(f) \in 1..MaxPage
    BY ExplorerFound
<1>2. RowsPerPage \in Nat /\ RowsPerPage > 0 /\ MaxPage \in Nat
    BY ExplorerAssumption
<1>3. Explorer!Total(f) = IF n = 0 THEN 1 ELSE (n + RowsPerPage - 1) \div RowsPerPage
    BY DEF Explorer!Total
<1>4. DOMAIN Explorer!Page(f) = {k \in 1..RowsPerPage : (f.page - 1) * RowsPerPage + k <= n}
    BY DEF Explorer!Page
<1> HIDE DEF n
<1>5. ASSUME n # 0
      PROVE  Explorer!Page(f) # <<>>
    <2>1. f.page \in Nat /\ f.page >= 1 /\ f.page <= (n + RowsPerPage - 1) \div RowsPerPage
        BY <1>1, <1>2, <1>3, <1>5
    <2>2. (f.page - 1) * RowsPerPage + 1 <= n
        BY <1>1, <1>2, <2>1
    <2>3. 1 \in DOMAIN Explorer!Page(f)
        BY <1>2, <1>4, <2>2
    <2> QED  BY <2>3
<1>6. f.page \in Explorer!Numbers(f) \union {1}
    <2>1. CASE Explorer!Total(f) = 1
        BY <2>1
    <2>2. CASE Explorer!Total(f) # 1
        <3>1. f.page \in {k \in 1..Explorer!Total(f) : k + 2 >= f.page /\ k <= f.page + 2}
            BY <1>1
        <3> QED  BY <2>2, <3>1 DEF Explorer!Numbers
    <2> QED  BY <2>1, <2>2
<1> QED  BY <1>5, <1>6 DEF n

LEMMA ExplorerShows ==
    ASSUME ExplorerGood(state)
    PROVE  Explorer!AddressTellsAll
<1> DEFINE address == state.entries[state.at]
           f == Explorer!Parse(address, TopicLabels, TagLabels)
           shown == Explorer!Clamped(f)
<1>1. address.page \in Nat
    BY DEF ExplorerGood, ExplorerHistory
<1>2. Explorer!FormOf(shown) = Explorer!FormOf(f)
    BY <1>1, ExplorerParsed, ExplorerClamped, ExplorerAlikeFound
<1>3. /\ Explorer!Unmistakable(state.filters) => state.filters = shown
      /\ state.form = Explorer!FormOf(state.filters) /\ state.list = Explorer!Page(state.filters)
      /\ state.count = Len(Explorer!Filtered(state.filters))
    BY Zenon DEF ExplorerGood, ExplorerRead
<1>4. LET anew == Explorer!Opened(address) IN
      /\ anew.filters = shown /\ anew.form = Explorer!FormOf(f) /\ anew.list = Explorer!Page(shown)
      /\ anew.count = Len(Explorer!Filtered(shown))
    BY DEF Explorer!Opened
<1>5. /\ Explorer!Page(state.filters) = <<>> => Len(Explorer!Filtered(state.filters)) = 0
      /\ state.filters.page \in Explorer!Numbers(state.filters) \union {1}
    BY ExplorerShown DEF ExplorerGood
<1> HIDE DEF shown, f
<1> QED  BY <1>2, <1>3, <1>4, <1>5 DEF Explorer!AddressTellsAll

LEMMA ExplorerInit ==
    ASSUME Explorer!Init
    PROVE  ExplorerGood(state)
<1>1. PICK address \in Visited : state = Explorer!Opened(address)
    BY DEF Explorer!Init
<1> DEFINE f == Explorer!Parse(address, TopicLabels, TagLabels)
           shown == Explorer!Clamped(f)
<1>2. address.page \in Nat
    BY ExplorerAssumption
<1>3. Explorer!FormOf(shown) = Explorer!FormOf(f)
    BY <1>2, ExplorerParsed, ExplorerClamped, ExplorerAlikeFound
<1>4. state = [filters |-> shown, form |-> Explorer!FormOf(f), list |-> Explorer!Page(shown),
               count |-> Len(Explorer!Filtered(shown)), tagsShown |-> TagsAtFirst, entries |-> <<address>>, at |-> 1,
               left |-> MaxFormChanges]
    BY <1>1, Zenon DEF Explorer!Opened
<1> HIDE DEF shown, f
<1>5. /\ state.filters = shown /\ state.form = Explorer!FormOf(f) /\ state.list = Explorer!Page(shown)
      /\ state.count = Len(Explorer!Filtered(shown)) /\ state.entries = <<address>> /\ state.at = 1
    BY <1>4
<1>6. ExplorerBox(state)
    <2>1. state.tagsShown = TagsAtFirst /\ state.left = MaxFormChanges
        BY <1>4
    <2> QED  BY <1>4, <1>5, <2>1, Zenon DEF ExplorerBox
<1>7. <<address>> \in Seq({address}) /\ DOMAIN <<address>> = {1} /\ <<address>>[1] = address
    OBVIOUS
<1>8. ExplorerHistory(state.entries, state.at)
    BY <1>2, <1>5, <1>7 DEF ExplorerHistory
<1>9. state.filters = ExplorerRead(state.entries[state.at])
    BY <1>5, <1>7 DEF ExplorerRead, shown, f
<1>10. ExplorerFilters(shown) /\ shown.page \in 1..Explorer!Total(shown)
    BY <1>2, ExplorerParsed, ExplorerClamped DEF shown, f
<1> QED  BY <1>3, <1>5, <1>6, <1>8, <1>9, <1>10 DEF ExplorerGood

\* An address put over the current one, or after it.
LEMMA ExplorerStacked ==
    ASSUME ExplorerGood(state), NEW address, address.page \in Nat, NEW how \in {"push", "replace"}
    PROVE  LET stack == Explorer!Stack(address, how) IN
           ExplorerHistory(stack.entries, stack.at) /\ stack.entries[stack.at] = address
<1> DEFINE stack == Explorer!Stack(address, how)
<1>0. /\ state.at \in DOMAIN state.entries /\ \A i \in DOMAIN state.entries : state.entries[i].page \in Nat
      /\ \E S : state.entries \in Seq(S)
    BY DEF ExplorerGood, ExplorerHistory
<1>1. PICK S : state.entries \in Seq(S)
    BY <1>0
<1>2. CASE how = "replace"
    <2>1. stack = [entries |-> [state.entries EXCEPT ![state.at] = address], at |-> state.at]
        BY <1>2 DEF Explorer!Stack
    <2>2. [state.entries EXCEPT ![state.at] = address] \in Seq(S \union {address})
        BY <1>0, <1>1
    <2> QED  BY <1>0, <2>1, <2>2 DEF ExplorerHistory
<1>3. CASE how = "push"
    <2> DEFINE kept == SubSeq(state.entries, 1, state.at)
               entries == Append(kept, address)
    <2>1. state.at \in Nat /\ state.at >= 1 /\ state.at <= Len(state.entries)
        BY <1>0, <1>1
    <2>2. /\ kept \in Seq(S) /\ Len(kept) = state.at /\ \A i \in 1..state.at : kept[i] = state.entries[i]
        BY <1>1, <2>1
    <2> HIDE DEF kept
    <2>3. /\ entries \in Seq(S \union {address}) /\ Len(entries) = state.at + 1
          /\ entries[state.at + 1] = address /\ \A i \in 1..state.at : entries[i] = kept[i]
        BY <2>1, <2>2
    <2>4. stack = [entries |-> entries, at |-> state.at + 1]
        BY <1>3 DEF Explorer!Stack, kept
    <2>5. stack.entries = entries /\ stack.at = state.at + 1
        BY <2>4
    <2> HIDE DEF entries, stack
    <2>6. DOMAIN entries = 1..(state.at + 1)
        BY <2>3
    <2>7. ASSUME NEW i \in DOMAIN entries PROVE entries[i].page \in Nat
        <3>1. CASE i = state.at + 1
            BY <1>0, <2>3, <3>1
        <3>2. CASE i # state.at + 1
            <4>1. i \in 1..state.at /\ i \in DOMAIN state.entries
                BY <1>1, <2>1, <2>6, <3>2
            <4>2. entries[i] = state.entries[i]
                BY <2>2, <2>3, <4>1
            <4>3. state.entries[i].page \in Nat
                BY <1>0, <4>1
            <4> QED  BY <4>2, <4>3
        <3> QED  BY <3>1, <3>2
    <2>8. ExplorerHistory(entries, state.at + 1)
        BY <2>1, <2>3, <2>6, <2>7 DEF ExplorerHistory
    <2> QED  BY <2>3, <2>5, <2>8 DEF stack
<1> QED  BY <1>2, <1>3

\* render: what it leaves is good when the form is the filters'.
LEMMA ExplorerRendered ==
    ASSUME ExplorerGood(state), NEW f, ExplorerFilters(f), NEW how \in {"push", "replace"}, NEW tagsShown, NEW left,
           NEW s, s = [Explorer!Rendered(f, Explorer!FormOf(f), tagsShown, how) EXCEPT !.left = left]
    PROVE  ExplorerGood(s)
<1> DEFINE shown == Explorer!Clamped(f)
           stack == Explorer!Stack(Explorer!Address(shown), how)
<1>1. /\ ExplorerFilters(shown) /\ ExplorerAlike(shown, f) /\ Explorer!Clamped(shown) = shown
      /\ shown.page \in 1..Explorer!Total(shown)
    BY ExplorerClamped
<1>2. Explorer!FormOf(shown) = Explorer!FormOf(f)
    BY <1>1, ExplorerAlikeFound
<1>3. /\ Explorer!Unmistakable(shown) =>
            Explorer!Parse(Explorer!Address(shown), TopicLabels, TagLabels) = shown
      /\ Explorer!Address(shown).page \in Nat
    BY <1>1, ExplorerRoundTrip, ExplorerAddressed
<1>4. ExplorerHistory(stack.entries, stack.at) /\ stack.entries[stack.at] = Explorer!Address(shown)
    BY <1>3, ExplorerStacked
<1> DEFINE r == [filters |-> shown, form |-> Explorer!FormOf(f), list |-> Explorer!Page(shown),
                 count |-> Len(Explorer!Filtered(shown)), tagsShown |-> tagsShown, entries |-> stack.entries,
                 at |-> stack.at, left |-> state.left]
<1>5. Explorer!Rendered(f, Explorer!FormOf(f), tagsShown, how) = r
    BY Zenon DEF Explorer!Rendered
<1> HIDE DEF shown, stack
<1>6. s = [filters |-> shown, form |-> Explorer!FormOf(f), list |-> Explorer!Page(shown),
           count |-> Len(Explorer!Filtered(shown)), tagsShown |-> tagsShown, entries |-> stack.entries,
           at |-> stack.at, left |-> left]
    BY <1>5
<1>7. /\ s.filters = shown /\ s.form = Explorer!FormOf(f) /\ s.list = Explorer!Page(shown)
      /\ s.count = Len(Explorer!Filtered(shown)) /\ s.tagsShown = tagsShown /\ s.entries = stack.entries
      /\ s.at = stack.at /\ s.left = left
    BY <1>6
<1>8. ExplorerBox(s)
    BY <1>6, <1>7, Zenon DEF ExplorerBox
<1>9. Explorer!Unmistakable(shown) => ExplorerRead(s.entries[s.at]) = shown
    BY <1>1, <1>3, <1>4, <1>7 DEF ExplorerRead
<1> QED  BY <1>1, <1>2, <1>4, <1>7, <1>8, <1>9 DEF ExplorerGood

\* The form that goes with good filters.
LEMMA ExplorerFormOf ==
    ASSUME NEW f, ExplorerFilters(f)
    PROVE  ExplorerForm(Explorer!FormOf(f))
<1> DEFINE m == Explorer!FormOf(f)
<1>1. m = [q |-> f.q, topic |-> f.topic, tags |-> f.tags \intersect Explorer!Slugs(TagLabels),
           ratings |-> f.ratings \intersect {r.rating : r \in Rows}, lang |-> f.lang, sort |-> f.sort]
    BY Zenon DEF Explorer!FormOf
<1> HIDE DEF m
<1>2. /\ m.q = f.q /\ m.topic = f.topic /\ m.tags = f.tags \intersect Explorer!Slugs(TagLabels)
      /\ m.ratings = f.ratings \intersect {r.rating : r \in Rows} /\ m.lang = f.lang /\ m.sort = f.sort
    BY <1>1
<1>3. m = [q |-> m.q, topic |-> m.topic, tags |-> m.tags, ratings |-> m.ratings, lang |-> m.lang, sort |-> m.sort]
    BY ONLY <1>1, <1>2, Zenon
<1>4. m.sort # Explorer!NoText /\ m.sort \notin DOMAIN Explorer!OldSorts
    BY <1>2 DEF ExplorerFilters
<1>5. m.tags \subseteq Explorer!Slugs(TagLabels) /\ m.ratings \subseteq {r.rating : r \in Rows}
    BY <1>2
<1> QED  BY <1>3, <1>4, <1>5 DEF ExplorerForm, m

\* read: a good form is the filters now.
LEMMA ExplorerFormRead ==
    ASSUME ExplorerGood(state), NEW form, ExplorerForm(form), Explorer!Read(form)
    PROVE  ExplorerGood(state')
<1> DEFINE data == [q |-> form.q, topic |-> form.topic, category |-> Explorer!NoText, tags |-> form.tags,
                    ratings |-> form.ratings, lang |-> form.lang, sort |-> form.sort, page |-> 0]
           f == Explorer!Parse(data, <<>>, <<>>)
<1>1. /\ data.q = form.q /\ data.topic = form.topic /\ data.category = Explorer!NoText /\ data.tags = form.tags
      /\ data.ratings = form.ratings /\ data.lang = form.lang /\ data.sort = form.sort /\ data.page = 0
    OBVIOUS
<1>2. state' = [Explorer!Rendered(f, form, state.tagsShown, "replace") EXCEPT !.left = @ - 1]
    BY Zenon DEF Explorer!Read
<1> HIDE DEF data
<1>3. \A x : Explorer!Given(x, <<>>) = x
    BY DEF Explorer!Given
<1>4. f.topic = form.topic
    <2>1. f.topic = Explorer!Given(IF data.topic # Explorer!NoText THEN data.topic ELSE data.category, <<>>)
        BY DEF Explorer!Parse
    <2> QED  BY <1>1, <1>3, <2>1
<1>5. f.tags = form.tags
    <2>1. f.tags = {Explorer!Given(t, <<>>) : t \in form.tags}
        BY <1>1 DEF Explorer!Parse
    <2> QED  BY <1>3, <2>1
<1>6. f.sort = form.sort
    <2> DEFINE sort == IF data.sort = Explorer!NoText THEN "source-date" ELSE data.sort
    <2>1. f.sort = IF sort \in DOMAIN Explorer!OldSorts THEN Explorer!OldSorts[sort] ELSE sort
        BY DEF Explorer!Parse
    <2>2. form.sort # Explorer!NoText /\ form.sort \notin DOMAIN Explorer!OldSorts
        BY DEF ExplorerForm
    <2>3. sort = form.sort
        BY <1>1, <2>2
    <2> QED  BY <2>1, <2>2, <2>3
<1>7. f.q = form.q /\ f.ratings = form.ratings /\ f.lang = form.lang
    BY <1>1 DEF Explorer!Parse
<1>8. f.page = 1
    <2>1. f.page = IF data.page = 0 THEN 1 ELSE IF data.page > MaxPage THEN MaxPage ELSE data.page
        BY DEF Explorer!Parse
    <2> QED  BY <1>1, <2>1
<1>9. f = [q |-> f.q, topic |-> f.topic, tags |-> f.tags, ratings |-> f.ratings, lang |-> f.lang,
            sort |-> f.sort, page |-> f.page]
    BY DEF Explorer!Parse
<1> HIDE DEF f
<1>10. ExplorerFilters(f)
    <2>1. f.page \in 1..MaxPage
        BY <1>8, ExplorerAssumption
    <2>2. f.sort # Explorer!NoText /\ f.sort \notin DOMAIN Explorer!OldSorts
        BY <1>6 DEF ExplorerForm
    <2> QED  BY <1>9, <2>1, <2>2 DEF ExplorerFilters
<1>11. Explorer!FormOf(f) = form
    <2>1. /\ form.tags \intersect Explorer!Slugs(TagLabels) = form.tags
          /\ form.ratings \intersect {r.rating : r \in Rows} = form.ratings
        BY DEF ExplorerForm
    <2>2. Explorer!FormOf(f) = [q |-> form.q, topic |-> form.topic, tags |-> form.tags, ratings |-> form.ratings,
                                lang |-> form.lang, sort |-> form.sort]
        BY <1>4, <1>5, <1>6, <1>7, <2>1, Zenon DEF Explorer!FormOf
    <2>3. form = [q |-> form.q, topic |-> form.topic, tags |-> form.tags, ratings |-> form.ratings,
                  lang |-> form.lang, sort |-> form.sort]
        BY DEF ExplorerForm
    <2> QED  BY <2>2, <2>3, Zenon
<1>12. state' = [Explorer!Rendered(f, Explorer!FormOf(f), state.tagsShown, "replace")
                    EXCEPT !.left = Explorer!Rendered(f, form, state.tagsShown, "replace").left - 1]
    BY <1>2, <1>11
<1> QED  BY <1>10, <1>12, ExplorerRendered

\* One field changes.
LEMMA ExplorerChange ==
    ASSUME ExplorerGood(state), Explorer!Change
    PROVE  ExplorerGood(state')
<1> DEFINE m == state.form
<1>1. ExplorerForm(m)
    BY ExplorerFormOf DEF ExplorerGood
<1>2. m = [q |-> m.q, topic |-> m.topic, tags |-> m.tags, ratings |-> m.ratings, lang |-> m.lang, sort |-> m.sort]
    BY <1>1 DEF ExplorerForm
<1>3. ASSUME NEW form, \E q, topic, tags, ratings, lang, sort :
                /\ form = [q |-> q, topic |-> topic, tags |-> tags, ratings |-> ratings, lang |-> lang, sort |-> sort]
                /\ tags \subseteq Explorer!Slugs(TagLabels) /\ ratings \subseteq {r.rating : r \in Rows}
                /\ sort # Explorer!NoText /\ sort \notin DOMAIN Explorer!OldSorts
      PROVE  ExplorerForm(form)
    BY <1>3 DEF ExplorerForm
<1>4. /\ m.tags \subseteq Explorer!Slugs(TagLabels) /\ m.ratings \subseteq {r.rating : r \in Rows}
      /\ m.sort # Explorer!NoText /\ m.sort \notin DOMAIN Explorer!OldSorts
    BY <1>1 DEF ExplorerForm
<1> HIDE DEF m
<1>5. ASSUME NEW q, Explorer!Read([m EXCEPT !.q = q])
      PROVE  ExplorerGood(state')
    <2>1. [m EXCEPT !.q = q] = [q |-> q, topic |-> m.topic, tags |-> m.tags, ratings |-> m.ratings, lang |-> m.lang,
                                sort |-> m.sort]
        BY <1>2
    <2>2. ExplorerForm([m EXCEPT !.q = q])
        BY <1>3, <1>4, <2>1
    <2> QED  BY <1>5, <2>2, ExplorerFormRead
<1>6. ASSUME NEW topic \in Explorer!Slugs(TopicLabels) \union {Explorer!NoText}, Explorer!Read([m EXCEPT !.topic = topic])
      PROVE  ExplorerGood(state')
    <2>1. [m EXCEPT !.topic = topic] = [q |-> m.q, topic |-> topic, tags |-> m.tags, ratings |-> m.ratings,
                                        lang |-> m.lang, sort |-> m.sort]
        BY <1>2
    <2>2. ExplorerForm([m EXCEPT !.topic = topic])
        BY <1>3, <1>4, <2>1
    <2> QED  BY <1>6, <2>2, ExplorerFormRead
<1>7. ASSUME NEW lang, Explorer!Read([m EXCEPT !.lang = lang])
      PROVE  ExplorerGood(state')
    <2>1. [m EXCEPT !.lang = lang] = [q |-> m.q, topic |-> m.topic, tags |-> m.tags, ratings |-> m.ratings,
                                      lang |-> lang, sort |-> m.sort]
        BY <1>2
    <2>2. ExplorerForm([m EXCEPT !.lang = lang])
        BY <1>3, <1>4, <2>1
    <2> QED  BY <1>7, <2>2, ExplorerFormRead
<1>8. ASSUME NEW sort \in Explorer!Sorts, Explorer!Read([m EXCEPT !.sort = sort])
      PROVE  ExplorerGood(state')
    <2>1. [m EXCEPT !.sort = sort] = [q |-> m.q, topic |-> m.topic, tags |-> m.tags, ratings |-> m.ratings,
                                      lang |-> m.lang, sort |-> sort]
        BY <1>2
    <2>2. sort # Explorer!NoText /\ sort \notin DOMAIN Explorer!OldSorts
        BY ExplorerOldSorts
    <2>3. ExplorerForm([m EXCEPT !.sort = sort])
        BY <1>3, <1>4, <2>1, <2>2
    <2> QED  BY <1>8, <2>3, ExplorerFormRead
<1>9. ASSUME NEW tags \in SUBSET Explorer!Slugs(TagLabels), Explorer!Read([m EXCEPT !.tags = tags])
      PROVE  ExplorerGood(state')
    <2>1. [m EXCEPT !.tags = tags] = [q |-> m.q, topic |-> m.topic, tags |-> tags, ratings |-> m.ratings,
                                      lang |-> m.lang, sort |-> m.sort]
        BY <1>2
    <2>2. tags \subseteq Explorer!Slugs(TagLabels)
        OBVIOUS
    <2>3. ExplorerForm([m EXCEPT !.tags = tags])
        BY <1>3, <1>4, <2>1, <2>2
    <2> QED  BY <1>9, <2>3, ExplorerFormRead
<1>10. ASSUME NEW ratings \in SUBSET {r.rating : r \in Rows}, Explorer!Read([m EXCEPT !.ratings = ratings])
       PROVE  ExplorerGood(state')
    <2>1. [m EXCEPT !.ratings = ratings] = [q |-> m.q, topic |-> m.topic, tags |-> m.tags, ratings |-> ratings,
                                            lang |-> m.lang, sort |-> m.sort]
        BY <1>2
    <2>2. ratings \subseteq {r.rating : r \in Rows}
        OBVIOUS
    <2>3. ExplorerForm([m EXCEPT !.ratings = ratings])
        BY <1>3, <1>4, <2>1, <2>2
    <2> QED  BY <1>10, <2>3, ExplorerFormRead
<1>11. ASSUME NEW tag \in Explorer!Slugs(TagLabels),
              Explorer!Read([m EXCEPT !.tags = IF tag \in @ THEN @ \ {tag} ELSE @ \union {tag}])
       PROVE  ExplorerGood(state')
    <2> DEFINE tags == IF tag \in m.tags THEN m.tags \ {tag} ELSE m.tags \union {tag}
    <2>1. tags \in SUBSET Explorer!Slugs(TagLabels)
        BY <1>4
    <2>2. Explorer!Read([m EXCEPT !.tags = tags])
        BY <1>11
    <2> QED  BY <1>9, <2>1, <2>2
<1>12. ASSUME NEW rating \in {r.rating : r \in Rows},
              Explorer!Read([m EXCEPT !.ratings = IF rating \in @ THEN @ \ {rating} ELSE @ \union {rating}])
       PROVE  ExplorerGood(state')
    <2> DEFINE ratings == IF rating \in m.ratings THEN m.ratings \ {rating} ELSE m.ratings \union {rating}
    <2>1. ratings \in SUBSET {r.rating : r \in Rows}
        BY <1>4
    <2>2. Explorer!Read([m EXCEPT !.ratings = ratings])
        BY <1>12
    <2> QED  BY <1>10, <2>1, <2>2
<1> QED  BY <1>5, <1>6, <1>7, <1>8, <1>11, <1>12, Zenon DEF Explorer!Change, m

LEMMA ExplorerReset ==
    ASSUME ExplorerGood(state), Explorer!Reset
    PROVE  ExplorerGood(state')
<1> DEFINE f == Explorer!Parse(Explorer!NoAddress, <<>>, <<>>)
           r == Explorer!Rendered(f, Explorer!FormOf(f), TagsAtFirst, "replace")
<1>1. f = Explorer!Parse(Explorer!NoAddress, TopicLabels, TagLabels)
    <2>1. Explorer!NoAddress.topic = Explorer!NoText /\ Explorer!NoAddress.category = Explorer!NoText
          /\ Explorer!NoAddress.tags = {}
        BY DEF Explorer!NoAddress
    <2>2. /\ Explorer!Given(Explorer!NoText, TopicLabels) = Explorer!NoText
          /\ Explorer!Given(Explorer!NoText, <<>>) = Explorer!NoText
        BY ExplorerNoText DEF Explorer!Given
    <2> QED  BY <2>1, <2>2 DEF Explorer!Parse
<1>2. Explorer!NoAddress.page \in Nat
    BY DEF Explorer!NoAddress
<1>3. ExplorerFilters(f)
    BY <1>1, <1>2, ExplorerParsed
<1>4. state' = r
    BY Zenon DEF Explorer!Reset
<1>5. r = [r EXCEPT !.left = state.left]
    BY DEF Explorer!Rendered
<1> QED  BY <1>3, <1>4, <1>5, ExplorerRendered

LEMMA ExplorerMoreTags ==
    ASSUME ExplorerGood(state), Explorer!MoreTags
    PROVE  ExplorerGood(state')
<1> DEFINE b == [filters |-> state.filters, form |-> state.form, list |-> state.list, count |-> state.count,
                 tagsShown |-> state.tagsShown + TagsMore, entries |-> state.entries, at |-> state.at, left |-> state.left]
<1>1. state' = b
    BY DEF ExplorerGood, ExplorerBox, Explorer!MoreTags
<1>2. /\ state'.filters = state.filters /\ state'.form = state.form /\ state'.list = state.list
      /\ state'.count = state.count /\ state'.entries = state.entries /\ state'.at = state.at
      /\ state'.left = state.left /\ state'.tagsShown = state.tagsShown + TagsMore
    BY <1>1
<1>3. ExplorerBox(state')
    BY <1>1, <1>2, Zenon DEF ExplorerBox
<1> QED  BY <1>2, <1>3 DEF ExplorerGood

LEMMA ExplorerGoToPage ==
    ASSUME ExplorerGood(state), Explorer!GoToPage
    PROVE  ExplorerGood(state')
<1>1. PICK n \in Explorer!Numbers(state.filters) :
            state' = Explorer!Rendered([state.filters EXCEPT !.page = n], state.form, state.tagsShown, "push")
    BY DEF Explorer!GoToPage
<1> DEFINE f == [state.filters EXCEPT !.page = n]
           r == Explorer!Rendered(f, Explorer!FormOf(f), state.tagsShown, "push")
<1>2. ExplorerFilters(state.filters)
    BY DEF ExplorerGood
<1>3. n \in 1..MaxPage
    <2>1. Explorer!Total(state.filters) \in 1..MaxPage /\ MaxPage \in Nat
        BY ExplorerFound, ExplorerAssumption
    <2> QED  BY <2>1 DEF Explorer!Numbers
<1>4. ExplorerFilters(f) /\ ExplorerAlike(f, state.filters)
    BY <1>2, <1>3, ExplorerPaged
<1>5. Explorer!FormOf(f) = state.form
    BY <1>4, ExplorerAlikeFound DEF ExplorerGood
<1>6. state' = r
    BY <1>1, <1>5
<1> HIDE DEF f
<1>7. r = [r EXCEPT !.left = state.left]
    BY DEF Explorer!Rendered
<1> QED  BY <1>4, <1>6, <1>7, ExplorerRendered

\* popstate.
LEMMA ExplorerMove ==
    ASSUME ExplorerGood(state), Explorer!Move
    PROVE  ExplorerGood(state')
<1>1. PICK at \in {state.at - 1, state.at + 1} \intersect DOMAIN state.entries :
            LET f == Explorer!Parse(state.entries[at], TopicLabels, TagLabels)
            IN  state' = [Explorer!Rendered(f, Explorer!FormOf(f), state.tagsShown, "none") EXCEPT !.at = at]
    BY Zenon DEF Explorer!Move
<1> DEFINE f == Explorer!Parse(state.entries[at], TopicLabels, TagLabels)
           shown == Explorer!Clamped(f)
<1>2. ExplorerFilters(f)
    BY ExplorerParsed DEF ExplorerGood, ExplorerHistory
<1>3. Explorer!FormOf(shown) = Explorer!FormOf(f)
    BY <1>2, ExplorerClamped, ExplorerAlikeFound
<1>4. Explorer!Rendered(f, Explorer!FormOf(f), state.tagsShown, "none") =
          [filters |-> shown, form |-> Explorer!FormOf(f), list |-> Explorer!Page(shown),
           count |-> Len(Explorer!Filtered(shown)), tagsShown |-> state.tagsShown, entries |-> state.entries,
           at |-> state.at, left |-> state.left]
    BY DEF Explorer!Rendered, Explorer!Stack
<1> HIDE DEF f, shown
<1>5. state' = [filters |-> shown, form |-> Explorer!FormOf(f), list |-> Explorer!Page(shown),
                count |-> Len(Explorer!Filtered(shown)), tagsShown |-> state.tagsShown, entries |-> state.entries,
                at |-> at, left |-> state.left]
    BY <1>1, <1>4 DEF f
<1>6. /\ state'.filters = shown /\ state'.form = Explorer!FormOf(f) /\ state'.list = Explorer!Page(shown)
      /\ state'.count = Len(Explorer!Filtered(shown)) /\ state'.entries = state.entries /\ state'.at = at
      /\ state'.left = state.left /\ state'.tagsShown = state.tagsShown
    BY <1>5
<1>7. ExplorerBox(state')
    BY <1>5, <1>6, Zenon DEF ExplorerBox
<1>8. ExplorerHistory(state'.entries, state'.at)
    BY <1>6 DEF ExplorerGood, ExplorerHistory
<1>9. ExplorerRead(state'.entries[state'.at]) = shown
    BY <1>6 DEF ExplorerRead, shown, f
<1>10. ExplorerFilters(shown) /\ shown.page \in 1..Explorer!Total(shown)
    BY <1>2, ExplorerClamped DEF shown
<1> QED  BY <1>3, <1>6, <1>7, <1>8, <1>9, <1>10 DEF ExplorerGood

LEMMA ExplorerStep ==
    ASSUME ExplorerGood(state), Explorer!Next
    PROVE  ExplorerGood(state')
BY ExplorerChange, ExplorerReset, ExplorerMoreTags, ExplorerGoToPage, ExplorerMove DEF Explorer!Next

-----------------------------------------------------------------------------
(* The first of some numbers, the largest, and induction over them with the *)
(* set of those of which a claim holds.                                     *)

LEMMA FirstNumber ==
    ASSUME NEW T \in SUBSET Nat, T # {}
    PROVE  \E m \in T : \A n \in T : m <= n
<1> DEFINE R == OpToRel(<, Nat)
<1>1. \A m, n \in Nat : m < n <=> <<m, n>> \in R
    BY DEF OpToRel
<1>2. IsWellFoundedOn(R, Nat)
    BY NatLessThanWellFounded
<1> HIDE DEF R
<1>3. PICK m \in T : \A n \in T : ~(<<n, m>> \in R)
    BY <1>2, WFMin
<1>4. ASSUME NEW n \in T
      PROVE  m <= n
    <2>1. m \in Nat /\ n \in Nat
        OBVIOUS
    <2>2. ~(n < m)
        BY <1>1, <1>3, <2>1
    <2> QED  BY <2>1, <2>2
<1> QED  BY <1>4

LEMMA ByInduction ==
    ASSUME NEW T \in SUBSET Nat, 0 \in T, \A n \in T : n + 1 \in T
    PROVE  T = Nat
<1> SUFFICES ASSUME T # Nat
             PROVE  FALSE
    OBVIOUS
<1>1. PICK m \in Nat \ T : \A n \in Nat \ T : m <= n
    BY FirstNumber
<1>2. m - 1 \in T
    BY <1>1
<1> QED  BY <1>1, <1>2

\* The largest of some numbers is the one that is.
LEMMA MaxIs ==
    ASSUME NEW S \in SUBSET Int, NEW m \in S, \A y \in S : m >= y
    PROVE  Charts!Max(S) = m
<1>1. \E x \in S : \A y \in S : x >= y
    OBVIOUS
<1>2. Charts!Max(S) \in S /\ \A y \in S : Charts!Max(S) >= y
    BY <1>1, Zenon DEF Charts!Max
<1>3. Charts!Max(S) \in Int /\ m \in Int /\ Charts!Max(S) >= m /\ m >= Charts!Max(S)
    BY <1>2
<1> QED  BY <1>3

LEMMA MinIs ==
    ASSUME NEW S \in SUBSET Int, NEW m \in S, \A y \in S : m <= y
    PROVE  Charts!Min(S) = m
<1>1. \E x \in S : \A y \in S : x <= y
    OBVIOUS
<1>2. Charts!Min(S) \in S /\ \A y \in S : Charts!Min(S) <= y
    BY <1>1, Zenon DEF Charts!Min
<1>3. Charts!Min(S) \in Int /\ m \in Int /\ Charts!Min(S) <= m /\ m <= Charts!Min(S)
    BY <1>2
<1> QED  BY <1>3

LEMMA OfTwo ==
    ASSUME NEW a \in Int, NEW b \in Int
    PROVE  /\ Charts!Max({a, b}) = IF a >= b THEN a ELSE b
           /\ Charts!Min({a, b}) = IF a <= b THEN a ELSE b
<1>1. Charts!Max({a, b}) = IF a >= b THEN a ELSE b
    <2>1. CASE a >= b
        BY <2>1, MaxIs
    <2>2. CASE ~(a >= b)
        BY <2>2, MaxIs
    <2> QED  BY <2>1, <2>2
<1>2. Charts!Min({a, b}) = IF a <= b THEN a ELSE b
    <2>1. CASE a <= b
        BY <2>1, MinIs
    <2>2. CASE ~(a <= b)
        BY <2>2, MinIs
    <2> QED  BY <2>1, <2>2
<1> QED  BY <1>1, <1>2

\* Finitely many numbers have a largest.
LEMMA Bounded ==
    ASSUME NEW n \in Nat, NEW h \in [0..n -> Nat]
    PROVE  LET S == {h[i] : i \in 0..n} IN \A i \in 0..n : Charts!Max(S) \in Nat /\ Charts!Max(S) >= h[i]
<1> DEFINE S == {h[i] : i \in 0..n}
           T == {k \in Nat : k <= n => \E j \in 0..n : \A i \in 0..k : h[j] >= h[i]}
<1>0. \A i \in 0..n : h[i] \in Nat
    OBVIOUS
<1>1. 0 \in T
    <2>1. \A i \in 0..0 : h[0] >= h[i]
        BY <1>0
    <2> QED  BY <2>1
<1>2. ASSUME NEW k \in T
      PROVE  k + 1 \in T
    <2> SUFFICES ASSUME k + 1 <= n
                 PROVE  \E j \in 0..n : \A i \in 0..(k + 1) : h[j] >= h[i]
        OBVIOUS
    <2>1. PICK j \in 0..n : \A i \in 0..k : h[j] >= h[i]
        OBVIOUS
    <2>2. h[j] \in Nat /\ h[k + 1] \in Nat /\ k \in Nat /\ k + 1 \in 0..n
        BY <1>0
    <2>3. \A i \in 0..(k + 1) : i \in 0..k \/ i = k + 1
        BY <2>2
    <2>4. CASE h[j] >= h[k + 1]
        BY <2>1, <2>3, <2>4
    <2>5. CASE ~(h[j] >= h[k + 1])
        <3>1. \A i \in 0..k : i \in 0..n
            BY <2>2
        <3>2. \A i \in 0..k : h[k + 1] >= h[i]
            BY <1>0, <2>1, <2>2, <2>5, <3>1
        <3> QED  BY <2>2, <2>3, <3>2
    <2> QED  BY <2>4, <2>5
<1>3. T = Nat
    <2>1. T \in SUBSET Nat
        OBVIOUS
    <2> HIDE DEF T
    <2> QED  BY <1>1, <1>2, <2>1, ByInduction
<1>4. PICK j \in 0..n : \A i \in 0..n : h[j] >= h[i]
    <2>1. n \in T
        <3> HIDE DEF T
        <3> QED  BY <1>3
    <2> QED  BY <2>1
<1>5. S \in SUBSET Int /\ h[j] \in S /\ \A y \in S : h[j] >= y
    BY <1>0, <1>4
<1>6. Charts!Max(S) = h[j]
    <2> HIDE DEF S
    <2> QED  BY <1>5, MaxIs
<1> QED  BY <1>0, <1>4, <1>6


-----------------------------------------------------------------------------
(* The notes of a page and the toast.                                       *)

NoteOf(s) == CHOOSE x \in s : TRUE

\* The recursion that adds up heights of the notes of D.
AddsUp(h, D, g) == g = [s \in D |-> IF s = {} THEN 0 ELSE g[s \ {NoteOf(s)}] + h[NoteOf(s)]]

ChromeHeight(width, page) == Chrome!FoldSet(LAMBDA i, sum : sum + Heights[width][i], 0, Chrome!OfPage(page))

LEMMA ChromeFold ==
    ASSUME NEW width, NEW page
    PROVE  ChromeHeight(width, page) =
               (CHOOSE g : AddsUp(Heights[width], SUBSET Chrome!OfPage(page), g))[Chrome!OfPage(page)]
BY DEF ChromeHeight, Chrome!FoldSet, Chrome!MapThenFoldSet, AddsUp, NoteOf

\* Heights of finitely many notes add up, one after the other.
LEMMA AddsUpExists ==
    ASSUME NEW h, NEW S, IsFiniteSet(S)
    PROVE  \E g : AddsUp(h, SUBSET S, g)
<1> DEFINE upTo(n) == {s \in SUBSET S : Cardinality(s) <= n}
           N       == {n \in Nat : \E g : AddsUp(h, upTo(n), g)}
<1>0. \A s \in SUBSET S : IsFiniteSet(s) /\ Cardinality(s) \in Nat /\ (Cardinality(s) = 0 <=> s = {})
    BY FS_Subset, FS_CardinalityType, FS_EmptySet
<1>1. 0 \in N
    <2> DEFINE g == [s \in upTo(0) |-> 0]
    <2>1. \A s \in upTo(0) : s = {}
        BY <1>0
    <2>2. AddsUp(h, upTo(0), g)
        BY <2>1 DEF AddsUp
    <2> QED  BY <2>2
<1>2. ASSUME NEW n \in N
      PROVE  n + 1 \in N
    <2>1. PICK g : AddsUp(h, upTo(n), g)
        OBVIOUS
    <2> DEFINE k == [s \in upTo(n + 1) |-> IF s = {} THEN 0 ELSE g[s \ {NoteOf(s)}] + h[NoteOf(s)]]
    <2>2. \A s \in upTo(n) : s \in upTo(n + 1)
        BY <1>0
    <2>3. ASSUME NEW s \in upTo(n + 1), s # {}
          PROVE  s \ {NoteOf(s)} \in upTo(n)
        <3>1. NoteOf(s) \in s
            BY <2>3 DEF NoteOf
        <3>2. Cardinality(s \ {NoteOf(s)}) = Cardinality(s) - 1
            BY <1>0, <3>1, FS_RemoveElement
        <3> QED  BY <1>0, <3>2
    <2>4. ASSUME NEW s \in upTo(n)
          PROVE  k[s] = g[s]
        <3> HIDE DEF upTo
        <3>1. g[s] = IF s = {} THEN 0 ELSE g[s \ {NoteOf(s)}] + h[NoteOf(s)]
            BY <2>1 DEF AddsUp
        <3> QED  BY <2>2, <3>1
    <2>5. AddsUp(h, upTo(n + 1), k)
        <3> HIDE DEF upTo
        <3> QED  BY <2>3, <2>4 DEF AddsUp
    <2> HIDE DEF upTo
    <2> QED  BY <2>5
<1>3. N = Nat
    <2> HIDE DEF N
    <2>1. N \in SUBSET Nat
        BY DEF N
    <2> QED  BY <1>1, <1>2, <2>1, ByInduction
<1>4. Cardinality(S) \in N
    BY <1>0, <1>3
<1>5. upTo(Cardinality(S)) = SUBSET S
    <2>1. \A s \in SUBSET S : Cardinality(s) <= Cardinality(S)
        BY FS_Subset
    <2> QED  BY <2>1
<1>6. PICK g : AddsUp(h, upTo(Cardinality(S)), g)
    BY <1>4
<1> HIDE DEF upTo
<1> QED  BY <1>5, <1>6

LEMMA AddsUpNat ==
    ASSUME NEW h, NEW S, IsFiniteSet(S), \A i \in S : h[i] \in Nat, NEW g, AddsUp(h, SUBSET S, g)
    PROVE  g[S] \in Nat
<1> DEFINE N == {n \in Nat : \A s \in SUBSET S : Cardinality(s) = n => g[s] \in Nat}
<1>0. \A s \in SUBSET S : IsFiniteSet(s) /\ Cardinality(s) \in Nat /\ (Cardinality(s) = 0 <=> s = {})
    BY FS_Subset, FS_CardinalityType, FS_EmptySet
<1>1. \A s \in SUBSET S : g[s] = IF s = {} THEN 0 ELSE g[s \ {NoteOf(s)}] + h[NoteOf(s)]
    BY DEF AddsUp
<1>2. 0 \in N
    BY <1>0, <1>1
<1>3. ASSUME NEW n \in N
      PROVE  n + 1 \in N
    <2>1. n \in Nat /\ \A s \in SUBSET S : Cardinality(s) = n => g[s] \in Nat
        OBVIOUS
    <2>2. ASSUME NEW s \in SUBSET S, Cardinality(s) = n + 1
          PROVE  g[s] \in Nat
        <3> HIDE DEF N
        <3> DEFINE rest == s \ {NoteOf(s)}
        <3>1. s # {}
            BY <1>0, <2>1, <2>2
        <3>2. NoteOf(s) \in s
            BY <3>1 DEF NoteOf
        <3>3. Cardinality(rest) = n /\ rest \in SUBSET S
            BY <1>0, <2>1, <2>2, <3>2, FS_RemoveElement
        <3>4. g[s] = g[rest] + h[NoteOf(s)]
            BY <1>1, <3>1
        <3>5. g[rest] \in Nat /\ h[NoteOf(s)] \in Nat
            BY <2>1, <3>2, <3>3
        <3> QED  BY <3>4, <3>5
    <2> QED  BY <2>1, <2>2
<1>4. N = Nat
    <2> HIDE DEF N
    <2>1. N \in SUBSET Nat
        BY DEF N
    <2> QED  BY <1>2, <1>3, <2>1, ByInduction
<1>5. Cardinality(S) \in N
    BY <1>0, <1>4
<1> QED  BY <1>0, <1>5

ChromeFields ==
    {"toast", "visible", "timers", "announced", "copies", "menu", "page", "shown", "real", "width", "laid", "reserved"}

\* What was measured at a width is enough for any of its pages.
ChromeReserved(b) ==
    Chrome!Total > 1 /\ b.width # 0 =>
        \A page \in 0..(Chrome!Total - 1) : b.reserved >= ChromeHeight(b.width, page)

\* The one timer is that of the last announcement; the list is measured at the width it
\* was laid out in.
ChromeGood(b) ==
    /\ b = [f \in ChromeFields |-> b[f]]
    /\ b.announced \in Nat /\ b.timers \subseteq {b.announced} /\ b.visible = (b.announced \in b.timers)
    /\ b.real \in DOMAIN Heights \union {0} /\ b.width \in DOMAIN Heights \union {0}
    /\ ChromeReserved(b)
    /\ Chrome!Total > 1 /\ b.laid => b.real = b.width
    /\ b.shown = Chrome!OfPage(b.page)

LEMMA ChromePages ==
    /\ Chrome!Total \in Nat /\ Chrome!Total >= 1
    /\ \A width \in DOMAIN Heights, page \in Nat : ChromeHeight(width, page) \in Nat
<1> DEFINE n == Len(Heights[1])
<1>1. NotesPerPage \in Nat /\ NotesPerPage > 0 /\ n \in Nat
      /\ \A width \in DOMAIN Heights : Heights[width] \in Seq(Nat) /\ Len(Heights[width]) = n
    BY ChromeAssumption
<1>2. Chrome!Total \in Nat /\ Chrome!Total >= 1
    <2>1. CASE n = 0
        BY <2>1 DEF Chrome!Total
    <2>2. CASE n # 0
        <3>1. Chrome!Total = (n + NotesPerPage - 1) \div NotesPerPage
            BY <2>2 DEF Chrome!Total
        <3> HIDE DEF n
        <3>2. (n + NotesPerPage - 1) \div NotesPerPage \in Nat /\ (n + NotesPerPage - 1) \div NotesPerPage >= 1
            BY <1>1, <2>2
        <3> QED  BY <3>1, <3>2
    <2> QED  BY <2>1, <2>2
<1>3. ASSUME NEW width \in DOMAIN Heights, NEW page \in Nat
      PROVE  ChromeHeight(width, page) \in Nat
    <2> DEFINE S == Chrome!OfPage(page)
               h == Heights[width]
               g == CHOOSE g : AddsUp(h, SUBSET S, g)
    <2>1. S \subseteq 1..n /\ \A i \in 1..n : h[i] \in Nat
        BY <1>1 DEF Chrome!OfPage, Chrome!Notes
    <2>2. IsFiniteSet(S) /\ \A i \in S : h[i] \in Nat
        <3> HIDE DEF n, h, S
        <3>1. IsFiniteSet(1..n)
            BY <1>1, FS_Interval
        <3> QED  BY <2>1, <3>1, FS_Subset
    <2>3. \E f : AddsUp(h, SUBSET S, f)
        BY <2>2, AddsUpExists
    <2>4. AddsUp(h, SUBSET S, g)
        BY <2>3, Zenon
    <2>5. g[S] \in Nat
        <3> HIDE DEF S, g, h
        <3> QED  BY <2>2, <2>4, AddsUpNat
    <2>6. ChromeHeight(width, page) = g[S]
        BY ChromeFold
    <2> QED  BY <2>5, <2>6
<1> QED  BY <1>2, <1>3

LEMMA ChromeMeasured ==
    ASSUME NEW b, b = [f \in ChromeFields |-> b[f]], b.real \in DOMAIN Heights \union {0},
           NEW c, c = Chrome!Measure(b)
    PROVE  /\ c = [f \in ChromeFields |-> c[f]]
           /\ \A f \in ChromeFields \ {"width", "reserved"} : c[f] = b[f]
           /\ Chrome!Total > 1 => c.width = b.real
           /\ Chrome!Total = 1 => c = b
           /\ ChromeReserved(c)
<1> DEFINE T == Chrome!Total
           h == [page \in 0..(T - 1) |-> ChromeHeight(b.real, page)]
           S == {h[page] : page \in 0..(T - 1)}
<1>1. T \in Nat /\ T >= 1
    BY ChromePages
<1>2. CASE T = 1
    BY <1>1, <1>2 DEF Chrome!Measure, ChromeReserved
<1>3. CASE T # 1 /\ b.real = 0
    <2>1. c = [b EXCEPT !.width = b.real, !.reserved = b.reserved]
        BY <1>3 DEF Chrome!Measure
    <2> QED  BY <1>3, <2>1 DEF ChromeFields, ChromeReserved
<1>4. CASE T # 1 /\ b.real # 0
    <2>1. \A page \in 0..(T - 1) : Chrome!PageHeight(b, page) = h[page]
        BY DEF Chrome!PageHeight, Chrome!Measured, ChromeHeight, Chrome!FoldSet, Chrome!MapThenFoldSet
    <2>2. {Chrome!PageHeight(b, page) : page \in 0..(Chrome!Total - 1)} = S
        BY <2>1
    <2>3. c = [b EXCEPT !.width = b.real, !.reserved = Chrome!Max(S)]
        BY <1>4, <2>2 DEF Chrome!Measure
    <2>4. Chrome!Max(S) = Charts!Max(S)
        BY DEF Chrome!Max, Charts!Max
    <2>5. h \in [0..(T - 1) -> Nat] /\ T - 1 \in Nat
        BY <1>1, <1>4, ChromePages
    <2>6. \A page \in 0..(T - 1) : Charts!Max(S) >= h[page]
        <3> HIDE DEF h
        <3> QED  BY <2>5, Bounded
    <2>7. \A page \in 0..(T - 1) : Chrome!Max(S) >= ChromeHeight(b.real, page)
        BY <2>4, <2>6
    <2> HIDE DEF S, h
    <2>8. c = [f \in ChromeFields |-> c[f]] /\ \A f \in ChromeFields \ {"width", "reserved"} : c[f] = b[f]
        BY <2>3 DEF ChromeFields
    <2>9. c.width = b.real /\ c.reserved = Chrome!Max(S)
        BY <2>3 DEF ChromeFields
    <2>10. ChromeReserved(c)
        BY <2>7, <2>9 DEF ChromeReserved
    <2> QED  BY <1>4, <2>8, <2>9, <2>10
<1> QED  BY <1>2, <1>3, <1>4

LEMMA ChromeInit ==
    ASSUME Chrome!Init
    PROVE  ChromeGood(state)
<1>1. PICK width \in DOMAIN Heights \union {0} :
          state = Chrome!Measure([toast |-> "", visible |-> FALSE, timers |-> {}, announced |-> 0, copies |-> 0,
                                  menu |-> FALSE, page |-> 0, shown |-> Chrome!OfPage(0), real |-> width, width |-> width,
                                  laid |-> TRUE, reserved |-> 0])
    BY DEF Chrome!Init
<1> DEFINE b == [toast |-> "", visible |-> FALSE, timers |-> {}, announced |-> 0, copies |-> 0,
                 menu |-> FALSE, page |-> 0, shown |-> Chrome!OfPage(0), real |-> width, width |-> width,
                 laid |-> TRUE, reserved |-> 0]
<1>2. /\ b = [f \in ChromeFields |-> b[f]] /\ b.real = width /\ b.width = width /\ b.announced = 0 /\ b.timers = {}
      /\ b.visible = FALSE /\ b.shown = Chrome!OfPage(0) /\ b.page = 0
    BY DEF ChromeFields
<1>7. state = Chrome!Measure(b)
    BY <1>1
<1> HIDE DEF b
<1>3. /\ state = [f \in ChromeFields |-> state[f]]
      /\ \A f \in ChromeFields \ {"width", "reserved"} : state[f] = b[f]
      /\ Chrome!Total > 1 => state.width = b.real
      /\ Chrome!Total = 1 => state = b
      /\ ChromeReserved(state)
    BY <1>2, <1>7, ChromeMeasured
<1>4. /\ state.real = b.real /\ state.announced = b.announced /\ state.timers = b.timers /\ state.visible = b.visible
      /\ state.shown = b.shown /\ state.page = b.page
    BY <1>3 DEF ChromeFields
<1>5. Chrome!Total > 1 \/ Chrome!Total = 1
    BY ChromePages
<1>6. state.width = width
    BY <1>2, <1>3, <1>5
<1>8. /\ state.announced \in Nat /\ state.timers \subseteq {state.announced} /\ state.announced \notin state.timers
      /\ state.real \in DOMAIN Heights \union {0} /\ state.real = width
    BY <1>2, <1>4
<1>9. state.visible = (state.announced \in state.timers)
    <2>1. state.visible = FALSE
        BY <1>2, <1>4
    <2> DEFINE known == state.announced \in state.timers
    <2>2. known = FALSE
        BY <1>8
    <2> HIDE DEF known
    <2>3. state.visible = known
        BY <2>1, <2>2
    <2> QED  BY <2>3 DEF known
<1> QED  BY <1>2, <1>3, <1>4, <1>6, <1>8, <1>9 DEF ChromeGood

LEMMA ChromeStep ==
    ASSUME ChromeGood(state), Chrome!Next
    PROVE  ChromeGood(state')
<1>0. /\ state = [f \in ChromeFields |-> state[f]]
      /\ state.announced \in Nat /\ state.timers \subseteq {state.announced}
      /\ state.visible = (state.announced \in state.timers)
      /\ state.real \in DOMAIN Heights \union {0} /\ state.width \in DOMAIN Heights \union {0}
      /\ ChromeReserved(state)
      /\ Chrome!Total > 1 /\ state.laid => state.real = state.width
      /\ state.shown = Chrome!OfPage(state.page)
    BY DEF ChromeGood
<1>1. ASSUME NEW page, state' = Chrome!Shown([state EXCEPT !.page = page])
      PROVE  ChromeGood(state')
    <2>1. /\ state' = [f \in ChromeFields |-> state'[f]]
          /\ \A f \in ChromeFields \ {"page", "shown"} : state'[f] = state[f]
          /\ state'.page = page /\ state'.shown = Chrome!OfPage(page)
        BY <1>0, <1>1 DEF Chrome!Shown, ChromeFields
    <2>2. /\ state'.announced = state.announced /\ state'.timers = state.timers /\ state'.visible = state.visible
          /\ state'.real = state.real /\ state'.width = state.width /\ state'.reserved = state.reserved
          /\ state'.laid = state.laid
        BY <2>1 DEF ChromeFields
    <2> QED  BY <1>0, <2>1, <2>2 DEF ChromeGood, ChromeReserved
<1>2. ASSUME Chrome!Previous \/ Chrome!Following
      PROVE  ChromeGood(state')
    <2>1. \E page : state' = Chrome!Shown([state EXCEPT !.page = page])
        BY <1>2 DEF Chrome!Previous, Chrome!Following
    <2> QED  BY <1>1, <2>1
<1>3. ASSUME Chrome!Reflows
      PROVE  ChromeGood(state')
    <2>1. PICK width \in DOMAIN Heights \union {0} : state' = [state EXCEPT !.real = width, !.laid = FALSE]
        BY <1>3 DEF Chrome!Reflows
    <2>2. /\ state' = [f \in ChromeFields |-> state'[f]]
          /\ \A f \in ChromeFields \ {"real", "laid"} : state'[f] = state[f]
          /\ state'.real = width /\ state'.laid = FALSE
        BY <1>0, <2>1 DEF ChromeFields
    <2>3. /\ state'.announced = state.announced /\ state'.timers = state.timers /\ state'.visible = state.visible
          /\ state'.width = state.width /\ state'.reserved = state.reserved
          /\ state'.shown = state.shown /\ state'.page = state.page
        BY <2>2 DEF ChromeFields
    <2> QED  BY <1>0, <2>2, <2>3 DEF ChromeGood, ChromeReserved
<1>4. ASSUME Chrome!Observed
      PROVE  ChromeGood(state')
    <2> DEFINE c == Chrome!Resize(state)
    <2>1. state' = [c EXCEPT !.laid = TRUE]
        BY <1>4 DEF Chrome!Observed
    <2>2. /\ c = [f \in ChromeFields |-> c[f]]
          /\ \A f \in ChromeFields \ {"width", "reserved"} : c[f] = state[f]
          /\ Chrome!Total > 1 => c.width = state.real
          /\ c.width \in DOMAIN Heights \union {0}
          /\ ChromeReserved(c)
        <3>1. CASE state.real = state.width
            BY <1>0, <3>1 DEF Chrome!Resize
        <3>2. CASE state.real # state.width
            <4>1. c = Chrome!Measure(state)
                BY <3>2 DEF Chrome!Resize
            <4> HIDE DEF c
            <4>2. /\ c = [f \in ChromeFields |-> c[f]]
                  /\ \A f \in ChromeFields \ {"width", "reserved"} : c[f] = state[f]
                  /\ Chrome!Total > 1 => c.width = state.real
                  /\ Chrome!Total = 1 => c = state
                  /\ ChromeReserved(c)
                BY <1>0, <4>1, ChromeMeasured
            <4>3. Chrome!Total > 1 \/ Chrome!Total = 1
                BY ChromePages
            <4> QED  BY <1>0, <4>2, <4>3
        <3> QED  BY <3>1, <3>2
    <2> HIDE DEF c
    <2>3. /\ state' = [f \in ChromeFields |-> state'[f]]
          /\ \A f \in ChromeFields \ {"laid"} : state'[f] = c[f]
        BY <2>1, <2>2 DEF ChromeFields
    <2>4. /\ state'.announced = state.announced /\ state'.timers = state.timers /\ state'.visible = state.visible
          /\ state'.width = c.width /\ state'.reserved = c.reserved /\ state'.real = state.real
          /\ state'.shown = state.shown /\ state'.page = state.page
        BY <2>2, <2>3 DEF ChromeFields
    <2> QED  BY <1>0, <2>2, <2>3, <2>4 DEF ChromeGood, ChromeReserved
<1>5. ASSUME Chrome!Copy \/ Chrome!ToggleMenu \/ Chrome!CloseMenu
      PROVE  ChromeGood(state')
    <2>1. /\ state' = [f \in ChromeFields |-> state'[f]]
          /\ \A f \in ChromeFields \ {"copies", "menu"} : state'[f] = state[f]
        BY <1>0, <1>5 DEF Chrome!Copy, Chrome!ToggleMenu, Chrome!CloseMenu, ChromeFields
    <2>2. /\ state'.announced = state.announced /\ state'.timers = state.timers /\ state'.visible = state.visible
          /\ state'.real = state.real /\ state'.width = state.width /\ state'.reserved = state.reserved
          /\ state'.laid = state.laid /\ state'.shown = state.shown /\ state'.page = state.page
        BY <2>1 DEF ChromeFields
    <2> QED  BY <1>0, <2>1, <2>2 DEF ChromeGood, ChromeReserved
<1>6. ASSUME Chrome!Announce \/ Chrome!ToastEnds
      PROVE  ChromeGood(state')
    <2>1. /\ state' = [f \in ChromeFields |-> state'[f]]
          /\ \A f \in ChromeFields \ {"copies", "announced", "toast", "visible", "timers"} : state'[f] = state[f]
        BY <1>0, <1>6 DEF Chrome!Announce, Chrome!ToastEnds, ChromeFields
    <2>2. /\ state'.real = state.real /\ state'.width = state.width /\ state'.reserved = state.reserved
          /\ state'.laid = state.laid /\ state'.shown = state.shown /\ state'.page = state.page
        BY <2>1 DEF ChromeFields
    <2>3. /\ state'.announced \in Nat /\ state'.timers \subseteq {state'.announced}
          /\ state'.visible = (state'.announced \in state'.timers)
        <3>1. CASE Chrome!Announce
            <4>1. /\ state'.announced = state.announced + 1 /\ state'.visible = TRUE
                  /\ state'.timers = (state.timers \ {state.announced}) \union {state.announced + 1}
                BY <1>0, <3>1 DEF Chrome!Announce, ChromeFields
            <4>2. /\ state'.announced \in Nat /\ state'.timers \subseteq {state'.announced}
                  /\ state'.announced \in state'.timers
                BY <1>0, <4>1
            <4>3. state'.visible = (state'.announced \in state'.timers)
                <5> DEFINE known == state'.announced \in state'.timers
                <5>1. known = TRUE
                    BY <4>2, Zenon
                <5> HIDE DEF known
                <5>2. state'.visible = known
                    BY <4>1, <5>1
                <5> QED  BY <5>2 DEF known
            <4> QED  BY <4>2, <4>3
        <3>2. CASE Chrome!ToastEnds
            <4>1. PICK t \in state.timers : state' = [state EXCEPT !.timers = @ \ {t}, !.visible = FALSE]
                BY <3>2 DEF Chrome!ToastEnds
            <4>2. state'.announced = state.announced /\ state'.visible = FALSE /\ state'.timers = state.timers \ {t}
                BY <1>0, <4>1 DEF ChromeFields
            <4>3. /\ state'.announced \in Nat /\ state'.timers \subseteq {state'.announced}
                  /\ state'.announced \notin state'.timers
                BY <1>0, <4>2
            <4>4. state'.visible = (state'.announced \in state'.timers)
                <5> DEFINE known == state'.announced \in state'.timers
                <5>1. known = FALSE
                    BY <4>3
                <5> HIDE DEF known
                <5>2. state'.visible = known
                    BY <4>2, <5>1
                <5> QED  BY <5>2 DEF known
            <4> QED  BY <4>3, <4>4
        <3> QED  BY <1>6, <3>1, <3>2
    <2> QED  BY <1>0, <2>1, <2>2, <2>3 DEF ChromeGood, ChromeReserved
<1> QED  BY <1>2, <1>3, <1>4, <1>5, <1>6 DEF Chrome!Next

LEMMA ChromeShows ==
    ASSUME ChromeGood(state)
    PROVE  Chrome!NothingJumps
<1>1. \A page : Chrome!FoldSet(LAMBDA i, sum : sum + Heights[state.real][i], 0, Chrome!OfPage(page))
                   = ChromeHeight(state.real, page)
    BY DEF ChromeHeight, Chrome!FoldSet, Chrome!MapThenFoldSet
<1>2. /\ state.visible = (state.announced \in state.timers) /\ state.shown = Chrome!OfPage(state.page)
      /\ state.laid /\ state.real # 0 /\ Chrome!Total > 1 =>
            \A page \in 0..(Chrome!Total - 1) : state.reserved >= ChromeHeight(state.real, page)
    BY DEF ChromeGood, ChromeReserved
<1> QED  BY <1>2 DEF Chrome!NothingJumps, ChromeHeight

-----------------------------------------------------------------------------
(* The scale of a chart.                                                    *)

LEMMA Quotient ==
    ASSUME NEW a \in Nat, NEW s \in Nat \ {0}
    PROVE  a \div s \in Nat /\ (a \div s) * s <= a /\ a < (a \div s) * s + s
<1>1. a \div s \in Nat
    OBVIOUS
<1>2. (a \div s) * s <= a
    OBVIOUS
<1>3. a < (a \div s) * s + s
    OBVIOUS
<1> QED  BY <1>1, <1>2, <1>3

LEMMA QuotientIs ==
    ASSUME NEW m \in 1..4, NEW s \in Nat \ {0}
    PROVE  (m * s) \div s = m
<1> DEFINE q == (m * s) \div s
<1>1. m * s \in Nat
    OBVIOUS
<1>2. q \in Nat /\ q * s <= m * s /\ m * s < q * s + s
    BY <1>1, Quotient
<1> HIDE DEF q
<1>3. q = m
    <2>1. CASE q >= m + 1
        <3>1. q * s >= (m + 1) * s
            BY <1>2, <2>1
        <3> QED  BY <1>2, <3>1
    <2>2. CASE q + 1 <= m
        <3>1. (q + 1) * s <= m * s
            BY <1>2, <2>2
        <3> QED  BY <1>2, <3>1
    <2> QED  BY <1>2, <2>1, <2>2
<1> QED  BY <1>3 DEF q

LEMMA ScaleIsTrue ==
    ASSUME NEW total \in Nat
    PROVE  Charts!ScaleHolds(total)
<1> DEFINE c == (total + 4 - 1) \div 4
           s == Charts!Step(total)
           k == (total + s - 1) \div s
           top == Charts!Maximum(total)
           m == IF k = 0 THEN 1 ELSE k
           ticks == Charts!Ticks(total)
<1>1. c \in Nat /\ c * 4 <= total + 3 /\ total + 3 < c * 4 + 4
    OBVIOUS
<1>2. s = IF 1 >= c THEN 1 ELSE c
    <2>1. s = Charts!Max({1, c})
        BY DEF Charts!Step, Charts!CeilDiv
    <2> HIDE DEF c, s
    <2> QED  BY <1>1, <2>1, OfTwo
<1>3. s \in Nat /\ s >= 1 /\ total <= 4 * s /\ (total = 0 => s = 1)
    <2> HIDE DEF c, s
    <2> QED  BY <1>1, <1>2
<1>4. k \in Nat /\ k * s <= total + s - 1 /\ total + s - 1 < k * s + s
    <2> HIDE DEF c, s
    <2>1. total + s - 1 \in Nat
        BY <1>3
    <2> QED  BY <1>3, <2>1, Quotient
<1>5. top = Charts!Max({s, k * s})
    BY DEF Charts!Maximum, Charts!CeilDiv
<1> HIDE DEF c, s, k
<1>6. k <= 4
    <2> SUFFICES ASSUME k >= 5
                 PROVE  FALSE
        BY <1>4
    <2>1. k * s >= 5 * s
        BY <1>3, <1>4
    <2> QED  BY <1>3, <1>4, <2>1
<1>7. m \in 1..4 /\ top = m * s
    <2>1. k * s \in Nat
        BY <1>3, <1>4
    <2>2. top = IF s >= k * s THEN s ELSE k * s
        BY <1>3, <1>5, <2>1, OfTwo
    <2>3. CASE k = 0
        BY <1>3, <2>2, <2>3
    <2>4. CASE k # 0
        <3>1. k * s >= s
            BY <1>3, <1>4, <2>4
        <3> QED  BY <1>3, <1>4, <1>6, <2>1, <2>2, <2>4, <3>1
    <2> QED  BY <2>3, <2>4
<1>8. top \in Nat /\ top >= total /\ top - total < s + (IF total = 0 THEN 1 ELSE 0)
    <2>1. CASE k = 0
        <3>1. k * s = 0
            BY <1>3, <2>1
        <3>2. m * s = s
            BY <1>3, <2>1
        <3>3. total = 0
            BY <1>3, <1>4, <3>1
        <3> QED  BY <1>3, <1>7, <3>2, <3>3
    <2>2. CASE k # 0
        <3>1. top = k * s /\ k * s \in Nat
            BY <1>3, <1>4, <1>7, <2>2
        <3> QED  BY <1>3, <1>4, <3>1
    <2> QED  BY <2>1, <2>2
<1>9. top \div s = m
    BY <1>3, <1>7, QuotientIs
<1>10. ticks = [i \in 1..(m + 1) |-> top - (i - 1) * s]
    BY <1>9 DEF Charts!Ticks, s
<1> HIDE DEF top, m, ticks
<1>11. Len(ticks) = m + 1
    BY <1>7, <1>10
<1>12. ticks[1] = top
    <2>1. ticks[1] = top - (1 - 1) * s
        BY <1>7, <1>10
    <2>2. (1 - 1) * s = 0
        BY <1>3
    <2> QED  BY <1>8, <2>1, <2>2
<1>13. ticks[m + 1] = 0
    <2>1. ticks[m + 1] = top - ((m + 1) - 1) * s
        BY <1>7, <1>10
    <2>2. (m + 1) - 1 = m /\ m * s \in Nat
        BY <1>3, <1>7
    <2>3. top - ((m + 1) - 1) * s = 0
        BY <1>7, <2>2
    <2> QED  BY <2>1, <2>3
<1> QED  BY <1>7, <1>8, <1>11, <1>12, <1>13 DEF Charts!ScaleHolds, ticks, s

-----------------------------------------------------------------------------
(* The tooltip.                                                             *)

LEMMA TooltipIsTrue ==
    ASSUME NEW x \in Int, NEW width \in Nat, NEW size \in Nat, NEW touch \in BOOLEAN
    PROVE  Charts!TooltipHolds(x, width, size, touch)
<1> DEFINE end == size - 12
           left == IF x + 16 + width > end THEN x - width - 16 ELSE x + 16
           top == IF touch THEN IF x - width - 16 < 12 THEN x + 16 ELSE x - width - 16
                  ELSE IF x + 16 + width > end THEN x - width - 16 ELSE x + 16
           inside(a) == Charts!Max({12, Charts!Min({a, end - width})})
<1>1. end \in Int /\ left \in Int /\ top \in Int /\ end - width \in Int
    OBVIOUS
<1>2. ASSUME NEW a \in Int
      PROVE  inside(a) = LET b == IF a <= end - width THEN a ELSE end - width IN IF 12 >= b THEN 12 ELSE b
    <2>1. Charts!Min({a, end - width}) = IF a <= end - width THEN a ELSE end - width
        BY <1>1, OfTwo
    <2> DEFINE b == IF a <= end - width THEN a ELSE end - width
    <2>2. b \in Int
        BY <1>1
    <2> HIDE DEF end
    <2> HIDE DEF b
    <2>3. Charts!Max({12, b}) = IF 12 >= b THEN 12 ELSE b
        BY <2>2, OfTwo
    <2> QED  BY <2>1, <2>3 DEF b
<1>3. Charts!Across(x, width, 0, size) = inside(left)
    BY DEF Charts!Across, Charts!Margin, Charts!Gap
<1>4. Charts!Down(x, width, 0, size, touch) = inside(top)
    BY DEF Charts!Down, Charts!Margin, Charts!Gap
<1>5. /\ inside(left) = LET b == IF left <= end - width THEN left ELSE end - width IN IF 12 >= b THEN 12 ELSE b
      /\ inside(top) = LET b == IF top <= end - width THEN top ELSE end - width IN IF 12 >= b THEN 12 ELSE b
    <2> HIDE DEF left, top, end, inside
    <2> QED  BY <1>1, <1>2
<1> HIDE DEF inside
<1>6. ASSUME width <= size - 2 * 12
      PROVE  /\ inside(left) >= 12 /\ inside(left) + width <= size - 12
             /\ inside(top) >= 12 /\ inside(top) + width <= size - 12
             /\ \/ x + 16 + width <= size - 12
                \/ x - 16 - width >= 12
                => (x < inside(left) \/ x > inside(left) + width) /\ (x < inside(top) \/ x > inside(top) + width)
    BY <1>5, <1>6
<1> QED  BY <1>3, <1>4, <1>6 DEF Charts!TooltipHolds, Charts!Margin, Charts!Gap

-----------------------------------------------------------------------------
(* The nearest sample.                                                      *)

\* The loop of the search.
Narrows(xs, x, g) ==
    g = [b \in (DOMAIN xs) \X (DOMAIN xs) |->
            LET middle == (b[1] + b[2] - 2) \div 2 + 1
            IN  IF b[1] >= b[2] THEN b[1]
                ELSE IF xs[middle] < x THEN g[<<middle + 1, b[2]>>] ELSE g[<<b[1], middle>>]]

\* It ends at the first sample that is not before x, at the last if all are.
Ends(xs, x, low, high, i) ==
    /\ i \in low..high
    /\ \A j \in low..(i - 1) : xs[j] < x
    /\ i < high => xs[i] >= x

Follow(xs) == \A i, j \in DOMAIN xs : i < j => xs[i] < xs[j]

LEMMA EndsOnce ==
    ASSUME NEW xs \in Seq(Int), NEW x \in Int, NEW low \in DOMAIN xs, NEW high \in DOMAIN xs,
           NEW i, Ends(xs, x, low, high, i), NEW j, Ends(xs, x, low, high, j)
    PROVE  i = j
<1>1. i \in Nat /\ j \in Nat /\ i \in low..high /\ j \in low..high /\ low \in Nat /\ high \in Nat
    BY DEF Ends
<1>2. ~(i < j)
    <2> SUFFICES ASSUME i < j
                 PROVE  FALSE
        OBVIOUS
    <2>1. i \in low..(j - 1) /\ i < high /\ i \in DOMAIN xs
        BY <1>1
    <2>2. xs[i] < x /\ xs[i] >= x
        BY <2>1 DEF Ends
    <2> QED  BY <2>1, <2>2
<1>3. ~(j < i)
    <2> SUFFICES ASSUME j < i
                 PROVE  FALSE
        OBVIOUS
    <2>1. j \in low..(i - 1) /\ j < high /\ j \in DOMAIN xs
        BY <1>1
    <2>2. xs[j] < x /\ xs[j] >= x
        BY <2>1 DEF Ends
    <2> QED  BY <2>1, <2>2
<1> QED  BY <1>1, <1>2, <1>3

\* The half that is left ends where the whole does.
LEMMA EndsInHalf ==
    ASSUME NEW xs \in Seq(Int), Follow(xs), NEW x \in Int, NEW low \in DOMAIN xs, NEW high \in DOMAIN xs, low < high,
           NEW middle, middle = (low + high - 2) \div 2 + 1
    PROVE  /\ middle \in Nat /\ low <= middle /\ middle < high /\ middle \in DOMAIN xs /\ middle + 1 \in DOMAIN xs
           /\ xs[middle] < x => \A i : Ends(xs, x, middle + 1, high, i) => Ends(xs, x, low, high, i)
           /\ ~(xs[middle] < x) => \A i : Ends(xs, x, low, middle, i) => Ends(xs, x, low, high, i)
<1>1. /\ low \in Nat /\ high \in Nat /\ low >= 1 /\ high <= Len(xs) /\ Len(xs) \in Nat /\ DOMAIN xs = 1..Len(xs)
      /\ \A k \in DOMAIN xs : xs[k] \in Int
    <2>1. Len(xs) \in Nat /\ DOMAIN xs = 1..Len(xs) /\ \A k \in 1..Len(xs) : xs[k] \in Int
        BY xs \in Seq(Int)
    <2>2. low \in 1..Len(xs) /\ high \in 1..Len(xs)
        BY <2>1
    <2> QED  BY <2>1, <2>2
<1>2. middle \in Nat /\ low <= middle /\ middle < high
    BY <1>1, SMTT(30)
<1>3. middle \in DOMAIN xs /\ middle + 1 \in DOMAIN xs
    BY <1>1, <1>2
<1>4. ASSUME xs[middle] < x, NEW i, Ends(xs, x, middle + 1, high, i)
      PROVE  Ends(xs, x, low, high, i)
    <2>1. i \in low..high /\ i \in (middle + 1)..high
        BY <1>1, <1>2, <1>4 DEF Ends
    <2>2. \A j \in low..middle : xs[j] < x
        <3> SUFFICES ASSUME NEW j \in low..middle
                     PROVE  xs[j] < x
            OBVIOUS
        <3>1. j \in DOMAIN xs /\ (j = middle \/ j < middle)
            BY <1>1, <1>2
        <3>2. xs[j] \in Int /\ xs[middle] \in Int /\ (j = middle \/ xs[j] < xs[middle])
            BY <1>1, <1>3, <3>1 DEF Follow
        <3>3. CASE j = middle
            BY <1>4, <3>3
        <3>4. CASE j # middle
            <4> DEFINE here  == xs[j]
                       there == xs[middle]
            <4>1. here \in Int /\ there \in Int /\ here < there /\ there < x
                BY <1>4, <3>2, <3>4
            <4> HIDE DEF here, there
            <4>2. here < x
                BY <4>1
            <4> QED  BY <4>2 DEF here
        <3> QED  BY <3>3, <3>4
    <2>3. \A j \in low..(i - 1) : j \in low..middle \/ j \in (middle + 1)..(i - 1)
        BY <1>1, <1>2, <2>1
    <2>4. \A j \in low..(i - 1) : xs[j] < x
        BY <1>4, <2>2, <2>3 DEF Ends
    <2> QED  BY <1>4, <2>1, <2>4 DEF Ends
<1>5. ASSUME ~(xs[middle] < x), NEW i, Ends(xs, x, low, middle, i)
      PROVE  Ends(xs, x, low, high, i)
    <2>1. i \in low..high /\ i \in low..middle /\ i \in Nat
        BY <1>1, <1>2, <1>5 DEF Ends
    <2>2. xs[i] >= x
        <3>1. CASE i < middle
            BY <1>5, <3>1 DEF Ends
        <3>2. CASE i = middle
            BY <1>1, <1>3, <1>5, <3>2
        <3> QED  BY <1>2, <2>1, <3>1, <3>2
    <2> QED  BY <1>5, <2>1, <2>2 DEF Ends
<1> QED  BY <1>2, <1>3, <1>4, <1>5

\* It ends somewhere.
LEMMA EndsAt ==
    ASSUME NEW xs \in Seq(Int), NEW x \in Int, NEW low \in DOMAIN xs, NEW high \in DOMAIN xs, low <= high
    PROVE  \E i : Ends(xs, x, low, high, i)
<1> DEFINE T == {i \in low..high : i = high \/ xs[i] >= x}
<1>1. low \in Nat /\ high \in Nat /\ \A j \in low..high : j \in Nat /\ xs[j] \in Int
    OBVIOUS
<1>2. T \in SUBSET Nat /\ T # {}
    BY <1>1
<1>3. PICK i \in T : \A j \in T : i <= j
    <2> HIDE DEF T
    <2> QED  BY <1>2, FirstNumber
<1>4. i \in low..high /\ (i < high => xs[i] >= x)
    BY <1>1, <1>3
<1>5. ASSUME NEW j \in low..(i - 1)
      PROVE  xs[j] < x
    <2>1. j \in low..high /\ j # high /\ ~(i <= j)
        BY <1>1, <1>4
    <2>2. j \notin T
        BY <1>3, <2>1
    <2> QED  BY <1>1, <2>1, <2>2
<1> QED  BY <1>4, <1>5 DEF Ends

\* The search is defined.
LEMMA NarrowsExists ==
    ASSUME NEW xs \in Seq(Int), Follow(xs), NEW x \in Int
    PROVE  \E g : Narrows(xs, x, g)
<1> DEFINE D == DOMAIN xs
           end(low, high) == CHOOSE i : Ends(xs, x, low, high, i)
           g == [b \in D \X D |-> IF b[1] >= b[2] THEN b[1] ELSE end(b[1], b[2])]
<1>1. ASSUME NEW low \in D, NEW high \in D
      PROVE  /\ g[<<low, high>>] = IF low >= high THEN low ELSE end(low, high)
             /\ low <= high => Ends(xs, x, low, high, g[<<low, high>>])
    <2>1. g[<<low, high>>] = IF low >= high THEN low ELSE end(low, high)
        <3> HIDE DEF end, D
        <3> QED  OBVIOUS
    <2> HIDE DEF g
    <2>2. CASE low = high
        <3> HIDE DEF end
        <3>1. g[<<low, high>>] = low
            BY <2>1, <2>2
        <3> QED  BY <2>1, <2>2, <3>1 DEF Ends
    <2>3. CASE low < high
        <3>1. \E i : Ends(xs, x, low, high, i)
            BY <2>3, EndsAt
        <3>2. Ends(xs, x, low, high, end(low, high))
            BY <3>1, Zenon
        <3> HIDE DEF end
        <3> QED  BY <2>1, <2>3, <3>2
    <2> QED  BY <2>1, <2>2, <2>3
<1> HIDE DEF end
<1>2. ASSUME NEW low \in D, NEW high \in D
      PROVE  g[<<low, high>>] = LET middle == (low + high - 2) \div 2 + 1
                                IN  IF low >= high THEN low
                                    ELSE IF xs[middle] < x THEN g[<<middle + 1, high>>] ELSE g[<<low, middle>>]
    <2> DEFINE middle == (low + high - 2) \div 2 + 1
    <2> HIDE DEF g
    <2>1. CASE low >= high
        BY <1>1, <2>1
    <2>2. CASE ~(low >= high)
        <3>1. low <= high /\ low < high
            BY <2>2
        <3>2. /\ middle \in Nat /\ low <= middle /\ middle < high /\ middle \in D /\ middle + 1 \in D
              /\ xs[middle] < x => \A i : Ends(xs, x, middle + 1, high, i) => Ends(xs, x, low, high, i)
              /\ ~(xs[middle] < x) => \A i : Ends(xs, x, low, middle, i) => Ends(xs, x, low, high, i)
            BY <3>1, EndsInHalf
        <3> HIDE DEF middle
        <3>3. Ends(xs, x, low, high, g[<<low, high>>])
            BY <1>1, <3>1
        <3>4. CASE xs[middle] < x
            <4>1. Ends(xs, x, middle + 1, high, g[<<middle + 1, high>>])
                <5>1. middle + 1 <= high
                    BY <3>2
                <5> QED  BY <1>1, <3>2, <5>1
            <4>2. g[<<low, high>>] = g[<<middle + 1, high>>]
                BY <3>2, <3>3, <3>4, <4>1, EndsOnce
            <4> QED  BY <2>2, <3>4, <4>2 DEF middle
        <3>5. CASE ~(xs[middle] < x)
            <4>1. Ends(xs, x, low, middle, g[<<low, middle>>])
                BY <1>1, <3>2
            <4>2. g[<<low, high>>] = g[<<low, middle>>]
                BY <3>2, <3>3, <3>5, <4>1, EndsOnce
            <4> QED  BY <2>2, <3>5, <4>2 DEF middle
        <3> QED  BY <3>4, <3>5
    <2> QED  BY <2>1, <2>2
<1>3. \A b \in D \X D : g[b] = LET middle == (b[1] + b[2] - 2) \div 2 + 1
                               IN  IF b[1] >= b[2] THEN b[1]
                                   ELSE IF xs[middle] < x THEN g[<<middle + 1, b[2]>>] ELSE g[<<b[1], middle>>]
    <2> HIDE DEF g, D
    <2>1. ASSUME NEW b \in D \X D
          PROVE  b[1] \in D /\ b[2] \in D /\ b = <<b[1], b[2]>>
        OBVIOUS
    <2> QED  BY <1>2, <2>1
<1>4. g = [b \in D \X D |-> g[b]]
    OBVIOUS
<1>5. Narrows(xs, x, g)
    <2> HIDE DEF g
    <2> QED  BY <1>3, <1>4 DEF Narrows
<1> QED  BY <1>5

LEMMA NarrowsEnds ==
    ASSUME NEW xs \in Seq(Int), Follow(xs), NEW x \in Int, NEW g, Narrows(xs, x, g),
           NEW low \in DOMAIN xs, NEW high \in DOMAIN xs, low <= high
    PROVE  Ends(xs, x, low, high, g[<<low, high>>])
<1> DEFINE D == DOMAIN xs
           Good(l, h) == Ends(xs, x, l, h, g[<<l, h>>])
           T == {d \in Nat : \A l, h \in D : l <= h /\ h - l <= d => Good(l, h)}
<1>0. \A l \in D : l \in Nat
    OBVIOUS
<1>1. ASSUME NEW l \in D, NEW h \in D
      PROVE  g[<<l, h>>] = LET middle == (l + h - 2) \div 2 + 1
                           IN  IF l >= h THEN l
                               ELSE IF xs[middle] < x THEN g[<<middle + 1, h>>] ELSE g[<<l, middle>>]
    BY DEF Narrows
<1>2. ASSUME NEW l \in D
      PROVE  Good(l, l)
    <2>1. g[<<l, l>>] = l
        <3>1. l >= l
            BY <1>0
        <3> QED  BY <3>1 DEF Narrows
    <2> QED  BY <1>0, <2>1 DEF Ends
<1>3. 0 \in T
    <2>1. \A l, h \in D : l <= h /\ h - l <= 0 => l = h
        BY <1>0
    <2> HIDE DEF Good
    <2> QED  BY <1>2, <2>1
<1>4. ASSUME NEW d \in T
      PROVE  d + 1 \in T
    <2>1. d \in Nat /\ \A l, h \in D : l <= h /\ h - l <= d => Good(l, h)
        OBVIOUS
    <2>2. ASSUME NEW l \in D, NEW h \in D, l <= h, h - l <= d + 1
          PROVE  Good(l, h)
        <3> DEFINE middle == (l + h - 2) \div 2 + 1
        <3> HIDE DEF T
        <3>1. CASE l = h
            BY <1>2, <3>1
        <3>2. CASE l < h
            <4>1. /\ middle \in Nat /\ l <= middle /\ middle < h /\ middle \in D /\ middle + 1 \in D
                  /\ xs[middle] < x => \A i : Ends(xs, x, middle + 1, h, i) => Ends(xs, x, l, h, i)
                  /\ ~(xs[middle] < x) => \A i : Ends(xs, x, l, middle, i) => Ends(xs, x, l, h, i)
                BY <3>2, EndsInHalf
            <4>2. g[<<l, h>>] = IF xs[middle] < x THEN g[<<middle + 1, h>>] ELSE g[<<l, middle>>]
                <5>1. ~(l >= h)
                    BY <1>0, <3>2
                <5> QED  BY <1>1, <5>1
            <4> HIDE DEF middle, D
            <4>3. middle + 1 <= h /\ h - (middle + 1) <= d /\ middle - l <= d
                BY <1>0, <2>1, <2>2, <4>1
            <4>4. Good(middle + 1, h) /\ Good(l, middle)
                <5> HIDE DEF Good
                <5> QED  BY <2>1, <4>1, <4>3
            <4> QED  BY <4>1, <4>2, <4>4
        <3> QED  BY <1>0, <2>2, <3>1, <3>2
    <2> HIDE DEF Good
    <2> QED  BY <2>1, <2>2
<1>5. T = Nat
    <2> HIDE DEF T
    <2>1. T \in SUBSET Nat
        BY DEF T
    <2> QED  BY <1>3, <1>4, <2>1, ByInduction
<1>6. high - low \in T
    <2> HIDE DEF T
    <2>1. high - low \in Nat
        BY <1>0
    <2> QED  BY <1>5, <2>1
<1> QED  BY <1>0, <1>6

LEMMA NearestIsTrue ==
    ASSUME NEW xs \in Seq(Int), Follow(xs), NEW x \in Int
    PROVE  Charts!NearestHolds(xs, x)
<1>1. CASE xs = <<>>
    BY <1>1 DEF Charts!NearestHolds, Charts!Nearest
<1>2. CASE xs # <<>>
    <2> DEFINE n == Len(xs)
               g == CHOOSE g : Narrows(xs, x, g)
               low == g[<<1, n>>]
               r == IF low > 1 /\ x - xs[IF low > 1 THEN low - 1 ELSE 1] <= xs[low] - x THEN low - 1 ELSE low
    <2>1. Charts!Nearest(xs, x) = r
        BY <1>2, ZenonT(30) DEF Charts!Nearest, Narrows
    <2>2. Narrows(xs, x, g)
        <3>1. \E f : Narrows(xs, x, f)
            BY NarrowsExists
        <3> QED  BY <3>1, Zenon
    <2>3. n \in Nat /\ 1 <= n /\ 1 \in DOMAIN xs /\ n \in DOMAIN xs /\ DOMAIN xs = 1..n /\ \A i \in 1..n : xs[i] \in Int
        BY <1>2
    <2>4. Ends(xs, x, 1, n, low)
        <3> HIDE DEF g, n
        <3> QED  BY <2>2, <2>3, NarrowsEnds
    <2> HIDE DEF low, n
    <2>5. low \in 1..n /\ (\A j \in 1..(low - 1) : xs[j] < x) /\ (low < n => xs[low] >= x)
        BY <2>4 DEF Ends
    <2>6. ASSUME NEW i \in 1..n
          PROVE  \/ Charts!Distance(xs[r], x) < Charts!Distance(xs[i], x)
                 \/ Charts!Distance(xs[r], x) = Charts!Distance(xs[i], x) /\ r <= i
        <3>0. low \in Nat /\ i \in Nat /\ xs[i] \in Int /\ xs[low] \in Int /\ low >= 1 /\ low <= n
            BY <2>3, <2>5
        <3>1. CASE low > 1 /\ x - xs[low - 1] <= xs[low] - x
            <4> DEFINE b == low - 1
            <4>1. r = b
                BY <3>1
            <4>2. b \in 1..n /\ xs[b] \in Int /\ xs[b] < x /\ b < low /\ b \in Nat
                BY <2>3, <2>5, <3>0, <3>1
            <4>3. i < b => xs[i] < xs[b]
                BY <2>3, <4>2 DEF Follow
            <4>4. low < i => xs[low] < xs[i]
                BY <2>3, <2>5 DEF Follow
            <4>5. i < b \/ i = b \/ i = low \/ low < i
                BY <3>0
            <4>6. x - xs[b] <= xs[low] - x
                BY <3>1
            <4> HIDE DEF b, r
            <4>7. Charts!Distance(xs[b], x) = x - xs[b]
                BY <4>2 DEF Charts!Distance
            <4>8. CASE i < b
                <5>1. Charts!Distance(xs[i], x) = x - xs[i]
                    BY <3>0, <4>2, <4>3, <4>8 DEF Charts!Distance
                <5> QED  BY <3>0, <4>1, <4>2, <4>3, <4>7, <4>8, <5>1
            <4>9. CASE i = b
                BY <4>1, <4>2, <4>9
            <4>10. CASE i = low \/ low < i
                <5>1. xs[i] >= xs[low]
                    BY <3>0, <4>4, <4>10
                <5>2. Charts!Distance(xs[i], x) = xs[i] - x
                    BY <3>0, <4>2, <4>6, <5>1 DEF Charts!Distance
                <5>3. Charts!Distance(xs[r], x) = x - xs[b]
                    BY <4>1, <4>7
                <5>4. x - xs[b] \in Int /\ xs[i] - x \in Int /\ x - xs[b] <= xs[i] - x /\ b <= i
                    BY <3>0, <4>2, <4>6, <4>10, <5>1, SMTT(30)
                <5>5. x - xs[b] < xs[i] - x \/ x - xs[b] = xs[i] - x
                    BY <5>4
                <5> QED  BY <4>1, <5>2, <5>3, <5>4, <5>5
            <4> QED  BY <4>5, <4>8, <4>9, <4>10
        <3>2. CASE ~(low > 1 /\ x - xs[low - 1] <= xs[low] - x)
            <4>1. r = low
                BY <3>2
            <4>2. i < low => xs[i] < x /\ xs[i] < xs[low]
                BY <2>3, <2>5, <3>0 DEF Follow
            <4>3. low < i => xs[low] < xs[i] /\ xs[low] >= x
                BY <2>3, <2>5, <3>0 DEF Follow
            <4>4. i < low => x - xs[i] > xs[low] - x
                <5> SUFFICES ASSUME i < low
                             PROVE  x - xs[i] > xs[low] - x
                    OBVIOUS
                <5>1. low - 1 \in 1..n /\ low > 1
                    BY <2>3, <3>0
                <5>2. xs[low - 1] \in Int /\ (i = low - 1 \/ xs[i] < xs[low - 1])
                    BY <2>3, <3>0, <5>1 DEF Follow
                <5>3. ~(x - xs[low - 1] <= xs[low] - x)
                    BY <3>2, <5>1
                <5>4. CASE i = low - 1
                    BY <3>0, <5>3, <5>4
                <5>5. CASE xs[i] < xs[low - 1]
                    BY <3>0, <5>2, <5>3, <5>5
                <5> QED  BY <5>2, <5>4, <5>5
            <4> HIDE DEF r
            <4>5. CASE i = low
                BY <3>0, <4>1, <4>5 DEF Charts!Distance
            <4>6. CASE i < low
                BY <3>0, <4>1, <4>2, <4>4, <4>6 DEF Charts!Distance
            <4>7. CASE low < i
                BY <3>0, <4>1, <4>3, <4>7 DEF Charts!Distance
            <4> QED  BY <3>0, <4>5, <4>6, <4>7
        <3> QED  BY <3>1, <3>2
    <2> HIDE DEF r
    <2> QED  BY <1>2, <2>1, <2>3, <2>6 DEF Charts!NearestHolds
<1> QED  BY <1>1, <1>2

-----------------------------------------------------------------------------
(* The calendar of publications.                                            *)

Dated(points) == points \in Seq([date : Int, total : Nat])

Grow(points) ==
    \A i, j \in DOMAIN points : i < j => points[i].date < points[j].date /\ points[i].total <= points[j].total

\* The loop of the search.
Seeks(points, date, g) ==
    g = [b \in (DOMAIN points) \X (DOMAIN points) |->
            LET middle == Charts!Half(b[1], b[2])
            IN  IF b[1] >= b[2] THEN b[1]
                ELSE IF points[middle].date <= date THEN g[<<middle, b[2]>>] ELSE g[<<b[1], middle - 1>>]]

\* It stops at the last day that is not after the date, at the first if all are.
Stops(points, date, low, high, i) ==
    /\ i \in low..high
    /\ \A j \in (i + 1)..high : points[j].date > date
    /\ low < i => points[i].date <= date

LEMMA DatedPoints ==
    ASSUME NEW points, Dated(points)
    PROVE  /\ Len(points) \in Nat /\ DOMAIN points = 1..Len(points)
           /\ \A i \in DOMAIN points : points[i].date \in Int /\ points[i].total \in Nat
<1> DEFINE Point == [date : Int, total : Nat]
<1>1. \A point \in Point : point.date \in Int /\ point.total \in Nat
    OBVIOUS
<1>2. points \in Seq(Point)
    BY DEF Dated
<1> HIDE DEF Point
<1>3. Len(points) \in Nat /\ DOMAIN points = 1..Len(points) /\ \A i \in DOMAIN points : points[i] \in Point
    BY <1>2
<1> QED  BY <1>1, <1>3

LEMMA StopsOnce ==
    ASSUME NEW points, Dated(points), NEW date \in Int, NEW low \in DOMAIN points, NEW high \in DOMAIN points,
           NEW i, Stops(points, date, low, high, i), NEW j, Stops(points, date, low, high, j)
    PROVE  i = j
<1>1. /\ i \in Nat /\ j \in Nat /\ i \in low..high /\ j \in low..high /\ low \in Nat /\ high \in Nat
      /\ i \in DOMAIN points /\ j \in DOMAIN points /\ points[i].date \in Int /\ points[j].date \in Int
    BY DatedPoints DEF Stops
<1>2. ~(i < j)
    <2> SUFFICES ASSUME i < j
                 PROVE  FALSE
        OBVIOUS
    <2>1. j \in (i + 1)..high /\ low < j
        BY <1>1
    <2>2. points[j].date > date /\ points[j].date <= date
        BY <2>1 DEF Stops
    <2> QED  BY <1>1, <2>2
<1>3. ~(j < i)
    <2> SUFFICES ASSUME j < i
                 PROVE  FALSE
        OBVIOUS
    <2>1. i \in (j + 1)..high /\ low < i
        BY <1>1
    <2>2. points[i].date > date /\ points[i].date <= date
        BY <2>1 DEF Stops
    <2> QED  BY <1>1, <2>2
<1> QED  BY <1>1, <1>2, <1>3

LEMMA StopsInHalf ==
    ASSUME NEW points, Dated(points), Grow(points), NEW date \in Int,
           NEW low \in DOMAIN points, NEW high \in DOMAIN points, low < high,
           NEW middle, middle = Charts!Half(low, high)
    PROVE  /\ middle \in Nat /\ low < middle /\ middle <= high /\ middle \in DOMAIN points /\ middle - 1 \in DOMAIN points
           /\ points[middle].date <= date =>
                 \A i : Stops(points, date, middle, high, i) => Stops(points, date, low, high, i)
           /\ ~(points[middle].date <= date) =>
                 \A i : Stops(points, date, low, middle - 1, i) => Stops(points, date, low, high, i)
<1>1. /\ low \in Nat /\ high \in Nat /\ low >= 1 /\ high <= Len(points) /\ Len(points) \in Nat
      /\ DOMAIN points = 1..Len(points) /\ \A k \in DOMAIN points : points[k].date \in Int
    BY DatedPoints
<1>2. middle \in Nat /\ low < middle /\ middle <= high
    BY <1>1 DEF Charts!Half
<1>3. middle \in DOMAIN points /\ middle - 1 \in DOMAIN points
    BY <1>1, <1>2
<1>4. ASSUME points[middle].date <= date, NEW i, Stops(points, date, middle, high, i)
      PROVE  Stops(points, date, low, high, i)
    <2>1. i \in low..high /\ i \in middle..high
        BY <1>1, <1>2, <1>4 DEF Stops
    <2>2. points[i].date <= date
        <3>1. CASE middle < i
            BY <1>4, <3>1 DEF Stops
        <3>2. CASE i = middle
            BY <1>4, <3>2
        <3> QED  BY <1>1, <1>2, <2>1, <3>1, <3>2
    <2> QED  BY <1>4, <2>1, <2>2 DEF Stops
<1>5. ASSUME ~(points[middle].date <= date), NEW i, Stops(points, date, low, middle - 1, i)
      PROVE  Stops(points, date, low, high, i)
    <2>1. i \in low..high /\ i \in low..(middle - 1)
        BY <1>1, <1>2, <1>5 DEF Stops
    <2>2. \A j \in middle..high : points[j].date > date
        <3> SUFFICES ASSUME NEW j \in middle..high
                     PROVE  points[j].date > date
            OBVIOUS
        <3>1. j \in DOMAIN points /\ (j = middle \/ middle < j)
            BY <1>1, <1>2
        <3>2. points[j].date \in Int /\ points[middle].date \in Int
            BY <1>1, <1>3, <3>1
        <3>3. CASE j = middle
            BY <1>5, <3>2, <3>3
        <3>4. CASE middle < j
            <4>1. points[middle].date < points[j].date
                BY <1>3, <3>1, <3>4 DEF Grow
            <4> QED  BY <1>5, <3>2, <4>1
        <3> QED  BY <3>1, <3>3, <3>4
    <2>3. \A j \in (i + 1)..high : j \in middle..high \/ j \in (i + 1)..(middle - 1)
        BY <1>1, <1>2, <2>1
    <2>4. \A j \in (i + 1)..high : points[j].date > date
        BY <1>5, <2>2, <2>3 DEF Stops
    <2> QED  BY <1>5, <2>1, <2>4 DEF Stops
<1> QED  BY <1>2, <1>3, <1>4, <1>5

\* The largest of some numbers below another.
LEMMA LastNumber ==
    ASSUME NEW n \in Nat, NEW T \in SUBSET (0..n), T # {}
    PROVE  \E m \in T : \A k \in T : k <= m
<1> DEFINE U == {k \in 0..n : n - k \in T}
<1>1. U \in SUBSET Nat
    OBVIOUS
<1>2. \A k \in T : n - k \in U /\ k \in Nat /\ k <= n
    BY Zenon, SMT
<1>3. U # {}
    BY <1>2
<1>4. PICK m \in U : \A k \in U : m <= k
    <2> HIDE DEF U
    <2> QED  BY <1>1, <1>3, FirstNumber
<1>5. n - m \in T /\ m \in Nat
    BY <1>4
<1>6. ASSUME NEW k \in T
      PROVE  k <= n - m
    <2>1. m <= n - k /\ k \in Nat
        BY <1>2, <1>4
    <2> QED  BY <1>5, <2>1
<1> QED  BY <1>5, <1>6

LEMMA StopsAt ==
    ASSUME NEW points, Dated(points), NEW date \in Int, NEW low \in DOMAIN points, NEW high \in DOMAIN points, low <= high
    PROVE  \E i : Stops(points, date, low, high, i)
<1> DEFINE T == {i \in low..high : i = low \/ points[i].date <= date}
<1>1. low \in Nat /\ high \in Nat /\ \A j \in low..high : j \in Nat /\ points[j].date \in Int
    BY DatedPoints
<1>2. T \in SUBSET (0..high) /\ T # {}
    BY <1>1
<1>3. PICK i \in T : \A j \in T : j <= i
    <2> HIDE DEF T
    <2> QED  BY <1>1, <1>2, LastNumber
<1>4. i \in low..high /\ (low < i => points[i].date <= date)
    BY <1>1, <1>3
<1>5. ASSUME NEW j \in (i + 1)..high
      PROVE  points[j].date > date
    <2>1. j \in low..high /\ j # low /\ ~(j <= i)
        BY <1>1, <1>4
    <2>2. j \notin T
        BY <1>3, <2>1
    <2> QED  BY <1>1, <2>1, <2>2
<1> QED  BY <1>4, <1>5 DEF Stops

LEMMA SeeksExists ==
    ASSUME NEW points, Dated(points), Grow(points), NEW date \in Int
    PROVE  \E g : Seeks(points, date, g)
<1> DEFINE D == DOMAIN points
           stop(low, high) == CHOOSE i : Stops(points, date, low, high, i)
           g == [b \in D \X D |-> IF b[1] >= b[2] THEN b[1] ELSE stop(b[1], b[2])]
<1>0. \A l \in D : l \in Nat
    BY DatedPoints
<1>1. ASSUME NEW low \in D, NEW high \in D
      PROVE  /\ g[<<low, high>>] = IF low >= high THEN low ELSE stop(low, high)
             /\ low <= high => Stops(points, date, low, high, g[<<low, high>>])
    <2>1. g[<<low, high>>] = IF low >= high THEN low ELSE stop(low, high)
        <3> HIDE DEF stop, D
        <3> QED  OBVIOUS
    <2> HIDE DEF g
    <2>2. CASE low = high
        <3> HIDE DEF stop
        <3>1. g[<<low, high>>] = low
            BY <1>0, <2>1, <2>2
        <3> QED  BY <1>0, <2>1, <2>2, <3>1 DEF Stops
    <2>3. CASE low < high
        <3>1. \E i : Stops(points, date, low, high, i)
            BY <1>0, <2>3, StopsAt
        <3>2. Stops(points, date, low, high, stop(low, high))
            BY <3>1, Zenon
        <3> HIDE DEF stop
        <3> QED  BY <1>0, <2>1, <2>3, <3>2
    <2> QED  BY <1>0, <2>1, <2>2, <2>3
<1> HIDE DEF stop
<1>2. ASSUME NEW low \in D, NEW high \in D
      PROVE  g[<<low, high>>] = LET middle == Charts!Half(low, high)
                                IN  IF low >= high THEN low
                                    ELSE IF points[middle].date <= date THEN g[<<middle, high>>] ELSE g[<<low, middle - 1>>]
    <2> DEFINE middle == Charts!Half(low, high)
    <2> HIDE DEF g
    <2>1. CASE low >= high
        BY <1>1, <2>1
    <2>2. CASE ~(low >= high)
        <3>1. low <= high /\ low < high
            BY <1>0, <2>2
        <3>2. /\ middle \in Nat /\ low < middle /\ middle <= high /\ middle \in D /\ middle - 1 \in D
              /\ points[middle].date <= date =>
                    \A i : Stops(points, date, middle, high, i) => Stops(points, date, low, high, i)
              /\ ~(points[middle].date <= date) =>
                    \A i : Stops(points, date, low, middle - 1, i) => Stops(points, date, low, high, i)
            BY <3>1, StopsInHalf
        <3> HIDE DEF middle
        <3>3. Stops(points, date, low, high, g[<<low, high>>])
            BY <1>1, <3>1
        <3>4. CASE points[middle].date <= date
            <4>1. Stops(points, date, middle, high, g[<<middle, high>>])
                BY <1>1, <3>2
            <4>2. g[<<low, high>>] = g[<<middle, high>>]
                BY <3>2, <3>3, <3>4, <4>1, StopsOnce
            <4> QED  BY <2>2, <3>4, <4>2 DEF middle
        <3>5. CASE ~(points[middle].date <= date)
            <4>1. Stops(points, date, low, middle - 1, g[<<low, middle - 1>>])
                <5>1. low <= middle - 1
                    BY <1>0, <3>2
                <5> QED  BY <1>1, <3>2, <5>1
            <4>2. g[<<low, high>>] = g[<<low, middle - 1>>]
                BY <3>2, <3>3, <3>5, <4>1, StopsOnce
            <4> QED  BY <2>2, <3>5, <4>2 DEF middle
        <3> QED  BY <3>4, <3>5
    <2> QED  BY <2>1, <2>2
<1>3. \A b \in D \X D : g[b] = LET middle == Charts!Half(b[1], b[2])
                               IN  IF b[1] >= b[2] THEN b[1]
                                   ELSE IF points[middle].date <= date THEN g[<<middle, b[2]>>] ELSE g[<<b[1], middle - 1>>]
    <2> HIDE DEF g, D
    <2>1. ASSUME NEW b \in D \X D
          PROVE  b[1] \in D /\ b[2] \in D /\ b = <<b[1], b[2]>>
        OBVIOUS
    <2> QED  BY <1>2, <2>1
<1>4. g = [b \in D \X D |-> g[b]]
    OBVIOUS
<1>5. Seeks(points, date, g)
    <2> HIDE DEF g
    <2> QED  BY <1>3, <1>4 DEF Seeks
<1> QED  BY <1>5

LEMMA SeeksStops ==
    ASSUME NEW points, Dated(points), Grow(points), NEW date \in Int, NEW g, Seeks(points, date, g),
           NEW low \in DOMAIN points, NEW high \in DOMAIN points, low <= high
    PROVE  Stops(points, date, low, high, g[<<low, high>>])
<1> DEFINE D == DOMAIN points
           Good(l, h) == Stops(points, date, l, h, g[<<l, h>>])
           T == {d \in Nat : \A l, h \in D : l <= h /\ h - l <= d => Good(l, h)}
<1>0. \A l \in D : l \in Nat
    BY DatedPoints
<1>1. ASSUME NEW l \in D, NEW h \in D
      PROVE  g[<<l, h>>] = LET middle == Charts!Half(l, h)
                           IN  IF l >= h THEN l
                               ELSE IF points[middle].date <= date THEN g[<<middle, h>>] ELSE g[<<l, middle - 1>>]
    BY DEF Seeks
<1>2. ASSUME NEW l \in D
      PROVE  Good(l, l)
    <2>1. g[<<l, l>>] = l
        <3>1. l >= l
            BY <1>0
        <3> QED  BY <3>1 DEF Seeks
    <2> QED  BY <1>0, <2>1 DEF Stops
<1>3. 0 \in T
    <2>1. \A l, h \in D : l <= h /\ h - l <= 0 => l = h
        BY <1>0
    <2> HIDE DEF Good
    <2> QED  BY <1>2, <2>1
<1>4. ASSUME NEW d \in T
      PROVE  d + 1 \in T
    <2>1. d \in Nat /\ \A l, h \in D : l <= h /\ h - l <= d => Good(l, h)
        OBVIOUS
    <2>2. ASSUME NEW l \in D, NEW h \in D, l <= h, h - l <= d + 1
          PROVE  Good(l, h)
        <3> DEFINE middle == Charts!Half(l, h)
        <3> HIDE DEF T
        <3>1. CASE l = h
            BY <1>2, <3>1
        <3>2. CASE l < h
            <4>1. /\ middle \in Nat /\ l < middle /\ middle <= h /\ middle \in D /\ middle - 1 \in D
                  /\ points[middle].date <= date => \A i : Stops(points, date, middle, h, i) => Stops(points, date, l, h, i)
                  /\ ~(points[middle].date <= date) =>
                        \A i : Stops(points, date, l, middle - 1, i) => Stops(points, date, l, h, i)
                BY <3>2, StopsInHalf
            <4>2. g[<<l, h>>] = IF points[middle].date <= date THEN g[<<middle, h>>] ELSE g[<<l, middle - 1>>]
                <5>1. ~(l >= h)
                    BY <1>0, <3>2
                <5> QED  BY <1>1, <5>1
            <4> HIDE DEF middle, D
            <4>3. h - middle <= d /\ l <= middle - 1 /\ (middle - 1) - l <= d
                BY <1>0, <2>1, <2>2, <4>1
            <4>4. Good(middle, h) /\ Good(l, middle - 1)
                <5> HIDE DEF Good
                <5> QED  BY <2>1, <4>1, <4>3
            <4> QED  BY <4>1, <4>2, <4>4
        <3> QED  BY <1>0, <2>2, <3>1, <3>2
    <2> HIDE DEF Good
    <2> QED  BY <2>1, <2>2
<1>5. T = Nat
    <2> HIDE DEF T
    <2>1. T \in SUBSET Nat
        BY DEF T
    <2> QED  BY <1>3, <1>4, <2>1, ByInduction
<1>6. high - low \in T
    <2> HIDE DEF T
    <2>1. high - low \in Nat
        BY <1>0
    <2> QED  BY <1>5, <2>1
<1> QED  BY <1>0, <1>6

\* The count after the first publications is that of the last of them.
Totals(points, s) == {0} \union {points[i].total : i \in s}

LEMMA TotalOf ==
    ASSUME NEW points, Dated(points), Grow(points), NEW k \in 0..Len(points)
    PROVE  Charts!Max(Totals(points, 1..k)) = IF k = 0 THEN 0 ELSE points[k].total
<1> DEFINE S == Totals(points, 1..k)
           m == IF k = 0 THEN 0 ELSE points[k].total
<1>1. k \in Nat /\ \A i \in 1..k : i \in DOMAIN points /\ i \in Nat /\ i <= k /\ points[i].total \in Nat
    BY DatedPoints
<1>2. k # 0 => k \in 1..k
    BY <1>1
<1>3. m \in S
    BY <1>1, <1>2 DEF Totals
<1>4. S \in SUBSET Int
    BY <1>1 DEF Totals
<1>5. ASSUME NEW y \in S
      PROVE  m >= y
    <2>1. CASE y = 0
        <3>1. m \in Nat
            BY <1>1, <1>2
        <3> QED  BY <2>1, <3>1
    <2>2. CASE y # 0
        <3>1. PICK i \in 1..k : y = points[i].total
            BY <2>2 DEF Totals
        <3>2. i = k \/ i < k
            BY <1>1
        <3>3. k # 0 /\ k \in DOMAIN points /\ points[k].total \in Nat /\ points[i].total \in Nat
            BY <1>1, <1>2
        <3>4. points[i].total <= points[k].total
            BY <1>1, <3>2, <3>3 DEF Grow
        <3> QED  BY <3>1, <3>3, <3>4
    <2> QED  BY <2>1, <2>2
<1> HIDE DEF S, m
<1>6. Charts!Max(S) = m
    BY <1>3, <1>4, <1>5, MaxIs
<1> QED  BY <1>6 DEF S, m

LEMMA GrowthIsTrue ==
    ASSUME NEW points, Dated(points), Grow(points), points # <<>>
    PROVE  Charts!GrowthHolds(points)
<1> DEFINE n == Len(points)
<1>0. n \in Nat /\ 1 <= n /\ DOMAIN points = 1..n /\ 1 \in DOMAIN points /\ n \in DOMAIN points
    <2>1. n # 0
        BY EmptySeq DEF Dated
    <2> QED  BY <2>1, DatedPoints
<1>1. points[1].date \in Int /\ points[n].date \in Int
    BY <1>0, DatedPoints
<1>2. points[1].date + Charts!Days(points) - 1 = points[n].date
    BY <1>1 DEF Charts!Days
<1>3. ASSUME NEW date \in points[1].date..points[n].date
      PROVE  Charts!OnDay(points, date) =
                LET before == {i \in DOMAIN points : points[i].date < date}
                    upto   == {i \in DOMAIN points : points[i].date <= date}
                    total(s) == Charts!Max({0} \union {points[i].total : i \in s})
                IN  [total |-> total(upto), added |-> total(upto) - total(before)]
    <2> DEFINE before == {i \in DOMAIN points : points[i].date < date}
               upto   == {i \in DOMAIN points : points[i].date <= date}
               total(s) == Charts!Max(Totals(points, s))
               g == CHOOSE g : Seeks(points, date, g)
               low == g[<<1, n>>]
               earlier == IF low = 1 THEN 0 ELSE points[low - 1].total
               added == IF points[low].date = date THEN points[low].total - earlier ELSE 0
    <2>1. Charts!OnDay(points, date) = [total |-> points[low].total, added |-> added]
        BY DEF Charts!OnDay, Seeks
    <2>2. date \in Int /\ points[1].date <= date
        BY <1>1
    <2>3. Seeks(points, date, g)
        <3>1. \E f : Seeks(points, date, f)
            BY <2>2, SeeksExists
        <3> QED  BY <3>1, Zenon
    <2>4. Stops(points, date, 1, n, low)
        <3> HIDE DEF g, n
        <3> QED  BY <1>0, <2>2, <2>3, SeeksStops
    <2> HIDE DEF g, low, n, added, earlier
    <2>5. /\ low \in Nat /\ low >= 1 /\ low <= n /\ low \in DOMAIN points
          /\ points[low].date \in Int /\ points[low].total \in Nat
          /\ points[low].date <= date /\ \A j \in (low + 1)..n : points[j].date > date
        <3>1. low \in 1..n /\ (1 < low => points[low].date <= date) /\ \A j \in (low + 1)..n : points[j].date > date
            BY <2>4 DEF Stops
        <3>2. low \in Nat /\ low >= 1 /\ low <= n /\ low \in DOMAIN points
            BY <1>0, <3>1
        <3>3. points[low].date <= date
            <4>1. low = 1 \/ 1 < low
                BY <3>2
            <4> QED  BY <2>2, <3>1, <4>1
        <3> QED  BY <3>1, <3>2, <3>3, DatedPoints
    <2>6. \A i \in DOMAIN points : i \in Nat /\ i >= 1 /\ i <= n /\ points[i].date \in Int
        BY <1>0, DatedPoints
    <2>7. upto = 1..low
        <3>1. \A i \in DOMAIN points : points[i].date <= date => i <= low
            <4> SUFFICES ASSUME NEW i \in DOMAIN points, points[i].date <= date, ~(i <= low)
                         PROVE  FALSE
                OBVIOUS
            <4>1. i \in (low + 1)..n
                BY <1>0, <2>5, <2>6
            <4> QED  BY <2>2, <2>5, <2>6, <4>1
        <3>2. \A i \in 1..low : i \in DOMAIN points /\ points[i].date <= date
            <4> SUFFICES ASSUME NEW i \in 1..low
                         PROVE  i \in DOMAIN points /\ points[i].date <= date
                OBVIOUS
            <4>1. i \in DOMAIN points /\ (i = low \/ i < low)
                BY <1>0, <2>5
            <4>2. points[i].date <= points[low].date
                BY <2>5, <2>6, <4>1 DEF Grow
            <4> QED  BY <2>2, <2>5, <2>6, <4>1, <4>2
        <3>3. \A i \in DOMAIN points : i <= low => i \in 1..low
            BY <2>5, <2>6
        <3> QED  BY <3>1, <3>2, <3>3
    <2>8. total(upto) = points[low].total
        <3>1. low \in 0..n /\ low # 0
            BY <1>0, <2>5
        <3>2. Charts!Max(Totals(points, 1..low)) = points[low].total
            BY <3>1, TotalOf DEF n
        <3> HIDE DEF upto
        <3> QED  BY <2>7, <3>2
    <2>9. CASE points[low].date = date
        <3>1. before = 1..(low - 1)
            <4>1. \A i \in DOMAIN points : points[i].date < date => i < low
                <5> SUFFICES ASSUME NEW i \in DOMAIN points, points[i].date < date, ~(i < low)
                             PROVE  FALSE
                    OBVIOUS
                <5>1. i = low \/ low < i
                    BY <2>5, <2>6
                <5>2. points[low].date <= points[i].date
                    BY <2>5, <2>6, <5>1 DEF Grow
                <5> QED  BY <2>2, <2>5, <2>6, <2>9, <5>2
            <4>2. \A i \in 1..(low - 1) : i \in DOMAIN points /\ points[i].date < date
                <5> SUFFICES ASSUME NEW i \in 1..(low - 1)
                             PROVE  i \in DOMAIN points /\ points[i].date < date
                    OBVIOUS
                <5>1. i \in DOMAIN points /\ i < low
                    BY <1>0, <2>5
                <5> QED  BY <2>5, <2>9, <5>1 DEF Grow
            <4>3. \A i \in DOMAIN points : i < low => i \in 1..(low - 1)
                BY <2>5, <2>6
            <4> QED  BY <4>1, <4>2, <4>3
        <3>2. total(before) = earlier
            <4>1. low - 1 \in 0..n /\ (low - 1 = 0 <=> low = 1)
                BY <1>0, <2>5
            <4>2. Charts!Max(Totals(points, 1..(low - 1))) = IF low - 1 = 0 THEN 0 ELSE points[low - 1].total
                BY <4>1, TotalOf DEF n
            <4> HIDE DEF before
            <4> QED  BY <3>1, <4>1, <4>2 DEF earlier
        <3>3. added = points[low].total - earlier
            BY <2>9 DEF added
        <3> HIDE DEF before, upto
        <3>4. Charts!OnDay(points, date) = [total |-> total(upto), added |-> total(upto) - total(before)]
            BY <2>1, <2>8, <3>2, <3>3
        <3> QED  BY <3>4 DEF before, upto, Totals
    <2>10. CASE points[low].date # date
        <3>1. before = upto
            <4>1. \A i \in DOMAIN points : points[i].date # date
                <5> SUFFICES ASSUME NEW i \in DOMAIN points, points[i].date = date
                             PROVE  FALSE
                    OBVIOUS
                <5>1. i = low \/ i < low \/ low < i
                    BY <2>5, <2>6
                <5>2. CASE i = low
                    BY <2>10, <5>2
                <5>3. CASE i < low
                    <6>1. points[i].date < points[low].date
                        BY <2>5, <5>3 DEF Grow
                    <6> QED  BY <2>2, <2>5, <6>1
                <5>4. CASE low < i
                    <6>1. i \in (low + 1)..n
                        BY <1>0, <2>5, <2>6, <5>4
                    <6> QED  BY <2>2, <2>5, <2>6, <6>1
                <5> QED  BY <5>1, <5>2, <5>3, <5>4
            <4> QED  BY <2>2, <2>6, <4>1
        <3>2. added = 0
            BY <2>10 DEF added
        <3> HIDE DEF before, upto
        <3>3. total(upto) - total(before) = 0
            BY <2>5, <2>8, <3>1
        <3>4. Charts!OnDay(points, date) = [total |-> total(upto), added |-> total(upto) - total(before)]
            BY <2>1, <2>8, <3>2, <3>3
        <3> QED  BY <3>4 DEF before, upto, Totals
    <2> QED  BY <2>9, <2>10
<1> QED  BY <1>2, <1>3 DEF Charts!GrowthHolds

-----------------------------------------------------------------------------
(* The lines of the traffic.                                                *)

On(path) == {path[i] : i \in DOMAIN path}
Covered(paths) == UNION {On(paths[k]) : k \in DOMAIN paths}

\* A day more, and the lines there are with the last one.
Onto(daily, n, so) ==
    IF daily[n] < 0 THEN [path |-> <<>>, paths |-> IF so.path = <<>> THEN so.paths ELSE Append(so.paths, so.path)]
    ELSE [so EXCEPT !.path = Append(@, n)]
Ended(so) == IF so.path = <<>> THEN so.paths ELSE Append(so.paths, so.path)
Blank == [path |-> <<>>, paths |-> <<>>]

Walks(daily, k, u) == u = [n \in 0..k |-> IF n = 0 THEN Blank ELSE Onto(daily, n, u[n - 1])]

\* A line is all of the archived days of a stretch.
Stretch(daily, path) ==
    \E a, b \in 1..Len(daily) :
        a <= b /\ On(path) = a..b /\ a - 1 \notin Charts!Valid(daily) /\ b + 1 \notin Charts!Valid(daily)

Drawn(daily, n, so) ==
    /\ so \in [path : Seq(Nat), paths : Seq(Seq(Nat))]
    /\ \E a \in 1..(n + 1) : On(so.path) = a..n /\ a - 1 \notin Charts!Valid(daily)
    /\ \A k \in DOMAIN so.paths : Stretch(daily, so.paths[k])
    /\ Covered(so.paths) \union On(so.path) = {i \in Charts!Valid(daily) : i <= n}

LEMMA OneMore ==
    ASSUME NEW S, NEW s \in Seq(S), NEW x \in S
    PROVE  /\ Append(s, x) \in Seq(S) /\ On(Append(s, x)) = On(s) \union {x} /\ Append(s, x) # <<>>
           /\ \A k \in DOMAIN Append(s, x) : Append(s, x)[k] = x \/ (k \in DOMAIN s /\ Append(s, x)[k] = s[k])
<1>1. /\ Append(s, x) \in Seq(S) /\ DOMAIN s = 1..Len(s) /\ Len(s) \in Nat
      /\ DOMAIN Append(s, x) = 1..(Len(s) + 1) /\ Append(s, x)[Len(s) + 1] = x
      /\ \A k \in 1..Len(s) : Append(s, x)[k] = s[k]
    OBVIOUS
<1>2. \A k \in 1..(Len(s) + 1) : k \in 1..Len(s) \/ k = Len(s) + 1
    BY <1>1
<1>3. \A k \in 1..Len(s) : k \in 1..(Len(s) + 1)
    BY <1>1
<1>4. Len(s) + 1 \in 1..(Len(s) + 1)
    BY <1>1
<1> DEFINE more == Append(s, x)
<1> HIDE DEF more
<1>5. On(more) = On(s) \union {x}
    BY <1>1, <1>2, <1>3, <1>4 DEF On, more
<1>6. more # <<>>
    <2>1. DOMAIN more # {}
        BY <1>1, <1>4 DEF more
    <2> QED  BY <2>1
<1> QED  BY <1>1, <1>2, <1>5, <1>6 DEF more

LEMMA CoversMore ==
    ASSUME NEW s \in Seq(Seq(Nat)), NEW x \in Seq(Nat)
    PROVE  Covered(Append(s, x)) = Covered(s) \union On(x)
<1>1. /\ DOMAIN s = 1..Len(s) /\ Len(s) \in Nat
      /\ DOMAIN Append(s, x) = 1..(Len(s) + 1) /\ Append(s, x)[Len(s) + 1] = x
      /\ \A k \in 1..Len(s) : Append(s, x)[k] = s[k]
    OBVIOUS
<1>2. \A k \in 1..(Len(s) + 1) : k \in 1..Len(s) \/ k = Len(s) + 1
    BY <1>1
<1>3. (\A k \in 1..Len(s) : k \in 1..(Len(s) + 1)) /\ Len(s) + 1 \in 1..(Len(s) + 1)
    BY <1>1
<1> DEFINE more == Append(s, x)
<1> HIDE DEF more
<1>4. \A i : i \in Covered(more) <=> \E k \in DOMAIN more : i \in On(more[k])
    BY DEF Covered
<1>5. \A i : i \in Covered(s) <=> \E k \in DOMAIN s : i \in On(s[k])
    BY DEF Covered
<1>6. \A i : i \in Covered(more) <=> i \in Covered(s) \/ i \in On(x)
    BY <1>1, <1>2, <1>3, <1>4, <1>5 DEF more
<1> QED  BY <1>6 DEF more

LEMMA WalksExists ==
    ASSUME NEW daily, NEW n \in Nat
    PROVE  \E u : Walks(daily, n, u)
<1> DEFINE T == {k \in Nat : \E u : Walks(daily, k, u)}
<1>1. 0 \in T
    <2> DEFINE u == [k \in 0..0 |-> Blank]
    <2>1. \A k \in 0..0 : k = 0
        OBVIOUS
    <2>2. \A k \in 0..0 : u[k] = IF k = 0 THEN Blank ELSE Onto(daily, k, u[k - 1])
        BY <2>1
    <2>3. u = [k \in 0..0 |-> u[k]]
        OBVIOUS
    <2> HIDE DEF u
    <2>4. Walks(daily, 0, u)
        BY <2>2, <2>3 DEF Walks
    <2> QED  BY <2>4
<1>2. ASSUME NEW k \in T
      PROVE  k + 1 \in T
    <2>1. k \in Nat
        OBVIOUS
    <2>2. PICK u : Walks(daily, k, u)
        OBVIOUS
    <2> DEFINE v == [j \in 0..(k + 1) |-> IF j = k + 1 THEN Onto(daily, k + 1, u[k]) ELSE u[j]]
    <2>3. \A j \in 0..k : u[j] = IF j = 0 THEN Blank ELSE Onto(daily, j, u[j - 1])
        BY <2>2 DEF Walks
    <2>4. v[k + 1] = Onto(daily, k + 1, u[k]) /\ \A j \in 0..k : v[j] = u[j]
        <3>1. k + 1 \in 0..(k + 1) /\ \A j \in 0..k : j \in 0..(k + 1) /\ j # k + 1
            BY <2>1
        <3> QED  BY <3>1
    <2>5. v = [j \in 0..(k + 1) |-> v[j]]
        OBVIOUS
    <2> HIDE DEF v
    <2>6. \A j \in 0..(k + 1) : v[j] = IF j = 0 THEN Blank ELSE Onto(daily, j, v[j - 1])
        <3> SUFFICES ASSUME NEW j \in 0..(k + 1)
                     PROVE  v[j] = IF j = 0 THEN Blank ELSE Onto(daily, j, v[j - 1])
            OBVIOUS
        <3>1. CASE j = k + 1
            <4>1. j # 0 /\ j - 1 = k /\ k \in 0..k
                BY <2>1, <3>1
            <4> QED  BY <2>4, <3>1, <4>1
        <3>2. CASE j # k + 1
            <4>1. j \in 0..k /\ (j # 0 => j - 1 \in 0..k)
                BY <2>1, <3>2
            <4> QED  BY <2>3, <2>4, <4>1
        <3> QED  BY <3>1, <3>2
    <2>7. Walks(daily, k + 1, v)
        BY <2>5, <2>6 DEF Walks
    <2> QED  BY <2>1, <2>7
<1>3. T = Nat
    <2> HIDE DEF T
    <2>1. T \in SUBSET Nat
        BY DEF T
    <2> QED  BY <1>1, <1>2, <2>1, ByInduction
<1> QED  BY <1>3

\* Days that are archived alike are drawn alike.
LEMMA WalksOnce ==
    ASSUME NEW n \in Nat, NEW daily, NEW other, \A i \in 1..n : daily[i] < 0 <=> other[i] < 0,
           NEW u, Walks(daily, n, u), NEW v, Walks(other, n, v)
    PROVE  u[n] = v[n]
<1> DEFINE T == {k \in Nat : k <= n => u[k] = v[k]}
<1>1. \A j \in 0..n : /\ u[j] = IF j = 0 THEN Blank ELSE Onto(daily, j, u[j - 1])
                      /\ v[j] = IF j = 0 THEN Blank ELSE Onto(other, j, v[j - 1])
    BY DEF Walks
<1>2. 0 \in T
    <2>1. 0 \in 0..n
        OBVIOUS
    <2> QED  BY <1>1, <2>1
<1>3. ASSUME NEW k \in T
      PROVE  k + 1 \in T
    <2>1. k \in Nat /\ (k <= n => u[k] = v[k])
        OBVIOUS
    <2>2. ASSUME k + 1 <= n
          PROVE  u[k + 1] = v[k + 1]
        <3>1. k + 1 \in 0..n /\ k + 1 \in 1..n /\ k + 1 # 0 /\ (k + 1) - 1 = k /\ u[k] = v[k]
            BY <2>1, <2>2
        <3>2. u[k + 1] = Onto(daily, k + 1, u[k]) /\ v[k + 1] = Onto(other, k + 1, u[k])
            BY <1>1, <3>1
        <3>3. daily[k + 1] < 0 <=> other[k + 1] < 0
            BY <3>1
        <3>4. CASE daily[k + 1] < 0
            BY <3>2, <3>3, <3>4 DEF Onto
        <3>5. CASE ~(daily[k + 1] < 0)
            BY <3>2, <3>3, <3>5 DEF Onto
        <3> QED  BY <3>4, <3>5
    <2> QED  BY <2>1, <2>2
<1>4. T = Nat
    <2> HIDE DEF T
    <2>1. T \in SUBSET Nat
        BY DEF T
    <2> QED  BY <1>2, <1>3, <2>1, ByInduction
<1> QED  BY <1>4

LEMMA ValidDays ==
    ASSUME NEW daily \in Seq(Int)
    PROVE  /\ Len(daily) \in Nat /\ DOMAIN daily = 1..Len(daily)
           /\ \A i : i \in Charts!Valid(daily) <=> i \in 1..Len(daily) /\ ~(daily[i] < 0)
           /\ 0 \notin Charts!Valid(daily) /\ Len(daily) + 1 \notin Charts!Valid(daily)
<1>1. Len(daily) \in Nat /\ DOMAIN daily = 1..Len(daily) /\ \A i \in 1..Len(daily) : daily[i] \in Int
    OBVIOUS
<1>2. \A i : i \in Charts!Valid(daily) <=> i \in 1..Len(daily) /\ ~(daily[i] < 0)
    BY <1>1 DEF Charts!Valid
<1> QED  BY <1>1, <1>2

\* A line that ends before a day that is not archived is a stretch, and the lines
\* with it cover what was.
LEMMA EndedIsStretches ==
    ASSUME NEW daily \in Seq(Int), NEW n \in 0..Len(daily), n + 1 \notin Charts!Valid(daily),
           NEW so, Drawn(daily, n, so)
    PROVE  /\ Ended(so) \in Seq(Seq(Nat))
           /\ \A k \in DOMAIN Ended(so) : Stretch(daily, Ended(so)[k])
           /\ Covered(Ended(so)) = {i \in Charts!Valid(daily) : i <= n}
<1>1. so.path \in Seq(Nat) /\ so.paths \in Seq(Seq(Nat))
    <2>1. so \in [path : Seq(Nat), paths : Seq(Seq(Nat))]
        BY DEF Drawn
    <2> QED  BY <2>1
<1>2. Covered(so.paths) \union On(so.path) = {i \in Charts!Valid(daily) : i <= n}
    BY DEF Drawn
<1>3. \A k \in DOMAIN so.paths : Stretch(daily, so.paths[k])
    BY DEF Drawn
<1>4. CASE so.path = <<>>
    <2>1. Ended(so) = so.paths
        BY <1>4 DEF Ended
    <2>2. On(so.path) = {}
        BY <1>4 DEF On
    <2> QED  BY <1>1, <1>2, <1>3, <2>1, <2>2
<1>5. CASE so.path # <<>>
    <2>1. Ended(so) = Append(so.paths, so.path)
        BY <1>5 DEF Ended
    <2>2. Stretch(daily, so.path)
        <3>1. PICK a \in 1..(n + 1) : On(so.path) = a..n /\ a - 1 \notin Charts!Valid(daily)
            BY DEF Drawn
        <3>2. On(so.path) # {}
            <4>1. DOMAIN so.path # {}
                <5> DEFINE path == so.path
                <5>1. path \in Seq(Nat) /\ path # <<>>
                    BY <1>1, <1>5
                <5> HIDE DEF path
                <5>2. Len(path) \in Nat \ {0} /\ DOMAIN path = 1..Len(path)
                    BY <5>1, EmptySeq
                <5>3. DOMAIN path # {}
                    <6>1. 1 \in 1..Len(path)
                        BY <5>2
                    <6> QED  BY <5>2, <6>1
                <5> QED  BY <5>3 DEF path
            <4> QED  BY <4>1 DEF On
        <3>3. a <= n /\ a \in 1..Len(daily) /\ n \in 1..Len(daily)
            <4>1. n \in Nat /\ a \in Nat /\ Len(daily) \in Nat /\ n <= Len(daily) /\ a >= 1
                BY ValidDays
            <4>2. a <= n
                BY <3>1, <3>2, <4>1
            <4> QED  BY <4>1, <4>2
        <3> QED  BY <3>1, <3>3 DEF Stretch
    <2>3. \A k \in DOMAIN Ended(so) : Ended(so)[k] = so.path \/ (k \in DOMAIN so.paths /\ Ended(so)[k] = so.paths[k])
        BY <1>1, <2>1, OneMore
    <2>4. Ended(so) \in Seq(Seq(Nat))
        BY <1>1, <2>1, OneMore
    <2>5. Covered(Ended(so)) = Covered(so.paths) \union On(so.path)
        BY <1>1, <2>1, CoversMore
    <2> QED  BY <1>2, <1>3, <2>2, <2>3, <2>4, <2>5
<1> QED  BY <1>4, <1>5

LEMMA DrawnOnto ==
    ASSUME NEW daily \in Seq(Int), NEW n \in 1..Len(daily), NEW so, Drawn(daily, n - 1, so)
    PROVE  Drawn(daily, n, Onto(daily, n, so))
<1> DEFINE then == Onto(daily, n, so)
           V == Charts!Valid(daily)
<1>0. n \in Nat /\ n >= 1 /\ Len(daily) \in Nat /\ n <= Len(daily) /\ V \in SUBSET Nat /\ (n \in V <=> ~(daily[n] < 0))
    BY ValidDays
<1>1. so.path \in Seq(Nat) /\ so.paths \in Seq(Seq(Nat)) /\ so \in [path : Seq(Nat), paths : Seq(Seq(Nat))]
    <2>1. so \in [path : Seq(Nat), paths : Seq(Seq(Nat))]
        BY DEF Drawn
    <2> QED  BY <2>1
<1>2. CASE daily[n] < 0
    <2>1. then = [path |-> <<>>, paths |-> Ended(so)]
        BY <1>2 DEF Onto, Ended
    <2>2. then.path = <<>> /\ then.paths = Ended(so)
        BY <2>1
    <2>3. n \notin V
        BY <1>0, <1>2
    <2>4. /\ Ended(so) \in Seq(Seq(Nat))
          /\ \A k \in DOMAIN Ended(so) : Stretch(daily, Ended(so)[k])
          /\ Covered(Ended(so)) = {i \in V : i <= n - 1}
        <3>1. n - 1 \in 0..Len(daily) /\ (n - 1) + 1 \notin V
            BY <1>0, <2>3
        <3> HIDE DEF V
        <3> QED  BY <3>1, EndedIsStretches DEF V
    <2>5. then \in [path : Seq(Nat), paths : Seq(Seq(Nat))]
        <3>1. <<>> \in Seq(Nat)
            OBVIOUS
        <3> DEFINE all == Ended(so)  Q == Seq(Seq(Nat))  R == Seq(Nat)  none == <<>>
        <3>2. all \in Q /\ none \in R /\ then = [path |-> none, paths |-> all]
            BY <2>1, <2>4, <3>1
        <3> HIDE DEF all, Q, R, none, then
        <3>3. then \in [path : R, paths : Q]
            BY <3>2
        <3> QED  BY <3>3 DEF Q, R
    <2>6. On(then.path) = {}
        BY <2>2 DEF On
    <2>7. n + 1 \in 1..(n + 1) /\ (n + 1)..n = {} /\ (n + 1) - 1 = n
        BY <1>0
    <2>8. {i \in V : i <= n - 1} = {i \in V : i <= n}
        BY <1>0, <2>3
    <2> HIDE DEF then, V
    <2>9. \E a \in 1..(n + 1) : On(then.path) = a..n /\ a - 1 \notin V
        BY <2>3, <2>6, <2>7
    <2> QED  BY <2>2, <2>4, <2>5, <2>6, <2>8, <2>9 DEF Drawn, V, then
<1>3. CASE ~(daily[n] < 0)
    <2>1. then = [so EXCEPT !.path = Append(so.path, n)]
        BY <1>3 DEF Onto
    <2>2. then.path = Append(so.path, n) /\ then.paths = so.paths
        BY <1>1, <2>1
    <2>3. Append(so.path, n) \in Seq(Nat) /\ On(Append(so.path, n)) = On(so.path) \union {n}
        <3> DEFINE path == so.path  Days == Nat
        <3>1. path \in Seq(Days) /\ n \in Days
            BY <1>0, <1>1
        <3> HIDE DEF path, Days
        <3>2. Append(path, n) \in Seq(Days) /\ On(Append(path, n)) = On(path) \union {n}
            BY <3>1, OneMore, SMT
        <3> QED  BY <3>2 DEF path, Days
    <2>4. then \in [path : Seq(Nat), paths : Seq(Seq(Nat))]
        <3> DEFINE path == Append(so.path, n)  Q == Seq(Seq(Nat))  R == Seq(Nat)
        <3>1. path \in R /\ so \in [path : R, paths : Q] /\ then = [so EXCEPT !.path = path]
            BY <1>1, <2>1, <2>3
        <3> HIDE DEF path, Q, R, then
        <3>2. then \in [path : R, paths : Q]
            BY <3>1
        <3> QED  BY <3>2 DEF Q, R
    <2>5. PICK a \in 1..((n - 1) + 1) : On(so.path) = a..(n - 1) /\ a - 1 \notin V
        BY DEF Drawn
    <2>6. a \in 1..(n + 1) /\ (a..(n - 1)) \union {n} = a..n
        BY <1>0
    <2>7. n \in V
        BY <1>0, <1>3
    <2>8. Covered(so.paths) \union On(so.path) = {i \in V : i <= n - 1}
        BY DEF Drawn
    <2>9. {i \in V : i <= n} = {i \in V : i <= n - 1} \union {n}
        BY <1>0, <2>7
    <2>10. \A k \in DOMAIN so.paths : Stretch(daily, so.paths[k])
        BY DEF Drawn
    <2> HIDE DEF then, V
    <2>11. \E b \in 1..(n + 1) : On(then.path) = b..n /\ b - 1 \notin V
        BY <2>2, <2>3, <2>5, <2>6
    <2>12. Covered(then.paths) \union On(then.path) = {i \in V : i <= n}
        BY <2>2, <2>3, <2>8, <2>9
    <2> QED  BY <2>2, <2>4, <2>10, <2>11, <2>12 DEF Drawn, V, then
<1> QED  BY <1>2, <1>3

LEMMA AllDrawn ==
    ASSUME NEW daily \in Seq(Int), NEW u, Walks(daily, Len(daily), u)
    PROVE  Drawn(daily, Len(daily), u[Len(daily)])
<1> DEFINE n == Len(daily)
           T == {k \in Nat : k <= n => Drawn(daily, k, u[k])}
<1>0. n \in Nat
    OBVIOUS
<1>1. \A j \in 0..n : u[j] = IF j = 0 THEN Blank ELSE Onto(daily, j, u[j - 1])
    BY DEF Walks
<1>2. 0 \in T
    <2>1. 0 \in 0..n /\ 1 \in 1..(0 + 1) /\ 1..0 = {} /\ 1 - 1 = 0
        BY <1>0
    <2>2. u[0] = Blank
        BY <1>1, <2>1
    <2>3. On(Blank.path) = {} /\ Covered(Blank.paths) = {} /\ DOMAIN Blank.paths = {}
        BY DEF On, Covered, Blank
    <2>4. Blank \in [path : Seq(Nat), paths : Seq(Seq(Nat))]
        <3> DEFINE Q == Seq(Seq(Nat))  R == Seq(Nat)  none == <<>>
        <3>1. none \in Q /\ none \in R /\ Blank = [path |-> none, paths |-> none]
            BY DEF Blank
        <3> HIDE DEF Q, R, none
        <3>2. Blank \in [path : R, paths : Q]
            BY <3>1
        <3> QED  BY <3>2 DEF Q, R
    <2>5. {i \in Charts!Valid(daily) : i <= 0} = {} /\ 0 \notin Charts!Valid(daily)
        BY ValidDays
    <2>6. \E a \in 1..(0 + 1) : On(Blank.path) = a..0 /\ a - 1 \notin Charts!Valid(daily)
        BY <2>1, <2>3, <2>5
    <2>7. Drawn(daily, 0, Blank)
        BY <2>3, <2>4, <2>5, <2>6 DEF Drawn
    <2> QED  BY <2>2, <2>7
<1>3. ASSUME NEW k \in T
      PROVE  k + 1 \in T
    <2>1. k \in Nat /\ (k <= n => Drawn(daily, k, u[k]))
        OBVIOUS
    <2>2. ASSUME k + 1 <= n
          PROVE  Drawn(daily, k + 1, u[k + 1])
        <3>1. k + 1 \in 0..n /\ k + 1 \in 1..n /\ k + 1 # 0 /\ (k + 1) - 1 = k /\ Drawn(daily, k, u[k])
            BY <1>0, <2>1, <2>2
        <3>2. u[k + 1] = Onto(daily, k + 1, u[k])
            BY <1>1, <3>1
        <3>3. Drawn(daily, k + 1, Onto(daily, k + 1, u[k]))
            <4>1. Drawn(daily, (k + 1) - 1, u[k])
                BY <3>1
            <4> QED  BY <3>1, <4>1, DrawnOnto
        <3> QED  BY <3>2, <3>3
    <2> QED  BY <2>1, <2>2
<1>4. T = Nat
    <2> HIDE DEF T
    <2>1. T \in SUBSET Nat
        BY DEF T
    <2> QED  BY <1>2, <1>3, <2>1, ByInduction
<1> QED  BY <1>0, <1>4

LEMMA PathsAre ==
    ASSUME NEW daily \in Seq(Int)
    PROVE  \E u : /\ Walks(daily, Len(daily), u)
                  /\ Charts!Paths(daily) = IF Charts!Mode(daily) # "trend" THEN <<>> ELSE Ended(u[Len(daily)])
<1> DEFINE n == Len(daily)
           u == CHOOSE u : Walks(daily, n, u)
<1>1. Charts!Paths(daily) = IF Charts!Mode(daily) # "trend" THEN <<>> ELSE Ended(u[n])
    BY DEF Charts!Paths, Walks, Onto, Ended, Blank
<1>2. \E v : Walks(daily, n, v)
    <2>1. n \in Nat
        OBVIOUS
    <2> QED  BY <2>1, WalksExists
<1>3. Walks(daily, n, u)
    BY <1>2, Zenon
<1> HIDE DEF u
<1> QED  BY <1>1, <1>3

LEMMA TrafficIsTrue ==
    ASSUME NEW daily \in Seq(Int)
    PROVE  Charts!TrafficHolds(daily)
<1> SUFFICES ASSUME Charts!Mode(daily) = "trend"
             PROVE  LET paths == Charts!Paths(daily) on(k) == {paths[k][i] : i \in DOMAIN paths[k]} IN
                    /\ UNION {on(k) : k \in DOMAIN paths} = Charts!Valid(daily)
                    /\ \A k \in DOMAIN paths :
                          /\ on(k) = Charts!Min(on(k))..Charts!Max(on(k))
                          /\ Charts!Min(on(k)) - 1 \notin Charts!Valid(daily)
                          /\ Charts!Max(on(k)) + 1 \notin Charts!Valid(daily)
    BY DEF Charts!TrafficHolds
<1> DEFINE n == Len(daily)
           paths == Charts!Paths(daily)
<1>1. PICK u : Walks(daily, n, u) /\ paths = Ended(u[n])
    BY PathsAre
<1>2. Drawn(daily, n, u[n])
    BY <1>1, AllDrawn
<1>3. n \in 0..Len(daily) /\ n + 1 \notin Charts!Valid(daily) /\ {i \in Charts!Valid(daily) : i <= n} = Charts!Valid(daily)
    BY ValidDays
<1>4. (\A k \in DOMAIN paths : Stretch(daily, paths[k])) /\ Covered(paths) = Charts!Valid(daily)
    <2> HIDE DEF paths
    <2> QED  BY <1>1, <1>2, <1>3, EndedIsStretches
<1> HIDE DEF paths
<1>5. ASSUME NEW k \in DOMAIN paths
      PROVE  /\ On(paths[k]) = Charts!Min(On(paths[k]))..Charts!Max(On(paths[k]))
             /\ Charts!Min(On(paths[k])) - 1 \notin Charts!Valid(daily)
             /\ Charts!Max(On(paths[k])) + 1 \notin Charts!Valid(daily)
    <2>1. Stretch(daily, paths[k])
        BY <1>4
    <2>2. PICK a, b \in 1..Len(daily) :
              a <= b /\ On(paths[k]) = a..b /\ a - 1 \notin Charts!Valid(daily) /\ b + 1 \notin Charts!Valid(daily)
        BY <2>1 DEF Stretch
    <2>3. a..b \in SUBSET Int /\ a \in a..b /\ b \in a..b /\ (\A y \in a..b : a <= y) /\ (\A y \in a..b : b >= y)
        BY <2>2
    <2>4. Charts!Min(a..b) = a /\ Charts!Max(a..b) = b
        BY <2>3, MinIs, MaxIs
    <2> QED  BY <2>2, <2>4
<1> QED  BY <1>4, <1>5 DEF paths, On, Covered

LEMMA AnswerIsTrue ==
    ASSUME NEW answer, answer.asked \in Nat \ {0}, answer.start \in Int,
           answer.daily \in Seq([date : Int, pageLoads : Int, visits : Int])
    PROVE  Charts!AnswerHolds(answer)
<1> DEFINE rows == answer.daily
           n == answer.asked
           loads == [i \in DOMAIN rows |-> rows[i].pageLoads]
           visits == [i \in DOMAIN rows |-> rows[i].visits]
           Row == [date : Int, pageLoads : Int, visits : Int]
<1> SUFFICES ASSUME Charts!Taken(answer)
             PROVE  /\ answer.end - answer.start + 1 = n
                    /\ {rows[i].date : i \in DOMAIN rows} = answer.start..answer.end
                    /\ Charts!Valid(loads) = Charts!Valid(visits)
                    /\ Charts!Paths(loads) = Charts!Paths(visits)
    BY DEF Charts!AnswerHolds
<1>1. \A row \in Row : row.date \in Int /\ row.pageLoads \in Int /\ row.visits \in Int
    OBVIOUS
<1>2. Len(rows) = n /\ rows[Len(rows)].date = answer.end /\ \A i \in DOMAIN rows : Charts!RowTaken(answer, i)
    BY DEF Charts!Taken
<1>3. rows \in Seq(Row) /\ n \in Nat /\ n >= 1
    OBVIOUS
<1>4. DOMAIN rows = 1..n /\ \A i \in 1..n : rows[i] \in Row
    <2> HIDE DEF Row, rows
    <2> QED  BY <1>2, <1>3
<1>5. \A i \in 1..n : rows[i].date \in Int /\ rows[i].pageLoads \in Int /\ rows[i].visits \in Int
    <2> HIDE DEF Row, rows, n
    <2> QED  BY <1>1, <1>4
<1>6. \A i \in 1..n : /\ rows[i].date = answer.start + i - 1
                      /\ rows[i].pageLoads < 0 <=> rows[i].visits < 0
    <2> SUFFICES ASSUME NEW i \in 1..n
                 PROVE  rows[i].date = answer.start + i - 1 /\ (rows[i].pageLoads < 0 <=> rows[i].visits < 0)
        OBVIOUS
    <2>1. Charts!RowTaken(answer, i)
        BY <1>2, <1>4
    <2>2. /\ rows[i].date = answer.start + i - 1
          /\ (rows[i].pageLoads = -1 /\ rows[i].visits = -1) \/ (rows[i].pageLoads >= 0 /\ rows[i].visits >= 0)
        BY <2>1 DEF Charts!RowTaken
    <2> HIDE DEF rows, n
    <2> QED  BY <1>5, <2>2
<1> HIDE DEF rows, n, Row
<1>7. answer.end = answer.start + n - 1
    <2>1. n \in 1..n
        BY <1>3
    <2> QED  BY <1>2, <1>6, <2>1
<1>8. {rows[i].date : i \in DOMAIN rows} = answer.start..answer.end
    <2>1. ASSUME NEW i \in 1..n
          PROVE  rows[i].date \in answer.start..answer.end
        BY <1>3, <1>6, <1>7
    <2>2. ASSUME NEW d \in answer.start..answer.end
          PROVE  \E i \in 1..n : rows[i].date = d
        <3>1. d - answer.start + 1 \in 1..n /\ answer.start + (d - answer.start + 1) - 1 = d
            BY <1>3, <1>7
        <3> QED  BY <1>6, <3>1
    <2> QED  BY <1>4, <2>1, <2>2
<1>9. /\ loads \in Seq(Int) /\ Len(loads) = n /\ visits \in Seq(Int) /\ Len(visits) = n
      /\ \A i \in 1..n : loads[i] < 0 <=> visits[i] < 0
    <2>1. loads = [i \in 1..n |-> rows[i].pageLoads] /\ visits = [i \in 1..n |-> rows[i].visits]
        BY <1>4
    <2>2. loads \in [1..n -> Int] /\ visits \in [1..n -> Int]
        BY <1>5, <2>1
    <2>3. \A i \in 1..n : loads[i] < 0 <=> visits[i] < 0
        BY <1>6, <2>1
    <2> HIDE DEF loads, visits
    <2> QED  BY <1>3, <2>2, <2>3
<1> HIDE DEF loads, visits
<1>10. Charts!Valid(loads) = Charts!Valid(visits)
    <2>1. \A i : i \in Charts!Valid(loads) <=> i \in Charts!Valid(visits)
        BY <1>9, ValidDays
    <2> QED  BY <2>1
<1>11. Charts!Paths(loads) = Charts!Paths(visits)
    <2>1. PICK u : /\ Walks(loads, n, u)
                   /\ Charts!Paths(loads) = IF Charts!Mode(loads) # "trend" THEN <<>> ELSE Ended(u[n])
        BY <1>9, PathsAre
    <2>2. PICK v : /\ Walks(visits, n, v)
                   /\ Charts!Paths(visits) = IF Charts!Mode(visits) # "trend" THEN <<>> ELSE Ended(v[n])
        BY <1>9, PathsAre
    <2>3. Charts!Mode(loads) = Charts!Mode(visits)
        BY <1>10 DEF Charts!Mode
    <2>4. u[n] = v[n]
        <3>1. n \in Nat /\ (\A i \in 1..n : loads[i] < 0 <=> visits[i] < 0) /\ Walks(loads, n, u) /\ Walks(visits, n, v)
            BY <1>3, <1>9, <2>1, <2>2
        <3> QED  BY <3>1, WalksOnce, ZenonT(60)
    <2> QED  BY <2>1, <2>2, <2>3, <2>4
<1>12. answer.end - answer.start + 1 = n
    BY <1>3, <1>7
<1> QED  BY <1>8, <1>10, <1>11, <1>12 DEF rows, n, loads, visits

LEMMA ChartsShows ==
    ASSUME state \in Inputs
    PROVE  Charts!ChartsAreTrue
<1>1. CASE state.of = "scale" /\ state.total \in Nat
    BY <1>1, ScaleIsTrue DEF Charts!ChartsAreTrue
<1>2. CASE /\ state.of = "nearest" /\ state.xs \in Seq(Int) /\ state.x \in Int
           /\ \A i, j \in DOMAIN state.xs : i < j => state.xs[i] < state.xs[j]
    <2>1. Follow(state.xs)
        BY <1>2 DEF Follow
    <2>2. Charts!NearestHolds(state.xs, state.x)
        BY <1>2, <2>1, NearestIsTrue
    <2> QED  BY <1>2, <2>2 DEF Charts!ChartsAreTrue
<1>3. CASE /\ state.of = "tooltip" /\ state.x \in Int /\ state.width \in Nat /\ state.size \in Nat
           /\ state.touch \in BOOLEAN
    <2>1. Charts!TooltipHolds(state.x, state.width, state.size, state.touch)
        BY <1>3, TooltipIsTrue
    <2> QED  BY <1>3, <2>1 DEF Charts!ChartsAreTrue
<1>4. CASE /\ state.of = "growth" /\ state.points \in Seq([date : Int, total : Nat]) /\ state.points # <<>>
           /\ \A i, j \in DOMAIN state.points : i < j =>
                  state.points[i].date < state.points[j].date /\ state.points[i].total <= state.points[j].total
    <2>1. Dated(state.points) /\ Grow(state.points)
        BY <1>4 DEF Dated, Grow
    <2>2. Charts!GrowthHolds(state.points)
        BY <1>4, <2>1, GrowthIsTrue
    <2> QED  BY <1>4, <2>2 DEF Charts!ChartsAreTrue
<1>5. CASE state.of = "traffic" /\ state.daily \in Seq(Int)
    BY <1>5, TrafficIsTrue DEF Charts!ChartsAreTrue
<1>6. CASE /\ state.of = "answer" /\ state.answer.asked \in Nat \ {0} /\ state.answer.start \in Int
           /\ state.answer.daily \in Seq([date : Int, pageLoads : Int, visits : Int])
    <2>1. Charts!AnswerHolds(state.answer)
        BY <1>6, AnswerIsTrue
    <2> QED  BY <1>6, <2>1 DEF Charts!ChartsAreTrue
<1> QED  BY <1>1, <1>2, <1>3, <1>4, <1>5, <1>6, ChartsAssumption

LEMMA ChartsInit ==
    ASSUME Charts!Init
    PROVE  state \in Inputs
BY DEF Charts!Init

LEMMA ChartsStep ==
    ASSUME state \in Inputs, Charts!Next
    PROVE  state' \in Inputs
BY DEF Charts!Next


-----------------------------------------------------------------------------
(* The development site: what serves it is what was prepared last.          *)

DevProcs == [name : Dev!Names, state : {"up", "ending", "closed"}, serves : Nat]
DevBoxes ==
    [procs : Seq(DevProcs), listed : SUBSET Nat, running : [Dev!Names -> Nat], intentional : SUBSET Nat,
     stopping : BOOLEAN, code : Nat, victims : SUBSET Nat, finished : BOOLEAN,
     pc : {"wait", "prepare", "closing", "write", "over"}, generation : Nat, target : Nat, failed : BOOLEAN,
     latest : Nat, sound : BOOLEAN, prepared : Nat]

\* The processes: one of each name is the one that runs, and what lives is listed.
DevProcsGood(b) ==
    /\ \A i \in Dev!Live(b) : b.running[b.procs[i].name] = i
    /\ Dev!Live(b) \subseteq b.listed
    /\ b.intentional \subseteq DOMAIN b.procs
    /\ \A i \in Dev!Live(b) : b.procs[i].name = "PublicWeb" /\ i \notin b.intentional => b.procs[i].serves = b.prepared

\* The supervisor: a process that ended unasked made it stop, and what lives then is awaited.
DevStopGood(b) ==
    /\ ~b.stopping => \A i \in DOMAIN b.procs : b.procs[i].state = "closed" => i \in b.intentional
    /\ b.stopping => Dev!Live(b) \subseteq b.victims
    /\ b.finished => b.stopping /\ Dev!Live(b) = {}

\* The watcher: what it compares with is prepared, and it tries again while there is no site.
DevWatchGood(b) ==
    /\ b.generation = b.prepared /\ b.generation <= b.latest /\ b.target <= b.latest
    /\ b.pc = "prepare" => b.generation < b.latest
    /\ b.pc = "closing" => b.running["PublicWeb"] \in b.intentional
    /\ b.pc = "write" => b.running["PublicWeb"] \notin Dev!Live(b)
    /\ ~b.stopping /\ b.running["PublicWeb"] \in b.intentional =>
          b.generation < b.latest /\ (b.pc = "wait" => b.failed)

\* What there is of each name.
DevNamed(b) ==
    /\ DOMAIN b.procs # {}
    /\ b.running["PublicWeb"] \in DOMAIN b.procs /\ b.procs[b.running["PublicWeb"]].name = "PublicWeb"

DevGood(b) ==
    /\ b \in DevBoxes
    /\ DevNamed(b)
    /\ DevProcsGood(b)
    /\ DevStopGood(b)
    /\ DevWatchGood(b)

\* Everything but the processes, the restarts asked for and the supervisor is left alone.
DevSameWatch(c, b) ==
    /\ c.pc = b.pc /\ c.generation = b.generation /\ c.target = b.target /\ c.failed = b.failed
    /\ c.latest = b.latest /\ c.sound = b.sound /\ c.prepared = b.prepared

\* Some processes are no more, or about to be: each of c is that of b but for its state,
\* and what lives in c lived in b.
DevFewer(procs, b) ==
    /\ procs \in Seq(DevProcs) /\ DOMAIN procs = DOMAIN b.procs
    /\ \A i \in DOMAIN procs : /\ procs[i].name = b.procs[i].name /\ procs[i].serves = b.procs[i].serves
                               /\ b.procs[i].state = "closed" => procs[i].state = "closed"

\* The processes of b, those of ids now in the state given.
DevMappedTo(b, ids, to) ==
    [i \in DOMAIN b.procs |-> IF i \in ids THEN [b.procs[i] EXCEPT !.state = to] ELSE b.procs[i]]

LEMMA DevMapped ==
    ASSUME NEW b \in DevBoxes, NEW ids, NEW to \in {"ending", "closed"},
           to = "ending" => ids \subseteq Dev!Live(b)
    PROVE  LET procs == DevMappedTo(b, ids, to) IN
           /\ DevFewer(procs, b)
           /\ to = "ending" => \A i \in DOMAIN procs : procs[i].state = "closed" => b.procs[i].state = "closed"
           /\ to = "closed" => \A i \in DOMAIN procs : procs[i].state = "closed" => b.procs[i].state = "closed" \/ i \in ids
           /\ to = "closed" => \A i \in DOMAIN procs : i \in ids => procs[i].state = "closed"
<1> DEFINE procs == DevMappedTo(b, ids, to)
<1>1. b.procs \in Seq(DevProcs) /\ DOMAIN b.procs = 1..Len(b.procs) /\ Len(b.procs) \in Nat
    BY DEF DevBoxes
<1>2. \A i \in DOMAIN b.procs : b.procs[i] \in DevProcs
    BY <1>1
<1>3. ASSUME NEW i \in DOMAIN b.procs
      PROVE  /\ procs[i] \in DevProcs /\ procs[i].name = b.procs[i].name /\ procs[i].serves = b.procs[i].serves
             /\ i \in ids => procs[i].state = to
             /\ i \notin ids => procs[i].state = b.procs[i].state
    BY <1>2 DEF DevProcs, DevMappedTo
<1>4. DOMAIN procs = DOMAIN b.procs
    BY DEF DevMappedTo
<1>5. procs \in Seq(DevProcs)
    <2>1. procs \in [1..Len(b.procs) -> DevProcs]
        BY <1>1, <1>3 DEF DevMappedTo
    <2> QED  BY <1>1, <2>1
<1> HIDE DEF procs
<1>6. to = "ending" => \A i \in ids : b.procs[i].state # "closed"
    BY DEF Dev!Live
<1>7. DevFewer(procs, b)
    <2>1. \A i \in DOMAIN procs : b.procs[i].state = "closed" => procs[i].state = "closed"
        BY <1>3, <1>4, <1>6
    <2> QED  BY <1>3, <1>4, <1>5, <2>1 DEF DevFewer
<1>8. to = "ending" => \A i \in DOMAIN procs : procs[i].state = "closed" => b.procs[i].state = "closed"
    BY <1>3, <1>4
<1>9. to = "closed" => \A i \in DOMAIN procs : procs[i].state = "closed" => b.procs[i].state = "closed" \/ i \in ids
    BY <1>3, <1>4
<1>10. to = "closed" => \A i \in DOMAIN procs : i \in ids => procs[i].state = "closed"
    BY <1>3, <1>4
<1> QED  BY <1>7, <1>8, <1>9, <1>10 DEF procs

\* What is good of the processes stays good of fewer.
LEMMA DevFewerGood ==
    ASSUME NEW b, NEW procs, DevFewer(procs, b), DevProcsGood(b),
           NEW c, c.procs = procs, c.listed = b.listed, c.running = b.running, c.intentional = b.intentional, c.prepared = b.prepared
    PROVE  DevProcsGood(c) /\ Dev!Live(c) \subseteq Dev!Live(b)
<1>1. Dev!Live(c) \subseteq Dev!Live(b)
    BY DEF DevFewer, Dev!Live
<1>2. \A i \in Dev!Live(c) : c.procs[i].name = b.procs[i].name /\ c.procs[i].serves = b.procs[i].serves
    BY DEF DevFewer, Dev!Live
<1>3. DOMAIN c.procs = DOMAIN b.procs
    BY DEF DevFewer
<1>4. \A i \in Dev!Live(c) : c.running[c.procs[i].name] = i
    BY <1>1, <1>2 DEF DevProcsGood
<1>5. Dev!Live(c) \subseteq c.listed /\ c.intentional \subseteq DOMAIN c.procs
    BY <1>1, <1>3 DEF DevProcsGood
<1>6. \A i \in Dev!Live(c) : c.procs[i].name = "PublicWeb" /\ i \notin c.intentional => c.procs[i].serves = c.prepared
    BY <1>1, <1>2 DEF DevProcsGood
<1> QED  BY <1>1, <1>4, <1>5, <1>6 DEF DevProcsGood

\* Fewer processes, the rest as it was: the processes are as good, and so is the watcher.
LEMMA DevThinned ==
    ASSUME NEW b, DevGood(b), NEW procs, DevFewer(procs, b),
           NEW c \in DevBoxes, c.procs = procs, c.listed = b.listed, c.running = b.running, c.intentional = b.intentional,
           DevSameWatch(c, b), b.stopping => c.stopping
    PROVE  /\ DevNamed(c) /\ DevProcsGood(c) /\ DevWatchGood(c)
           /\ Dev!Live(c) \subseteq Dev!Live(b)
<1>1. Dev!Live(c) \subseteq Dev!Live(b) /\ DevProcsGood(c)
    BY DevFewerGood DEF DevGood, DevSameWatch
<1>2. DevNamed(c)
    BY DEF DevGood, DevNamed, DevFewer
<1>4. DevWatchGood(c)
    <2>1. b.stopping \in BOOLEAN /\ c.stopping \in BOOLEAN
        BY DEF DevGood, DevBoxes
    <2> QED  BY <1>1, <2>1 DEF DevGood, DevWatchGood, DevSameWatch
<1> QED  BY <1>1, <1>2, <1>4

\* The supervisor stops: what is listed gets its signal and is awaited.
LEMMA DevStops ==
    ASSUME NEW b, b \in DevBoxes, DevNamed(b), DevProcsGood(b), DevWatchGood(b), b.stopping => DevStopGood(b), NEW code \in Nat,
           b.finished => b.stopping
    PROVE  DevGood(Dev!Stopped(b, code))
<1>1. CASE b.stopping
    BY <1>1 DEF Dev!Stopped, DevGood
<1>2. CASE ~b.stopping
    <2> DEFINE ids   == b.listed \intersect Dev!Live(b)
               procs == DevMappedTo(b, ids, "ending")
               c     == [b EXCEPT !.procs = procs, !.stopping = TRUE, !.code = code, !.victims = b.listed]
    <2>1. Dev!Stopped(b, code) = c
        <3>1. Dev!Signalled(b, b.listed) = [b EXCEPT !.procs = procs]
            BY DEF Dev!Signalled, DevMappedTo
        <3> HIDE DEF procs
        <3> QED  BY <1>2, <3>1 DEF Dev!Stopped
    <2>2. DevFewer(procs, b)
        <3>1. ids \subseteq Dev!Live(b) /\ "ending" \in {"ending", "closed"}
            OBVIOUS
        <3> HIDE DEF ids
        <3> QED  BY <3>1, DevMapped
    <2> HIDE DEF procs
    <2>3. /\ c \in DevBoxes /\ c.procs = procs /\ c.listed = b.listed /\ c.running = b.running /\ c.intentional = b.intentional
          /\ DevSameWatch(c, b) /\ c.stopping = TRUE /\ c.victims = b.listed /\ c.finished = b.finished
        BY <2>2 DEF DevBoxes, DevSameWatch, DevFewer
    <2> HIDE DEF c
    <2>4. Dev!Live(c) \subseteq Dev!Live(b) /\ DevProcsGood(c)
        BY <2>2, <2>3, DevFewerGood DEF DevSameWatch
    <2>5. DevNamed(c)
        BY <2>2, <2>3 DEF DevNamed, DevFewer
    <2>7. DevWatchGood(c)
        BY <2>3, <2>4 DEF DevWatchGood, DevSameWatch
    <2>8. DevStopGood(c)
        BY <1>2, <2>3, <2>4 DEF DevStopGood, DevProcsGood, DevBoxes
    <2> QED  BY <2>1, <2>3, <2>4, <2>5, <2>7, <2>8 DEF DevGood
<1> QED  BY <1>1, <1>2

\* A process of a name nothing that lives has: it is the one that runs, and was not asked to end.
LEMMA DevLaunches ==
    ASSUME NEW b \in DevBoxes, DevProcsGood(b), NEW n \in Dev!Names, \A i \in Dev!Live(b) : b.procs[i].name # n
    PROVE  LET c == Dev!Launched(b, n)  new == Len(b.procs) + 1 IN
           /\ c \in DevBoxes /\ DevProcsGood(c) /\ DevSameWatch(c, b)
           /\ DOMAIN c.procs = DOMAIN b.procs \union {new} /\ new \notin DOMAIN b.procs
           /\ \A i \in DOMAIN b.procs : c.procs[i] = b.procs[i]
           /\ c.procs[new].name = n /\ c.procs[new].state = "up"
           /\ c.running[n] = new /\ \A m \in Dev!Names : m # n => c.running[m] = b.running[m]
           /\ c.intentional = b.intentional /\ new \notin b.intentional
           /\ c.stopping = b.stopping /\ c.finished = b.finished /\ c.victims = b.victims
<1> DEFINE new     == Len(b.procs) + 1
           proc    == [name |-> n, state |-> "up", serves |-> IF n = "PublicWeb" THEN b.prepared ELSE 0]
           procs   == Append(b.procs, proc)
           listed  == b.listed \union {new}
           running == [b.running EXCEPT ![n] = new]
           c       == [b EXCEPT !.procs = procs, !.listed = listed, !.running = running]
<1>1. b.procs \in Seq(DevProcs) /\ b.prepared \in Nat /\ b.running \in [Dev!Names -> Nat] /\ b.listed \subseteq Nat
    BY DEF DevBoxes
<1>2. /\ proc \in DevProcs /\ proc.name = n /\ proc.state = "up"
      /\ n = "PublicWeb" => proc.serves = b.prepared
    BY <1>1 DEF DevProcs
<1>3. Dev!Launched(b, n) = c
    BY DEF Dev!Launched
<1> HIDE DEF proc
<1>4. /\ procs \in Seq(DevProcs) /\ DOMAIN procs = DOMAIN b.procs \union {new} /\ new \notin DOMAIN b.procs
      /\ procs[new] = proc /\ new \in Nat
      /\ \A i \in DOMAIN b.procs : procs[i] = b.procs[i]
    <2>1. b.procs \in Seq(DevProcs) /\ proc \in DevProcs
        BY <1>1, <1>2
    <2>2. DOMAIN b.procs = 1..Len(b.procs) /\ Len(b.procs) \in Nat
        BY <2>1
    <2>3. /\ procs \in Seq(DevProcs) /\ Len(procs) = Len(b.procs) + 1 /\ procs[new] = proc
          /\ \A i \in 1..Len(b.procs) : procs[i] = b.procs[i]
        BY <2>1, AppendProperties
    <2>4. DOMAIN procs = 1..(Len(b.procs) + 1)
        BY <2>3
    <2> HIDE DEF procs
    <2> QED  BY <2>2, <2>3, <2>4
<1> HIDE DEF procs, new
<1>5. /\ running \in [Dev!Names -> Nat] /\ running[n] = new /\ \A m \in Dev!Names : m # n => running[m] = b.running[m]
      /\ listed \subseteq Nat
    BY <1>1, <1>4
<1> HIDE DEF running
<1>6. /\ c \in DevBoxes /\ c.procs = procs /\ c.listed = listed /\ c.running = running /\ DevSameWatch(c, b)
      /\ c.intentional = b.intentional /\ c.stopping = b.stopping /\ c.finished = b.finished /\ c.victims = b.victims
    BY <1>4, <1>5 DEF DevBoxes, DevSameWatch
<1> HIDE DEF c
<1>7. new \notin b.intentional
    BY <1>4 DEF DevProcsGood
<1>8. \A i \in Dev!Live(c) : \/ i = new
                             \/ i \in Dev!Live(b) /\ i \in DOMAIN b.procs /\ procs[i] = b.procs[i] /\ b.procs[i].name # n
    BY <1>4, <1>6 DEF Dev!Live
<1>9. DevProcsGood(c)
    <2>1. \A i \in Dev!Live(c) : c.running[c.procs[i].name] = i
        <3> SUFFICES ASSUME NEW i \in Dev!Live(c)  PROVE c.running[c.procs[i].name] = i
            OBVIOUS
        <3>1. CASE i = new
            BY <1>2, <1>4, <1>5, <1>6, <3>1
        <3>2. CASE i \in Dev!Live(b) /\ i \in DOMAIN b.procs /\ procs[i] = b.procs[i] /\ b.procs[i].name # n
            <4>1. b.procs[i].name \in Dev!Names
                <5>1. b.procs[i] \in DevProcs
                    BY <1>1, <3>2
                <5> QED  BY <5>1 DEF DevProcs
            <4> QED  BY <1>5, <1>6, <3>2, <4>1 DEF DevProcsGood
        <3> QED  BY <1>8, <3>1, <3>2
    <2>2. Dev!Live(c) \subseteq c.listed /\ c.intentional \subseteq DOMAIN c.procs
        BY <1>4, <1>6, <1>8 DEF DevProcsGood
    <2>3. \A i \in Dev!Live(c) : c.procs[i].name = "PublicWeb" /\ i \notin c.intentional => c.procs[i].serves = c.prepared
        <3> SUFFICES ASSUME NEW i \in Dev!Live(c), c.procs[i].name = "PublicWeb", i \notin c.intentional
                     PROVE  c.procs[i].serves = c.prepared
            OBVIOUS
        <3>1. c.procs[i] = procs[i] /\ c.prepared = b.prepared /\ c.intentional = b.intentional
            BY <1>6 DEF DevSameWatch
        <3>2. CASE i = new
            BY <1>2, <1>4, <3>1, <3>2
        <3>3. CASE i \in Dev!Live(b) /\ i \in DOMAIN b.procs /\ procs[i] = b.procs[i]
            BY <3>1, <3>3 DEF DevProcsGood
        <3> QED  BY <1>8, <3>2, <3>3
    <2> QED  BY <2>1, <2>2, <2>3 DEF DevProcsGood
<1> QED  BY <1>2, <1>3, <1>4, <1>5, <1>6, <1>7, <1>9 DEF new

LEMMA DevInit ==
    ASSUME Dev!Init
    PROVE  DevGood(state)
<1> DEFINE running == [n \in Dev!Names |-> 0]
           none(latest, sound, generation) ==
               [procs |-> <<>>, listed |-> {}, running |-> running, intentional |-> {},
                stopping |-> FALSE, code |-> 0, victims |-> {}, finished |-> FALSE,
                pc |-> "wait", generation |-> generation, target |-> 0, failed |-> FALSE,
                latest |-> latest, sound |-> sound, prepared |-> generation]
<1>1. PICK latest \in 0..1, sound \in BOOLEAN :
        state = Dev!Launched(Dev!Launched(Dev!Launched(none(latest, sound, IF sound THEN latest ELSE 0), "CMS"), "Admin"), "PublicWeb")
    BY DEF Dev!Init
<1> DEFINE generation == IF sound THEN latest ELSE 0
           b == none(latest, sound, generation)
           c == Dev!Launched(b, "CMS")
           d == Dev!Launched(c, "Admin")
           e == Dev!Launched(d, "PublicWeb")
<1>2. generation \in Nat /\ generation <= latest /\ latest \in Nat
    OBVIOUS
<1>3. running \in [Dev!Names -> Nat] /\ <<>> \in Seq(DevProcs) /\ DOMAIN <<>> = {} /\ {} \in SUBSET Nat
      /\ "CMS" \in Dev!Names /\ "Admin" \in Dev!Names /\ "PublicWeb" \in Dev!Names
    BY EmptySeq DEF Dev!Names
<1> HIDE DEF generation, running
<1>4. /\ b \in DevBoxes /\ b.procs = <<>> /\ b.intentional = {} /\ b.stopping = FALSE /\ b.finished = FALSE
      /\ b.pc = "wait" /\ b.generation = generation /\ b.prepared = generation /\ b.latest = latest /\ b.target = 0
    BY <1>2, <1>3 DEF DevBoxes
<1> HIDE DEF b
<1>5. Dev!Live(b) = {}
    BY <1>3, <1>4 DEF Dev!Live
<1>6. DevProcsGood(b)
    BY <1>3, <1>4, <1>5 DEF DevProcsGood
<1>7. /\ c \in DevBoxes /\ DevProcsGood(c) /\ DevSameWatch(c, b)
      /\ \A i \in DOMAIN c.procs : c.procs[i].name = "CMS" /\ c.procs[i].state = "up"
      /\ c.intentional = {} /\ c.stopping = FALSE /\ c.finished = FALSE
    <2> DEFINE new == Len(b.procs) + 1
    <2>1. "CMS" \in Dev!Names /\ \A i \in Dev!Live(b) : b.procs[i].name # "CMS"
        BY <1>3, <1>5
    <2>2. /\ c \in DevBoxes /\ DevProcsGood(c) /\ DevSameWatch(c, b)
          /\ DOMAIN c.procs = DOMAIN b.procs \union {new}
          /\ c.procs[new].name = "CMS" /\ c.procs[new].state = "up"
          /\ c.intentional = b.intentional
          /\ c.stopping = b.stopping /\ c.finished = b.finished
        BY <1>4, <1>6, <2>1, DevLaunches
    <2>3. DOMAIN b.procs = {}
        BY <1>3, <1>4
    <2> HIDE DEF new, c
    <2> QED  BY <1>4, <2>2, <2>3
<1> HIDE DEF c
<1>8. \A i \in Dev!Live(c) : c.procs[i].name # "Admin"
    BY <1>7 DEF Dev!Live
<1>9. /\ d \in DevBoxes /\ DevProcsGood(d) /\ DevSameWatch(d, c)
      /\ \A i \in DOMAIN d.procs : d.procs[i].name # "PublicWeb" /\ d.procs[i].state = "up"
      /\ d.intentional = {} /\ d.stopping = FALSE /\ d.finished = FALSE
    <2> DEFINE new == Len(c.procs) + 1
    <2>1. /\ d \in DevBoxes /\ DevProcsGood(d) /\ DevSameWatch(d, c)
          /\ DOMAIN d.procs = DOMAIN c.procs \union {new}
          /\ \A i \in DOMAIN c.procs : d.procs[i] = c.procs[i]
          /\ d.procs[new].name = "Admin" /\ d.procs[new].state = "up"
          /\ d.intentional = c.intentional
          /\ d.stopping = c.stopping /\ d.finished = c.finished
        BY <1>3, <1>7, <1>8, DevLaunches
    <2> HIDE DEF new, d
    <2> QED  BY <1>7, <2>1
<1> HIDE DEF d
<1>10. \A i \in Dev!Live(d) : d.procs[i].name # "PublicWeb"
    BY <1>9 DEF Dev!Live
<1>11. /\ e \in DevBoxes /\ DevProcsGood(e) /\ DevSameWatch(e, d) /\ DevNamed(e)
       /\ \A i \in DOMAIN e.procs : e.procs[i].state = "up"
       /\ e.intentional = {} /\ e.stopping = FALSE /\ e.finished = FALSE
    <2> DEFINE new == Len(d.procs) + 1
    <2>1. /\ e \in DevBoxes /\ DevProcsGood(e) /\ DevSameWatch(e, d)
          /\ DOMAIN e.procs = DOMAIN d.procs \union {new}
          /\ \A i \in DOMAIN d.procs : e.procs[i] = d.procs[i]
          /\ e.procs[new].name = "PublicWeb" /\ e.procs[new].state = "up"
          /\ e.running["PublicWeb"] = new
          /\ e.intentional = d.intentional
          /\ e.stopping = d.stopping /\ e.finished = d.finished
        BY <1>3, <1>9, <1>10, DevLaunches
    <2> HIDE DEF new, e
    <2> QED  BY <1>9, <2>1 DEF DevNamed
<1> HIDE DEF e
<1>12. DevStopGood(e)
    BY <1>11 DEF DevStopGood
<1>13. DevWatchGood(e)
    <2>1. /\ e.pc = "wait" /\ e.generation = generation /\ e.prepared = generation /\ e.latest = latest /\ e.target = 0
          /\ e.intentional = {}
        BY <1>4, <1>7, <1>9, <1>11 DEF DevSameWatch
    <2> QED  BY <1>2, <2>1 DEF DevWatchGood
<1>14. state = e
    BY <1>1 DEF b, c, d, e, generation
<1> QED  BY <1>11, <1>12, <1>13, <1>14 DEF DevGood

\* The watcher or the storage moved; the processes and the supervisor did not.
LEMMA DevMoves ==
    ASSUME NEW b, DevGood(b), NEW c \in DevBoxes, DevWatchGood(c),
           c.procs = b.procs, c.listed = b.listed, c.running = b.running, c.intentional = b.intentional,
           c.prepared = b.prepared, c.stopping = b.stopping, c.victims = b.victims, c.finished = b.finished
    PROVE  DevGood(c)
<1>1. Dev!Live(c) = Dev!Live(b)
    BY DEF Dev!Live
<1>2. DevNamed(c)
    BY DEF DevGood, DevNamed
<1>3. DevProcsGood(c)
    BY <1>1 DEF DevGood, DevProcsGood
<1>4. DevStopGood(c)
    BY <1>1 DEF DevGood, DevStopGood
<1> QED  BY <1>2, <1>3, <1>4 DEF DevGood

\* What no step of the storage or of a poll touches.
DevUntouched(c, b) ==
    /\ c.procs = b.procs /\ c.listed = b.listed /\ c.running = b.running /\ c.intentional = b.intentional
    /\ c.prepared = b.prepared /\ c.stopping = b.stopping /\ c.victims = b.victims /\ c.finished = b.finished
    /\ c.generation = b.generation /\ c.target = b.target

LEMMA DevStorage ==
    ASSUME DevGood(state), Dev!Publish \/ Dev!Repair \/ Dev!Poll \/ Dev!WriteFails
    PROVE  DevGood(state')
<1>0. state \in DevBoxes /\ DevWatchGood(state) /\ state.latest \in Nat /\ state.generation \in Nat /\ state.target \in Nat
    BY DEF DevGood, DevBoxes
<1>1. ASSUME NEW c \in DevBoxes, DevUntouched(c, state), c.latest >= state.latest,
             c.pc = "prepare" => c.generation < c.latest,
             c.pc \in {"closing", "write"} => c.pc = state.pc,
             c.running["PublicWeb"] \in c.intentional /\ ~c.stopping /\ c.pc = "wait" => c.failed
      PROVE  DevGood(c)
    <2>1. Dev!Live(c) = Dev!Live(state) /\ c.latest \in Nat
        BY <1>1 DEF Dev!Live, DevUntouched, DevBoxes
    <2>2. c.generation = c.prepared /\ c.generation <= c.latest /\ c.target <= c.latest
        BY <1>0, <1>1, <2>1 DEF DevWatchGood, DevUntouched
    <2>3. /\ c.pc = "closing" => c.running["PublicWeb"] \in c.intentional
          /\ c.pc = "write" => c.running["PublicWeb"] \notin Dev!Live(c)
        BY <1>0, <1>1, <2>1 DEF DevWatchGood, DevUntouched
    <2>4. ~c.stopping /\ c.running["PublicWeb"] \in c.intentional => c.generation < c.latest /\ (c.pc = "wait" => c.failed)
        BY <1>0, <1>1, <2>1 DEF DevWatchGood, DevUntouched
    <2>5. DevWatchGood(c)
        BY <1>1, <2>2, <2>3, <2>4 DEF DevWatchGood
    <2> QED  BY <1>1, <2>5, DevMoves DEF DevUntouched
<1>2. CASE Dev!Publish
    <2>1. PICK sound \in BOOLEAN : state' = [state EXCEPT !.latest = @ + 1, !.sound = sound]
        BY <1>2 DEF Dev!Publish
    <2> DEFINE latest == state.latest + 1
               c      == [state EXCEPT !.latest = latest, !.sound = sound]
    <2>2. latest \in Nat /\ latest > state.latest /\ state' = c
        BY <1>0, <2>1
    <2> HIDE DEF latest
    <2>3. c \in DevBoxes /\ DevUntouched(c, state) /\ c.latest = latest /\ c.pc = state.pc /\ c.failed = state.failed
        BY <1>0, <2>2 DEF DevBoxes, DevUntouched
    <2> HIDE DEF c
    <2>4. c.pc = "prepare" => c.generation < c.latest
        BY <1>0, <2>2, <2>3 DEF DevWatchGood, DevUntouched
    <2>5. c.running["PublicWeb"] \in c.intentional /\ ~c.stopping /\ c.pc = "wait" => c.failed
        BY <1>0, <2>3 DEF DevWatchGood, DevUntouched
    <2> QED  BY <1>1, <2>2, <2>3, <2>4, <2>5, <1>0
<1>3. CASE Dev!Repair
    <2> DEFINE c == [state EXCEPT !.sound = TRUE]
    <2>1. state' = c
        BY <1>3 DEF Dev!Repair
    <2>2. c \in DevBoxes /\ DevUntouched(c, state) /\ c.latest = state.latest /\ c.pc = state.pc /\ c.failed = state.failed
        BY <1>0 DEF DevBoxes, DevUntouched
    <2> HIDE DEF c
    <2>3. c.pc = "prepare" => c.generation < c.latest
        BY <1>0, <2>2 DEF DevWatchGood, DevUntouched
    <2>4. c.running["PublicWeb"] \in c.intentional /\ ~c.stopping /\ c.pc = "wait" => c.failed
        BY <1>0, <2>2 DEF DevWatchGood, DevUntouched
    <2> QED  BY <1>1, <2>1, <2>2, <2>3, <2>4, <1>0
<1>4. CASE Dev!Poll \/ Dev!WriteFails
    <2>1. PICK pc \in {"wait", "prepare"}, failed \in BOOLEAN :
            /\ state' = IF pc = "wait" THEN Dev!Waits(state, failed) ELSE [state EXCEPT !.pc = "prepare"]
            /\ pc = "prepare" => state.latest # state.generation
            /\ pc = "wait" /\ ~failed => state.latest = state.generation
        <3>1. CASE Dev!WriteFails
            BY <3>1 DEF Dev!WriteFails
        <3>2. CASE Dev!Poll /\ (state.latest = 0 \/ ~state.sound)
            BY <3>2 DEF Dev!Poll
        <3>3. CASE Dev!Poll /\ ~(state.latest = 0 \/ ~state.sound) /\ state.latest = state.generation
            BY <3>3 DEF Dev!Poll
        <3>4. CASE Dev!Poll /\ ~(state.latest = 0 \/ ~state.sound) /\ state.latest # state.generation
            BY <3>4 DEF Dev!Poll
        <3> QED  BY <1>4, <3>1, <3>2, <3>3, <3>4
    <2>2. CASE pc = "wait"
        <3> DEFINE c == [state EXCEPT !.pc = "wait", !.failed = failed]
        <3>1. state' = c
            BY <2>1, <2>2 DEF Dev!Waits
        <3>2. c \in DevBoxes /\ DevUntouched(c, state) /\ c.latest = state.latest /\ c.pc = "wait" /\ c.failed = failed
            BY <1>0 DEF DevBoxes, DevUntouched
        <3> HIDE DEF c
        <3>3. c.running["PublicWeb"] \in c.intentional /\ ~c.stopping => c.failed
            BY <1>0, <2>1, <2>2, <3>2 DEF DevWatchGood, DevUntouched
        <3> QED  BY <1>0, <1>1, <3>1, <3>2, <3>3
    <2>3. CASE pc = "prepare"
        <3> DEFINE c == [state EXCEPT !.pc = "prepare"]
        <3>1. state' = c
            BY <2>1, <2>3
        <3>2. c \in DevBoxes /\ DevUntouched(c, state) /\ c.latest = state.latest /\ c.pc = "prepare"
            BY <1>0 DEF DevBoxes, DevUntouched
        <3> HIDE DEF c
        <3>3. c.generation < c.latest
            BY <1>0, <2>1, <2>3, <3>2 DEF DevWatchGood, DevUntouched
        <3> QED  BY <1>0, <1>1, <3>1, <3>2, <3>3
    <2> QED  BY <2>2, <2>3
<1> QED  BY <1>2, <1>3, <1>4

LEMMA DevEnds ==
    ASSUME DevGood(state), Dev!Exits \/ Dev!Kill
    PROVE  DevGood(state')
<1>0. state \in DevBoxes /\ DevWatchGood(state) /\ DevStopGood(state)
    BY DEF DevGood
<1>1. ASSUME NEW ids
      PROVE  LET c == [state EXCEPT !.procs = DevMappedTo(state, ids, "closed")] IN
             /\ c \in DevBoxes /\ DevNamed(c) /\ DevProcsGood(c) /\ DevWatchGood(c)
             /\ c.stopping = state.stopping /\ c.finished = state.finished
             /\ state.stopping => DevStopGood(c)
             /\ ids \subseteq state.intentional => DevStopGood(c)
    <2> DEFINE procs == DevMappedTo(state, ids, "closed")
               c     == [state EXCEPT !.procs = procs]
    <2>1. /\ DevFewer(procs, state)
          /\ \A i \in DOMAIN procs : procs[i].state = "closed" => state.procs[i].state = "closed" \/ i \in ids
        BY <1>0, DevMapped
    <2> HIDE DEF procs
    <2>2. /\ c \in DevBoxes /\ c.procs = procs /\ c.listed = state.listed /\ c.running = state.running
          /\ c.intentional = state.intentional /\ DevSameWatch(c, state)
          /\ c.stopping = state.stopping /\ c.victims = state.victims /\ c.finished = state.finished
        BY <1>0, <2>1 DEF DevBoxes, DevSameWatch, DevFewer
    <2> HIDE DEF c
    <2>3. DevNamed(c) /\ DevProcsGood(c) /\ DevWatchGood(c) /\ Dev!Live(c) \subseteq Dev!Live(state)
        BY <2>1, <2>2, DevThinned
    <2>4. state.stopping => DevStopGood(c)
        BY <1>0, <2>2, <2>3 DEF DevStopGood
    <2>5. ids \subseteq state.intentional => DevStopGood(c)
        BY <1>0, <2>1, <2>2, <2>3 DEF DevStopGood, DevFewer
    <2> QED  BY <2>2, <2>3, <2>4, <2>5 DEF c, procs
<1>2. CASE Dev!Exits
    <2>1. PICK i \in Dev!Live(state) : LET b == [state EXCEPT !.procs[i].state = "closed"] IN
            state' = IF i \in state.intentional THEN b ELSE Dev!Stopped(b, 1)
        BY <1>2 DEF Dev!Exits
    <2> DEFINE c == [state EXCEPT !.procs = DevMappedTo(state, {i}, "closed")]
    <2>2. [state EXCEPT !.procs[i].state = "closed"] = c
        <3>1. i \in DOMAIN state.procs
            BY DEF Dev!Live
        <3>2. [state.procs EXCEPT ![i] = [state.procs[i] EXCEPT !.state = "closed"]] = DevMappedTo(state, {i}, "closed")
            BY <3>1 DEF DevMappedTo
        <3>3. [state EXCEPT !.procs[i].state = "closed"]
              = [state EXCEPT !.procs = [state.procs EXCEPT ![i] = [state.procs[i] EXCEPT !.state = "closed"]]]
            OBVIOUS
        <3> QED  BY <3>2, <3>3
    <2>3. /\ c \in DevBoxes /\ DevNamed(c) /\ DevProcsGood(c) /\ DevWatchGood(c)
          /\ c.stopping = state.stopping /\ c.finished = state.finished
          /\ state.stopping => DevStopGood(c)
          /\ {i} \subseteq state.intentional => DevStopGood(c)
        BY <1>1
    <2> HIDE DEF c
    <2>4. state.finished => state.stopping
        BY <1>0 DEF DevStopGood
    <2>5. i \notin state.intentional => DevGood(Dev!Stopped(c, 1))
        BY <2>3, <2>4, DevStops
    <2>6. i \in state.intentional => DevGood(c)
        BY <2>3 DEF DevGood
    <2> QED  BY <2>1, <2>2, <2>5, <2>6
<1>3. CASE Dev!Kill
    <2>1. state' = [state EXCEPT !.procs = DevMappedTo(state, state.victims, "closed")] /\ state.stopping
        BY <1>3 DEF Dev!Kill, DevMappedTo
    <2> QED  BY <1>1, <2>1 DEF DevGood
<1> QED  BY <1>2, <1>3

LEMMA DevSupervises ==
    ASSUME DevGood(state), Dev!Interrupt \/ Dev!Finish
    PROVE  DevGood(state')
<1>0. state \in DevBoxes /\ DevNamed(state) /\ DevProcsGood(state) /\ DevWatchGood(state) /\ DevStopGood(state)
    BY DEF DevGood
<1>1. CASE Dev!Interrupt
    <2>1. PICK code \in {130, 143} : state' = Dev!Stopped(state, code)
        BY <1>1 DEF Dev!Interrupt
    <2>2. code \in Nat /\ (state.finished => state.stopping)
        BY <1>0 DEF DevStopGood
    <2> QED  BY <1>0, <2>1, <2>2, DevStops
<1>2. CASE Dev!Finish
    <2> DEFINE c == [state EXCEPT !.finished = TRUE]
    <2>1. state' = c /\ state.stopping /\ Dev!Live(state) = {}
        BY <1>0, <1>2 DEF Dev!Finish, DevStopGood
    <2>2. /\ c \in DevBoxes /\ c.procs = state.procs /\ c.listed = state.listed /\ c.running = state.running
          /\ c.intentional = state.intentional /\ DevSameWatch(c, state)
          /\ c.stopping = state.stopping /\ c.victims = state.victims
        BY <1>0 DEF DevBoxes, DevSameWatch
    <2> HIDE DEF c
    <2>3. DevFewer(state.procs, state)
        BY <1>0 DEF DevFewer, DevBoxes
    <2>4. DevNamed(c) /\ DevProcsGood(c) /\ DevWatchGood(c) /\ Dev!Live(c) = {}
        BY <2>1, <2>2, <2>3, DevThinned
    <2>5. DevStopGood(c)
        BY <2>1, <2>2, <2>4 DEF DevStopGood
    <2> QED  BY <2>1, <2>2, <2>4, <2>5 DEF DevGood
<1> QED  BY <1>1, <1>2

LEMMA DevPrepares ==
    ASSUME DevGood(state), Dev!Prepare
    PROVE  DevGood(state')
<1>0. /\ state \in DevBoxes /\ DevNamed(state) /\ DevProcsGood(state) /\ DevWatchGood(state) /\ DevStopGood(state)
      /\ state.latest \in Nat /\ state.pc = "prepare"
    BY DEF DevGood, DevBoxes, Dev!Prepare
<1> DEFINE web == state.running["PublicWeb"]
           b   == [state EXCEPT !.target = state.latest]
<1>1. state' = IF ~state.sound THEN Dev!Waits(b, TRUE)
               ELSE IF state.stopping THEN [b EXCEPT !.pc = "over"]
               ELSE [Dev!Signalled(b, {web}) EXCEPT !.pc = "closing", !.intentional = @ \union {web}]
    BY DEF Dev!Prepare
<1>2. ASSUME NEW pc \in {"wait", "over"}, NEW failed \in BOOLEAN, pc = "wait" => failed,
             state' = [state EXCEPT !.target = state.latest, !.pc = pc, !.failed = failed]
      PROVE  DevGood(state')
    <2> DEFINE c == [state EXCEPT !.target = state.latest, !.pc = pc, !.failed = failed]
    <2>1. /\ c \in DevBoxes /\ c.procs = state.procs /\ c.listed = state.listed /\ c.running = state.running
          /\ c.intentional = state.intentional /\ c.stopping = state.stopping /\ c.victims = state.victims
          /\ c.finished = state.finished /\ c.prepared = state.prepared /\ c.generation = state.generation
          /\ c.latest = state.latest /\ c.target = state.latest /\ c.pc = pc /\ c.failed = failed
        BY <1>0 DEF DevBoxes
    <2>2. state' = c
        BY <1>2
    <2> HIDE DEF c
    <2>3. DevWatchGood(c)
        BY <1>0, <1>2, <2>1 DEF DevWatchGood
    <2> QED  BY <2>1, <2>2, <2>3, DevMoves
<1>3. CASE ~state.sound
    <2>1. state' = [state EXCEPT !.target = state.latest, !.pc = "wait", !.failed = TRUE]
        BY <1>1, <1>3 DEF Dev!Waits
    <2> QED  BY <1>2, <2>1
<1>4. CASE state.sound /\ state.stopping
    <2>1. state' = [b EXCEPT !.pc = "over"] /\ state.failed \in BOOLEAN
        BY <1>0, <1>1, <1>4 DEF DevBoxes
    <2>2. [b EXCEPT !.pc = "over"] = [state EXCEPT !.target = state.latest, !.pc = "over", !.failed = state.failed]
        BY <1>0 DEF DevBoxes
    <2> QED  BY <1>2, <2>1, <2>2
<1>5. CASE state.sound /\ ~state.stopping
    <2> DEFINE ids   == {web} \intersect Dev!Live(state)
               procs == DevMappedTo(state, ids, "ending")
               asked == state.intentional \union {web}
               c     == [state EXCEPT !.procs = procs, !.target = state.latest, !.pc = "closing", !.intentional = asked]
    <2>1. state' = c
        <3>1. Dev!Signalled(b, {web}) = [b EXCEPT !.procs = procs]
            BY DEF Dev!Signalled, DevMappedTo, Dev!Live
        <3> HIDE DEF procs
        <3>2. state' = [[b EXCEPT !.procs = procs] EXCEPT !.pc = "closing", !.intentional = @ \union {web}]
            BY <1>1, <1>5, <3>1
        <3> QED  BY <3>2
    <2>2. /\ DevFewer(procs, state)
          /\ \A i \in DOMAIN procs : procs[i].state = "closed" => state.procs[i].state = "closed"
        <3>1. ids \subseteq Dev!Live(state) /\ "ending" \in {"ending", "closed"}
            OBVIOUS
        <3> HIDE DEF ids
        <3> QED  BY <1>0, <3>1, DevMapped
    <2>3. /\ web \in Nat /\ web \in DOMAIN state.procs
          /\ asked \subseteq Nat /\ state.intentional \subseteq asked /\ asked \subseteq DOMAIN state.procs /\ web \in asked
        BY <1>0 DEF DevBoxes, DevNamed, DevProcsGood, Dev!Names
    <2> HIDE DEF procs, asked, web
    <2>4. /\ c \in DevBoxes /\ c.procs = procs /\ c.listed = state.listed /\ c.running = state.running
          /\ c.intentional = asked /\ c.stopping = state.stopping /\ c.victims = state.victims
          /\ c.finished = state.finished /\ c.prepared = state.prepared /\ c.generation = state.generation
          /\ c.latest = state.latest /\ c.target = state.latest /\ c.pc = "closing"
        BY <1>0, <2>2, <2>3 DEF DevBoxes, DevFewer
    <2> HIDE DEF c
    <2>5. DevNamed(c)
        BY <1>0, <2>2, <2>4 DEF DevNamed, DevFewer
    <2>6. Dev!Live(c) \subseteq Dev!Live(state) /\ DOMAIN c.procs = DOMAIN state.procs
        BY <2>2, <2>4 DEF DevFewer, Dev!Live
    <2>7. DevProcsGood(c)
        <3>1. \A i \in Dev!Live(c) : c.procs[i].name = state.procs[i].name /\ c.procs[i].serves = state.procs[i].serves
            BY <2>2, <2>4 DEF DevFewer, Dev!Live
        <3>2. \A i \in Dev!Live(c) : c.running[c.procs[i].name] = i
            BY <1>0, <2>4, <2>6, <3>1 DEF DevProcsGood
        <3>3. Dev!Live(c) \subseteq c.listed /\ c.intentional \subseteq DOMAIN c.procs
            BY <1>0, <2>3, <2>4, <2>6 DEF DevProcsGood
        <3>4. \A i \in Dev!Live(c) : c.procs[i].name = "PublicWeb" /\ i \notin c.intentional => c.procs[i].serves = c.prepared
            BY <1>0, <2>3, <2>4, <2>6, <3>1 DEF DevProcsGood
        <3> QED  BY <3>2, <3>3, <3>4 DEF DevProcsGood
    <2>8. DevStopGood(c)
        BY <1>0, <1>5, <2>2, <2>3, <2>4, <2>6 DEF DevStopGood
    <2>9. DevWatchGood(c)
        BY <1>0, <2>3, <2>4 DEF DevWatchGood, web
    <2> QED  BY <2>1, <2>4, <2>5, <2>7, <2>8, <2>9 DEF DevGood
<1> QED  BY <1>0, <1>3, <1>4, <1>5

LEMMA DevCloses ==
    ASSUME DevGood(state), Dev!Closed
    PROVE  DevGood(state')
<1> DEFINE web    == state.running["PublicWeb"]
           listed == state.listed \ {web}
           pc     == IF state.stopping THEN "over" ELSE "write"
           c      == [state EXCEPT !.listed = listed, !.pc = pc]
<1>0. /\ state \in DevBoxes /\ DevNamed(state) /\ DevProcsGood(state) /\ DevWatchGood(state) /\ DevStopGood(state)
      /\ state.pc = "closing" /\ web \notin Dev!Live(state) /\ state' = c
    BY DEF DevGood, Dev!Closed
<1>1. /\ listed \in SUBSET Nat /\ Dev!Live(state) \subseteq listed
      /\ pc \in {"over", "write"}
    BY <1>0 DEF DevBoxes, DevProcsGood
<1> HIDE DEF listed, pc
<1>2. /\ c \in DevBoxes /\ c.procs = state.procs /\ c.listed = listed /\ c.running = state.running
      /\ c.intentional = state.intentional /\ c.stopping = state.stopping /\ c.victims = state.victims
      /\ c.finished = state.finished /\ c.prepared = state.prepared /\ c.generation = state.generation
      /\ c.latest = state.latest /\ c.target = state.target /\ c.pc = pc
    BY <1>0, <1>1 DEF DevBoxes
<1> HIDE DEF c
<1>3. Dev!Live(c) = Dev!Live(state)
    BY <1>2 DEF Dev!Live
<1>4. DevNamed(c)
    BY <1>0, <1>2 DEF DevNamed
<1>5. DevProcsGood(c)
    BY <1>0, <1>1, <1>2, <1>3 DEF DevProcsGood
<1>6. DevStopGood(c)
    BY <1>0, <1>2, <1>3 DEF DevStopGood
<1>7. DevWatchGood(c)
    BY <1>0, <1>1, <1>2, <1>3 DEF DevWatchGood
<1> QED  BY <1>0, <1>2, <1>4, <1>5, <1>6, <1>7 DEF DevGood

LEMMA DevWrites ==
    ASSUME DevGood(state), Dev!Write
    PROVE  DevGood(state')
<1> DEFINE b == [state EXCEPT !.pc = "wait", !.failed = FALSE, !.prepared = state.target, !.generation = state.target]
<1>0. /\ state \in DevBoxes /\ DevNamed(state) /\ DevProcsGood(state) /\ DevWatchGood(state) /\ DevStopGood(state)
      /\ state.pc = "write" /\ state.target \in Nat /\ state.target <= state.latest
    BY DEF DevGood, DevBoxes, DevWatchGood, Dev!Write
<1>1. state' = IF ~state.stopping THEN Dev!Launched(b, "PublicWeb") ELSE b
    <2>1. [Dev!Waits(state, FALSE) EXCEPT !.prepared = state.target, !.generation = state.target] = b
        BY DEF Dev!Waits
    <2>2. b.stopping = state.stopping
        BY <1>0 DEF DevBoxes
    <2> HIDE DEF b
    <2> QED  BY <2>1, <2>2 DEF Dev!Write, Dev!MayLaunch
<1>2. /\ b \in DevBoxes /\ b.procs = state.procs /\ b.listed = state.listed /\ b.running = state.running
      /\ b.intentional = state.intentional /\ b.stopping = state.stopping /\ b.victims = state.victims
      /\ b.finished = state.finished /\ b.prepared = state.target /\ b.generation = state.target
      /\ b.latest = state.latest /\ b.target = state.target /\ b.pc = "wait"
    BY <1>0 DEF DevBoxes
<1> HIDE DEF b
<1>3. Dev!Live(b) = Dev!Live(state)
    BY <1>2 DEF Dev!Live
<1>4. \A i \in Dev!Live(state) : state.procs[i].name # "PublicWeb"
    BY <1>0 DEF DevProcsGood, DevWatchGood
<1>5. DevProcsGood(b)
    BY <1>0, <1>2, <1>3, <1>4 DEF DevProcsGood
<1>6. CASE state.stopping
    <2>1. DevNamed(b)
        BY <1>0, <1>2 DEF DevNamed
    <2>2. DevStopGood(b)
        BY <1>0, <1>2, <1>3 DEF DevStopGood
    <2>3. DevWatchGood(b)
        BY <1>0, <1>2, <1>6 DEF DevWatchGood
    <2> QED  BY <1>1, <1>2, <1>5, <1>6, <2>1, <2>2, <2>3 DEF DevGood
<1>7. CASE ~state.stopping
    <2> DEFINE c   == Dev!Launched(b, "PublicWeb")
               new == Len(b.procs) + 1
    <2>1. "PublicWeb" \in Dev!Names /\ \A i \in Dev!Live(b) : b.procs[i].name # "PublicWeb"
        BY <1>2, <1>3, <1>4 DEF Dev!Names
    <2>2. /\ c \in DevBoxes /\ DevProcsGood(c) /\ DevSameWatch(c, b)
          /\ DOMAIN c.procs = DOMAIN b.procs \union {new} /\ new \notin DOMAIN b.procs
          /\ \A i \in DOMAIN b.procs : c.procs[i] = b.procs[i]
          /\ c.procs[new].name = "PublicWeb" /\ c.procs[new].state = "up"
          /\ c.running["PublicWeb"] = new
          /\ c.intentional = b.intentional /\ new \notin b.intentional
          /\ c.stopping = b.stopping /\ c.finished = b.finished /\ c.victims = b.victims
        BY <1>2, <1>5, <2>1, DevLaunches
    <2> HIDE DEF c, new
    <2>3. DevNamed(c)
        BY <2>2 DEF DevNamed
    <2>4. DevStopGood(c)
        <3>1. \A i \in DOMAIN c.procs : c.procs[i].state = "closed" => i \in DOMAIN state.procs /\ state.procs[i].state = "closed"
            BY <1>2, <2>2
        <3> QED  BY <1>0, <1>2, <1>7, <2>2, <3>1 DEF DevStopGood
    <2>5. DevWatchGood(c)
        BY <1>0, <1>2, <2>2 DEF DevWatchGood, DevSameWatch
    <2> QED  BY <1>1, <1>7, <2>2, <2>3, <2>4, <2>5 DEF DevGood, c
<1> QED  BY <1>6, <1>7

LEMMA DevStep ==
    ASSUME DevGood(state), Dev!Next
    PROVE  DevGood(state')
BY DevStorage, DevEnds, DevSupervises, DevPrepares, DevCloses, DevWrites DEF Dev!Next

LEMMA DevShows ==
    ASSUME DevGood(state)
    PROVE  Dev!SiteIsWhatWasPrepared
<1>0. state \in DevBoxes /\ DevNamed(state) /\ DevProcsGood(state) /\ DevWatchGood(state) /\ DevStopGood(state)
    BY DEF DevGood
<1>1. \A i, j \in Dev!Live(state) : state.procs[i].name = state.procs[j].name => i = j
    BY <1>0 DEF DevProcsGood
<1>2. \A i \in Dev!Web : state.procs[i].serves = state.prepared
    BY <1>0 DEF DevProcsGood, Dev!Web
<1>3. ASSUME ~state.stopping, state.pc = "wait", Dev!Web = {}
      PROVE  state.failed
    <2> DEFINE web == state.running["PublicWeb"]
    <2>1. web \in state.intentional
        BY <1>0, <1>3 DEF DevNamed, DevStopGood, Dev!Web, Dev!Live
    <2> QED  BY <1>0, <1>3, <2>1 DEF DevWatchGood
<1>4. state.prepared = state.generation /\ (state.finished => Dev!Live(state) = {})
    BY <1>0 DEF DevWatchGood, DevStopGood
<1> QED  BY <1>1, <1>2, <1>3, <1>4 DEF Dev!SiteIsWhatWasPrepared

-----------------------------------------------------------------------------
(* The preview: what is posted is one saved version, and the site takes it. *)

\* The projection as Post posts it.
PreviewOf(d, version, profile, locale) == Preview!Projection(d, version, [user |-> d.byline, version |-> profile], locale)

PreviewSent == {PreviewOf(d, version, profile, locale) : d \in Drafts, version \in Nat, profile \in Nat, locale \in Preview!Locales}
PreviewBoxes ==
    [draft : Drafts, version : Nat, profiles : [Authors -> Nat], window : {"none", "blank", "closed", "posting", "shown"},
     stage : {"idle", "saving", "reading", "author"}, locale : Preview!Locales,
     read : [draft : Seq(Drafts), version : Nat, saved : Nat, size : Nat], posted : Seq(PreviewSent),
     answer : {"none", "page", "refused"}]

\* What may stand for a text that is missing is itself one.
LEMMA StandIns ==
    Preview!NoText \notin {"preview-1", "none", "preview", "untitled", "zh-CN", "en", "post", "note", "curated_article", "topic"}
BY Zenon DEF Preview!NoText

LEMMA OrIsText ==
    ASSUME NEW text, NEW other, other # Preview!NoText
    PROVE  Preview!Or(text, other) # Preview!NoText
BY DEF Preview!Or

\* The site takes every projection of a saved draft.
LEMMA PreviewAccepted ==
    ASSUME NEW d \in Drafts, NEW version, NEW profile, NEW locale
    PROVE  Preview!Accepts(PreviewOf(d, version, profile, locale))
<1> DEFINE x == PreviewOf(d, version, profile, locale)
<1>1. Preview!Saves(d)
    BY PreviewAssumption
<1>2. /\ x.type = d.type /\ x.slug = Preview!SlugOf(d.slug) /\ x.author = d.byline /\ x.cover = d.cover /\ x.withCover = d.cover
      /\ x.withAuthor.user = d.byline /\ x.tags = d.tags /\ x.entries = d.entries /\ x.payload = Preview!Payload(d)
      /\ x.withTags = Preview!Range(d.tags) /\ x.withTargets = Preview!Range(d.entries)
      /\ x.under = IF d.type = "note" THEN Preview!Payload(d).groupSlug ELSE d.type
      /\ x.title = IF Preview!English(d, locale) THEN Preview!Or(d.titleEn, "untitled") ELSE Preview!Or(d.title, "untitled")
      /\ x.language = IF Preview!English(d, locale) THEN "en" ELSE Preview!Or(d.language, "zh-CN")
    BY DEF PreviewOf, Preview!Projection
<1> HIDE DEF x
<1>3. d.type = "note" => /\ Preview!Payload(d).group = Preview!Or(d.payload.group, "none")
                         /\ Preview!Payload(d).groupSlug = Preview!Or(d.payload.groupSlug, "preview")
    BY <1>1 DEF Preview!Payload, Preview!Saves
<1>4. d.type # "note" => Preview!Payload(d) = d.payload
    BY DEF Preview!Payload
<1>5. x.title # Preview!NoText /\ x.language # Preview!NoText /\ x.slug # Preview!NoText
    BY <1>2, StandIns, OrIsText DEF Preview!SlugOf
<1>6. x.under # Preview!NoText
    <2>1. CASE d.type = "note"
        BY <1>2, <1>3, <2>1, StandIns, OrIsText
    <2>2. CASE d.type # "note"
        BY <1>1, <1>2, <2>2, StandIns DEF Preview!Saves
    <2> QED  BY <2>1, <2>2
<1>7. x.type = "note" => x.payload.group # Preview!NoText /\ x.payload.groupSlug # Preview!NoText
    BY <1>2, <1>3, StandIns, OrIsText
<1>8. (x.type # "topic" => x.entries = <<>>) /\ (x.type = "topic" => x.tags = <<>>)
    BY <1>1, <1>2 DEF Preview!Saves
<1>9. x.type = "curated_article" =>
        /\ x.payload.sourceUrl \in {Preview!NoText, "web"} /\ x.payload.rating \in {Preview!NoText, "A"}
        /\ Preview!NoText \notin x.payload.links
    BY <1>1, <1>2, <1>4 DEF Preview!Saves
<1>10. Preview!Schema(x)
    BY <1>5, <1>6, <1>7, <1>8, <1>9 DEF Preview!Schema
<1>11. x.type = "topic" => x.payload.recommended <= Len(x.entries)
    BY <1>1, <1>2, <1>4 DEF Preview!Saves
<1>12. /\ Preview!IsInjective(x.tags) /\ Preview!Range(x.tags) = x.withTags
       /\ Preview!IsInjective(x.entries) /\ Preview!Range(x.entries) = x.withTargets /\ 1 \notin Preview!Range(x.entries)
    BY <1>1, <1>2 DEF Preview!Saves
<1> QED  BY <1>2, <1>10, <1>11, <1>12 DEF Preview!Accepts, x

\* A window is blank while the preview is under way, and only then; what is posted is
\* what was read, and that is one saved version no older than what the author had.
PreviewGood(b) ==
    /\ b \in PreviewBoxes
    /\ b.window = "blank" => b.stage # "idle"
    /\ b.stage # "idle" => b.window \in {"blank", "closed"}
    /\ b.posted = <<>> <=> b.window \in {"none", "blank", "closed"}
    /\ b.stage \in {"reading", "author"} => b.read.saved <= b.version
    /\ b.stage = "author" \/ b.posted # <<>> => b.read.draft # <<>> /\ b.read.saved <= b.read.version
    /\ b.posted # <<>> =>
          /\ \E profile \in Nat : b.posted[1] = PreviewOf(b.read.draft[1], b.read.version, profile, b.locale)
          /\ b.read.size <= Preview!Limit
    /\ b.answer # "refused"

LEMMA PreviewInit ==
    ASSUME Preview!Init
    PROVE  PreviewGood(state)
<1>1. PICK d \in Drafts, locale \in Preview!Locales :
        state = [draft |-> d, version |-> 1, profiles |-> [a \in Authors |-> 1], window |-> "none", stage |-> "idle",
                 locale |-> locale, read |-> Preview!Nothing, posted |-> <<>>, answer |-> "none"]
    BY DEF Preview!Init
<1>2. <<>> \in Seq(Drafts) /\ <<>> \in Seq(PreviewSent)
    BY EmptySeq
<1>3. state \in PreviewBoxes
    BY <1>1, <1>2 DEF PreviewBoxes, Preview!Nothing
<1> QED  BY <1>1, <1>3 DEF PreviewGood

\* Only the window, the stage and the answer change.
LEMMA PreviewMoves ==
    ASSUME NEW b, PreviewGood(b), NEW c \in PreviewBoxes,
           c.read = b.read, c.posted = b.posted, c.locale = b.locale, c.version >= b.version,
           c.window = "blank" => c.stage # "idle",
           c.stage # "idle" => c.window \in {"blank", "closed"},
           (b.window \in {"none", "blank", "closed"}) = (c.window \in {"none", "blank", "closed"}),
           c.stage \in {"reading", "author"} => c.stage = b.stage,
           c.answer # "refused"
    PROVE  PreviewGood(c)
<1>1. b.version \in Nat /\ c.version \in Nat /\ b.read.saved \in Nat
    BY DEF PreviewGood, PreviewBoxes
<1>2. c.posted = <<>> <=> c.window \in {"none", "blank", "closed"}
    BY DEF PreviewGood
<1>3. c.stage \in {"reading", "author"} => c.read.saved <= c.version
    BY <1>1 DEF PreviewGood
<1>4. c.stage = "author" \/ c.posted # <<>> => c.read.draft # <<>> /\ c.read.saved <= c.read.version
    BY DEF PreviewGood
<1>5. c.posted # <<>> =>
          /\ \E profile \in Nat : c.posted[1] = PreviewOf(c.read.draft[1], c.read.version, profile, c.locale)
          /\ c.read.size <= Preview!Limit
    BY DEF PreviewGood
<1> QED  BY <1>2, <1>3, <1>4, <1>5 DEF PreviewGood

LEMMA PreviewCalls ==
    ASSUME PreviewGood(state), Preview!Open \/ Preview!Fails \/ Preview!Close \/ Preview!Edit
    PROVE  PreviewGood(state')
<1>0. state \in PreviewBoxes
    BY DEF PreviewGood
<1>1. CASE Preview!Open
    <2> DEFINE c == [state EXCEPT !.window = "blank", !.stage = "saving"]
    <2>1. state' = c /\ state.window = "none"
        BY <1>1 DEF Preview!Open
    <2>2. /\ c \in PreviewBoxes /\ c.read = state.read /\ c.posted = state.posted /\ c.locale = state.locale
          /\ c.version = state.version /\ c.version \in Nat /\ c.window = "blank" /\ c.stage = "saving" /\ c.answer = state.answer
        BY <1>0 DEF PreviewBoxes
    <2> HIDE DEF c
    <2>3. c.answer # "refused" /\ c.version >= state.version
        BY <2>2 DEF PreviewGood
    <2> QED  BY <2>1, <2>2, <2>3, PreviewMoves
<1>2. CASE Preview!Fails
    <2> DEFINE c == [state EXCEPT !.stage = "idle", !.window = "closed"]
    <2>1. state' = c /\ state.window \in {"blank", "closed"}
        BY <1>2 DEF Preview!Fails, PreviewGood
    <2>2. /\ c \in PreviewBoxes /\ c.read = state.read /\ c.posted = state.posted /\ c.locale = state.locale
          /\ c.version = state.version /\ c.version \in Nat /\ c.window = "closed" /\ c.stage = "idle" /\ c.answer = state.answer
        BY <1>0 DEF PreviewBoxes
    <2> HIDE DEF c
    <2>3. c.answer # "refused" /\ c.version >= state.version
        BY <2>2 DEF PreviewGood
    <2> QED  BY <2>1, <2>2, <2>3, PreviewMoves
<1>3. CASE Preview!Close
    <2> DEFINE c == [state EXCEPT !.window = "closed"]
    <2>1. state' = c /\ state.window = "blank"
        BY <1>3 DEF Preview!Close
    <2>2. /\ c \in PreviewBoxes /\ c.read = state.read /\ c.posted = state.posted /\ c.locale = state.locale
          /\ c.version = state.version /\ c.version \in Nat /\ c.window = "closed" /\ c.stage = state.stage /\ c.answer = state.answer
        BY <1>0 DEF PreviewBoxes
    <2> HIDE DEF c
    <2>3. c.answer # "refused" /\ c.version >= state.version
        BY <2>2 DEF PreviewGood
    <2> QED  BY <2>1, <2>2, <2>3, PreviewMoves
<1>4. ASSUME NEW d \in Drafts, NEW version \in Nat, version >= state.version, NEW profiles \in [Authors -> Nat],
             state' = [state EXCEPT !.draft = d, !.version = version, !.profiles = profiles]
      PROVE  PreviewGood(state')
    <2> DEFINE c == [state EXCEPT !.draft = d, !.version = version, !.profiles = profiles]
    <2>2. /\ c \in PreviewBoxes /\ c.read = state.read /\ c.posted = state.posted /\ c.locale = state.locale
          /\ c.version = version /\ c.window = state.window /\ c.stage = state.stage /\ c.answer = state.answer
        BY <1>0 DEF PreviewBoxes
    <2>1. state' = c
        BY <1>4
    <2> HIDE DEF c
    <2>3. /\ c.answer # "refused" /\ c.version >= state.version
          /\ c.window = "blank" => c.stage # "idle"
          /\ c.stage # "idle" => c.window \in {"blank", "closed"}
        BY <1>4, <2>2 DEF PreviewGood
    <2> QED  BY <2>1, <2>2, <2>3, PreviewMoves
<1>5. CASE Preview!Edit
    <2>0. state.version \in Nat /\ state.profiles \in [Authors -> Nat] /\ state.draft \in Drafts
        BY <1>0 DEF PreviewBoxes
    <2>1. ASSUME NEW d \in {d \in Drafts : d.type = state.draft.type},
                 state' = [state EXCEPT !.draft = d, !.version = @ + 1]
          PROVE  PreviewGood(state')
        <3> DEFINE version == state.version + 1
        <3>1. version \in Nat /\ version >= state.version
            BY <2>0
        <3> HIDE DEF version
        <3>2. [state EXCEPT !.draft = d, !.version = version] = [state EXCEPT !.draft = d, !.version = version, !.profiles = state.profiles]
            BY <1>0 DEF PreviewBoxes
        <3>3. state' = [state EXCEPT !.draft = d, !.version = version]
            BY <2>1 DEF version
        <3> QED  BY <1>4, <2>0, <3>1, <3>2, <3>3
    <2>2. ASSUME NEW a \in Authors, state' = [state EXCEPT !.profiles[a] = @ + 1]
          PROVE  PreviewGood(state')
        <3> DEFINE profiles == [state.profiles EXCEPT ![a] = state.profiles[a] + 1]
        <3>1. profiles \in [Authors -> Nat]
            BY <2>0
        <3>3. state' = [state EXCEPT !.profiles = profiles]
            BY <2>2
        <3> HIDE DEF profiles
        <3>2. [state EXCEPT !.profiles = profiles] = [state EXCEPT !.draft = state.draft, !.version = state.version, !.profiles = profiles]
            BY <1>0 DEF PreviewBoxes
        <3>4. state.version >= state.version
            BY <2>0
        <3> QED  BY <1>4, <2>0, <3>1, <3>2, <3>3, <3>4
    <2> QED  BY <1>5, <2>1, <2>2 DEF Preview!Edit
<1> QED  BY <1>1, <1>2, <1>3, <1>5

LEMMA PreviewReads ==
    ASSUME PreviewGood(state), Preview!Saved \/ Preview!Read
    PROVE  PreviewGood(state')
<1>0. /\ state \in PreviewBoxes /\ state.version \in Nat
      /\ state.read \in [draft : Seq(Drafts), version : Nat, saved : Nat, size : Nat] /\ state.draft \in Drafts
    BY DEF PreviewGood, PreviewBoxes
<1>1. CASE Preview!Saved
    <2> DEFINE read == [state.read EXCEPT !.saved = state.version]
               c    == [state EXCEPT !.stage = "reading", !.read = read]
    <2>1. state' = c /\ state.stage = "saving"
        BY <1>1 DEF Preview!Saved
    <2>2. read \in [draft : Seq(Drafts), version : Nat, saved : Nat, size : Nat] /\ read.saved = state.version
        BY <1>0
    <2> HIDE DEF read
    <2>3. /\ c \in PreviewBoxes /\ c.read = read /\ c.posted = state.posted /\ c.version = state.version
          /\ c.window = state.window /\ c.stage = "reading" /\ c.answer = state.answer
        BY <1>0, <2>2 DEF PreviewBoxes
    <2> HIDE DEF c
    <2>4. c.window \in {"blank", "closed"} /\ c.posted = <<>> /\ c.answer # "refused"
        BY <2>1, <2>3 DEF PreviewGood
    <2>5. c.read.saved <= c.version
        BY <1>0, <2>2, <2>3
    <2> QED  BY <2>1, <2>3, <2>4, <2>5 DEF PreviewGood
<1>2. CASE Preview!Read
    <2> DEFINE draft == <<state.draft>>
               read  == [state.read EXCEPT !.draft = draft, !.version = state.version]
               c     == [state EXCEPT !.stage = "author", !.read = read]
    <2>1. state' = c /\ state.stage = "reading"
        BY <1>2 DEF Preview!Read
    <2>2. draft \in Seq(Drafts) /\ draft # <<>>
        BY <1>0
    <2> HIDE DEF draft
    <2>3. /\ read \in [draft : Seq(Drafts), version : Nat, saved : Nat, size : Nat]
          /\ read.saved = state.read.saved /\ read.version = state.version /\ read.draft = draft
        BY <1>0, <2>2
    <2> HIDE DEF read
    <2>4. /\ c \in PreviewBoxes /\ c.read = read /\ c.posted = state.posted /\ c.version = state.version
          /\ c.window = state.window /\ c.stage = "author" /\ c.answer = state.answer
        BY <1>0, <2>3 DEF PreviewBoxes
    <2> HIDE DEF c
    <2>5. /\ c.window \in {"blank", "closed"} /\ c.posted = <<>> /\ c.answer # "refused"
          /\ state.read.saved <= state.version
        BY <2>1, <2>4 DEF PreviewGood
    <2> QED  BY <2>1, <2>2, <2>3, <2>4, <2>5 DEF PreviewGood
<1> QED  BY <1>1, <1>2

LEMMA PreviewPosts ==
    ASSUME PreviewGood(state), Preview!Post
    PROVE  PreviewGood(state')
<1>0. /\ state \in PreviewBoxes /\ state.version \in Nat /\ state.stage = "author"
      /\ state.read \in [draft : Seq(Drafts), version : Nat, saved : Nat, size : Nat]
      /\ state.profiles \in [Authors -> Nat] /\ state.locale \in Preview!Locales
      /\ state.read.draft # <<>> /\ state.read.saved <= state.read.version /\ state.posted = <<>>
      /\ state.window \in {"blank", "closed"} /\ state.answer # "refused"
    BY DEF PreviewGood, PreviewBoxes, Preview!Post
<1> DEFINE d       == state.read.draft[1]
           profile == state.profiles[d.byline]
           x       == PreviewOf(d, state.read.version, profile, state.locale)
<1>1. d \in Drafts
    <2>1. state.read.draft \in Seq(Drafts)
        BY <1>0
    <2> QED  BY <1>0, <2>1
<1>2. profile \in Nat /\ state.read.version \in Nat
    BY <1>0, <1>1, PreviewAssumption DEF Preview!Saves
<1>3. PICK size \in Sizes :
        state' = IF size > Preview!Limit THEN [state EXCEPT !.stage = "idle", !.window = "closed"]
                 ELSE IF state.window = "closed" THEN [state EXCEPT !.stage = "idle"]
                 ELSE [state EXCEPT !.stage = "idle", !.posted = <<x>>, !.read.size = size, !.window = "posting"]
    BY DEF Preview!Post, PreviewOf
<1>4. x \in PreviewSent
    BY <1>0, <1>1, <1>2 DEF PreviewSent
<1>5. \E p \in Nat : x = PreviewOf(state.read.draft[1], state.read.version, p, state.locale)
    BY <1>2
<1> HIDE DEF x, profile, d
<1>6. size \in Nat
    BY PreviewAssumption
<1>7. CASE size > Preview!Limit \/ state.window = "closed"
    <2> DEFINE c == [state EXCEPT !.stage = "idle", !.window = "closed"]
    <2>1. state' = c
        <3>1. state.window = "closed" => [state EXCEPT !.stage = "idle"] = c
            BY <1>0 DEF PreviewBoxes
        <3> QED  BY <1>3, <1>7, <3>1
    <2>2. /\ c \in PreviewBoxes /\ c.posted = <<>> /\ c.window = "closed" /\ c.stage = "idle" /\ c.answer = state.answer
        BY <1>0 DEF PreviewBoxes
    <2> HIDE DEF c
    <2> QED  BY <1>0, <2>1, <2>2 DEF PreviewGood
<1>8. CASE ~(size > Preview!Limit \/ state.window = "closed")
    <2> DEFINE posted == <<x>>
               read   == [state.read EXCEPT !.size = size]
               c      == [state EXCEPT !.stage = "idle", !.posted = posted, !.read = read, !.window = "posting"]
    <2>1. state' = c
        BY <1>3, <1>8
    <2>2. posted \in Seq(PreviewSent) /\ posted # <<>> /\ posted[1] = x
        BY <1>4
    <2>3. /\ read \in [draft : Seq(Drafts), version : Nat, saved : Nat, size : Nat] /\ read.size = size
          /\ read.saved = state.read.saved /\ read.version = state.read.version /\ read.draft = state.read.draft
        BY <1>0, <1>6
    <2>4. size <= Preview!Limit
        BY <1>6, <1>8 DEF Preview!Limit
    <2> HIDE DEF read, posted
    <2>5. /\ c \in PreviewBoxes /\ c.read = read /\ c.posted = posted /\ c.locale = state.locale
          /\ c.window = "posting" /\ c.stage = "idle" /\ c.answer = state.answer
        BY <1>0, <2>2, <2>3 DEF PreviewBoxes
    <2> HIDE DEF c
    <2>6. \E p \in Nat : c.posted[1] = PreviewOf(c.read.draft[1], c.read.version, p, c.locale)
        BY <1>5, <2>2, <2>3, <2>5
    <2> QED  BY <1>0, <2>1, <2>2, <2>3, <2>4, <2>5, <2>6 DEF PreviewGood
<1> QED  BY <1>7, <1>8

LEMMA PreviewAnswers ==
    ASSUME PreviewGood(state), Preview!Answer
    PROVE  PreviewGood(state')
<1>0. /\ state \in PreviewBoxes /\ state.version \in Nat /\ state.window = "posting" /\ state.posted # <<>>
      /\ state.read \in [draft : Seq(Drafts), version : Nat, saved : Nat, size : Nat]
      /\ state.read.draft # <<>> /\ state.read.size <= Preview!Limit
    BY DEF PreviewGood, PreviewBoxes, Preview!Answer
<1>1. PICK profile \in Nat :
        state.posted[1] = PreviewOf(state.read.draft[1], state.read.version, profile, state.locale)
    BY <1>0 DEF PreviewGood
<1>2. state.read.draft[1] \in Drafts
    <2>1. state.read.draft \in Seq(Drafts)
        BY <1>0
    <2> QED  BY <1>0, <2>1
<1>3. Preview!Accepts(state.posted[1])
    BY <1>1, <1>2, PreviewAccepted
<1>4. Preview!Taken(state.read.size, 4)
    <2>1. state.read.size \in Nat
        BY <1>0
    <2> QED  BY <1>0, <2>1 DEF Preview!Taken, Preview!Posted, Preview!Limit
<1> DEFINE c == [state EXCEPT !.window = "shown", !.answer = "page"]
<1>5. state' = c
    BY <1>3, <1>4 DEF Preview!Answer
<1>6. /\ c \in PreviewBoxes /\ c.read = state.read /\ c.posted = state.posted /\ c.locale = state.locale
      /\ c.version = state.version /\ c.window = "shown" /\ c.stage = state.stage /\ c.answer = "page"
    BY <1>0 DEF PreviewBoxes
<1> HIDE DEF c
<1>7. c.version >= state.version /\ c.stage = "idle"
    BY <1>0, <1>6 DEF PreviewGood, PreviewBoxes
<1> QED  BY <1>0, <1>5, <1>6, <1>7, PreviewMoves

LEMMA PreviewStep ==
    ASSUME PreviewGood(state), Preview!Next
    PROVE  PreviewGood(state')
BY PreviewCalls, PreviewReads, PreviewPosts, PreviewAnswers DEF Preview!Next

LEMMA PreviewShows ==
    ASSUME PreviewGood(state)
    PROVE  Preview!PreviewIsShown
<1>1. state.answer # "refused" /\ (state.window = "blank" => state.stage # "idle")
    BY DEF PreviewGood
<1>2. ASSUME state.posted # <<>>
      PROVE  LET x == state.posted[1]  d == state.read.draft[1] IN
             /\ x.version >= state.read.saved /\ x.version = state.read.version
             /\ x.locale = state.locale /\ x.withAuthor.user = x.author
             /\ x.title = "untitled" <=> (IF Preview!English(d, x.locale) THEN d.titleEn ELSE d.title) = Preview!NoText
    <2> DEFINE d == state.read.draft[1]
    <2>1. PICK profile \in Nat : state.posted[1] = PreviewOf(d, state.read.version, profile, state.locale)
        BY <1>2 DEF PreviewGood
    <2>2. state.read.draft \in Seq(Drafts) /\ state.read.draft # <<>> /\ state.read.saved <= state.read.version
          /\ state.read.saved \in Nat /\ state.read.version \in Nat
        BY <1>2 DEF PreviewGood, PreviewBoxes
    <2>3. d \in Drafts
        BY <2>2
    <2> HIDE DEF d
    <2> DEFINE x == PreviewOf(d, state.read.version, profile, state.locale)
    <2>4. /\ x.version = state.read.version /\ x.locale = state.locale /\ x.author = d.byline /\ x.withAuthor.user = d.byline
          /\ x.title = IF Preview!English(d, state.locale) THEN Preview!Or(d.titleEn, "untitled") ELSE Preview!Or(d.title, "untitled")
        BY DEF PreviewOf, Preview!Projection
    <2> HIDE DEF x
    <2>5. d.title # "untitled" /\ d.titleEn # "untitled"
        BY <2>3, PreviewAssumption
    <2>6. x.title = "untitled" <=> (IF Preview!English(d, x.locale) THEN d.titleEn ELSE d.title) = Preview!NoText
        BY <2>4, <2>5 DEF Preview!Or
    <2> QED  BY <2>1, <2>2, <2>4, <2>6 DEF x, d
<1> QED  BY <1>1, <1>2 DEF Preview!PreviewIsShown

-----------------------------------------------------------------------------
(* An image put into a text: what is captured is what the author saw.       *)

InsertFields ==
    {"text", "revision", "area", "areas", "visited", "selection", "locked", "picker", "dialog", "insertion", "pending",
     "uploads", "opens", "changes", "marked"}

\* What is captured is what the author saw, and while the revision is the one captured
\* the text and the lock are too.
InsertGood(b) ==
    /\ b = [f \in InsertFields |-> b[f]]
    /\ b.revision \in Nat
    /\ b.insertion.there =>
          /\ b.marked.text = b.insertion.text /\ b.marked.start = b.insertion.start /\ b.marked.end = b.insertion.end
          /\ b.insertion.revision \in Nat /\ b.insertion.revision <= b.revision
          /\ b.insertion.revision = b.revision => b.text = b.insertion.text /\ b.locked = b.insertion.locked

LEMMA InsertInit ==
    ASSUME Insert!Init
    PROVE  InsertGood(state)
<1>1. PICK text \in Bodies, area \in 0..1 :
        state = [text |-> text, revision |-> 0, area |-> area, areas |-> area, visited |-> 0, selection |-> <<0, 0>>,
               locked |-> FALSE, picker |-> FALSE, dialog |-> "closed", insertion |-> Insert!NoCapture, pending |-> FALSE,
               uploads |-> 0, opens |-> 0, changes |-> 0, marked |-> Insert!NoMark]
    BY DEF Insert!Init
<1>2. ~Insert!NoCapture.there
    BY DEF Insert!NoCapture
<1> QED  BY <1>1, <1>2 DEF InsertGood, InsertFields

\* Nothing is captured anew; the text and the lock are the same, or the revision is a new one.
LEMMA InsertKeeps ==
    ASSUME NEW b, InsertGood(b), NEW c, c = [f \in InsertFields |-> c[f]],
           \/ c.insertion = b.insertion /\ c.marked = b.marked
           \/ c.insertion = Insert!NoCapture,
           \/ c.text = b.text /\ c.locked = b.locked /\ c.revision = b.revision
           \/ c.revision = b.revision + 1
    PROVE  InsertGood(c)
<1>1. ~Insert!NoCapture.there
    BY DEF Insert!NoCapture
<1>2. b.revision \in Nat /\ c.revision \in Nat /\ c.revision >= b.revision
    BY DEF InsertGood
<1> QED  BY <1>1, <1>2 DEF InsertGood

\* Where the dialog does not close, nothing is inserted.
LEMMA InsertOpenStill ==
    ASSUME NEW b, NEW c, c.dialog = b.dialog \/ c.dialog # "closed"
    PROVE  Insert!InsertsWhereSeen(b, c)
BY DEF Insert!InsertsWhereSeen

LEMMA InsertDraft ==
    ASSUME InsertGood(state), Insert!Replaced \/ Insert!Mode \/ Insert!Lock \/ Insert!Select
    PROVE  InsertGood(state') /\ Insert!InsertsWhereSeen(state, state')
<1>0. InsertGood(state) /\ state.revision \in Nat
    BY DEF InsertGood
<1>1. ASSUME NEW c, c = [f \in InsertFields |-> c[f]], c.insertion = state.insertion, c.marked = state.marked,
             c.revision = state.revision + 1 \/ (c.text = state.text /\ c.locked = state.locked /\ c.revision = state.revision),
             c.dialog = state.dialog
      PROVE  InsertGood(c) /\ Insert!InsertsWhereSeen(state, c)
    BY <1>0, <1>1, InsertKeeps, InsertOpenStill
<1> DEFINE changes  == state.changes + 1
           revision == state.revision + 1
           b        == [state EXCEPT !.changes = changes, !.revision = revision]
<1>2. Insert!Changes(state) = b
    BY DEF Insert!Changes
<1>3. /\ b = [f \in InsertFields |-> b[f]] /\ b.insertion = state.insertion /\ b.marked = state.marked
      /\ b.revision = state.revision + 1 /\ b.dialog = state.dialog
    BY <1>0 DEF InsertGood, InsertFields
<1> HIDE DEF b
<1>4. CASE Insert!Replaced
    <2>1. PICK text \in Bodies : state' = [b EXCEPT !.text = text, !.selection = <<0, 0>>]
        BY <1>2, <1>4 DEF Insert!Replaced
    <2> DEFINE c == [b EXCEPT !.text = text, !.selection = <<0, 0>>]
    <2>2. /\ c = [f \in InsertFields |-> c[f]] /\ c.insertion = b.insertion /\ c.marked = b.marked
          /\ c.revision = b.revision /\ c.dialog = b.dialog
        BY <1>3 DEF InsertFields
    <2> HIDE DEF c
    <2> QED  BY <1>1, <1>3, <2>1, <2>2 DEF c
<1>5. CASE Insert!Mode
    <2>1. PICK area, areas : state' = [b EXCEPT !.area = area, !.areas = areas]
        BY <1>2, <1>5 DEF Insert!Mode
    <2> DEFINE c == [b EXCEPT !.area = area, !.areas = areas]
    <2>2. /\ c = [f \in InsertFields |-> c[f]] /\ c.insertion = b.insertion /\ c.marked = b.marked
          /\ c.revision = b.revision /\ c.dialog = b.dialog
        BY <1>3 DEF InsertFields
    <2> HIDE DEF c
    <2> QED  BY <1>1, <1>3, <2>1, <2>2 DEF c
<1>6. CASE Insert!Lock
    <2> DEFINE locked == ~b.locked
               c      == [b EXCEPT !.locked = locked]
    <2>1. state' = c
        BY <1>2, <1>6 DEF Insert!Lock
    <2> HIDE DEF locked
    <2>2. /\ c = [f \in InsertFields |-> c[f]] /\ c.insertion = b.insertion /\ c.marked = b.marked
          /\ c.revision = b.revision /\ c.dialog = b.dialog
        BY <1>3 DEF InsertFields
    <2> HIDE DEF c
    <2> QED  BY <1>1, <1>3, <2>1, <2>2 DEF c
<1>7. CASE Insert!Select
    <2>1. PICK selection : state' = [state EXCEPT !.visited = state.area, !.selection = selection]
        BY <1>7 DEF Insert!Select
    <2> DEFINE c == [state EXCEPT !.visited = state.area, !.selection = selection]
    <2>2. /\ c = [f \in InsertFields |-> c[f]] /\ c.insertion = state.insertion /\ c.marked = state.marked
          /\ c.revision = state.revision /\ c.dialog = state.dialog /\ c.text = state.text /\ c.locked = state.locked
        BY <1>0 DEF InsertGood, InsertFields
    <2> HIDE DEF c
    <2> QED  BY <1>1, <2>1, <2>2 DEF c
<1> QED  BY <1>4, <1>5, <1>6, <1>7

\* The dialogs and the upload as given.
InsertWith(picker, dialog, pending, uploads) ==
    [state EXCEPT !.picker = picker, !.dialog = dialog, !.pending = pending, !.uploads = uploads]

LEMMA InsertDialogs ==
    ASSUME InsertGood(state), Insert!Open \/ Insert!Upload \/ Insert!Choose \/ Insert!UploadEnds \/ Insert!Cancel \/ Insert!Confirm
    PROVE  InsertGood(state') /\ Insert!InsertsWhereSeen(state, state')
<1>0. InsertGood(state) /\ state.revision \in Nat
    BY DEF InsertGood
<1>1. ASSUME NEW picker, NEW dialog, NEW pending, NEW uploads, dialog = state.dialog \/ dialog # "closed",
             state' = InsertWith(picker, dialog, pending, uploads)
      PROVE  InsertGood(state') /\ Insert!InsertsWhereSeen(state, state')
    <2> DEFINE c == InsertWith(picker, dialog, pending, uploads)
    <2>1. /\ c = [f \in InsertFields |-> c[f]] /\ c.insertion = state.insertion /\ c.marked = state.marked
          /\ c.revision = state.revision /\ c.text = state.text /\ c.locked = state.locked /\ c.dialog = dialog
        BY <1>0 DEF InsertGood, InsertFields, InsertWith
    <2> HIDE DEF c
    <2>2. InsertGood(c) /\ Insert!InsertsWhereSeen(state, c)
        BY <1>0, <1>1, <2>1, InsertKeeps, InsertOpenStill
    <2> QED  BY <1>1, <2>2 DEF c
<1>2. CASE Insert!Open
    <2> DEFINE capture == Insert!Capture
               mark    == [text |-> state.text, start |-> capture.start, end |-> capture.end]
               opens   == state.opens + 1
               c       == [state EXCEPT !.opens = opens, !.picker = TRUE, !.insertion = capture, !.pending = FALSE, !.marked = mark]
    <2>1. state' = c
        BY <1>2 DEF Insert!Open
    <2>2. /\ capture.text = state.text /\ capture.locked = state.locked /\ capture.revision = state.revision
          /\ mark.text = state.text /\ mark.start = capture.start /\ mark.end = capture.end
        BY DEF Insert!Capture
    <2> HIDE DEF capture, mark, opens
    <2>3. /\ c = [f \in InsertFields |-> c[f]] /\ c.insertion = capture /\ c.marked = mark
          /\ c.revision = state.revision /\ c.text = state.text /\ c.locked = state.locked /\ c.dialog = state.dialog
        BY <1>0 DEF InsertGood, InsertFields
    <2> HIDE DEF c
    <2>4. InsertGood(c)
        BY <1>0, <2>2, <2>3 DEF InsertGood
    <2> QED  BY <2>1, <2>3, <2>4, InsertOpenStill
<1>3. CASE Insert!Upload
    <2>1. state' = [state EXCEPT !.uploads = 1]
        BY <1>3 DEF Insert!Upload
    <2>2. [state EXCEPT !.uploads = 1] = InsertWith(state.picker, state.dialog, state.pending, 1)
        BY <1>0 DEF InsertGood, InsertFields, InsertWith
    <2> QED  BY <1>1, <2>1, <2>2
<1>4. ASSUME NEW uploads, state' = Insert!Chosen([state EXCEPT !.uploads = uploads])
      PROVE  InsertGood(state') /\ Insert!InsertsWhereSeen(state, state')
    <2>1. Insert!Chosen([state EXCEPT !.uploads = uploads]) = InsertWith(FALSE, "open", state.pending, uploads)
        BY <1>0 DEF InsertGood, InsertFields, Insert!Chosen, InsertWith
    <2>2. state' = InsertWith(FALSE, "open", state.pending, uploads)
        BY <1>4, <2>1
    <2>3. "open" # "closed"
        OBVIOUS
    <2> QED  BY <1>1, <2>2, <2>3
<1>5. CASE Insert!Choose
    <2>1. state = [state EXCEPT !.uploads = state.uploads]
        BY <1>0 DEF InsertGood, InsertFields, InsertWith
    <2>2. state' = Insert!Chosen([state EXCEPT !.uploads = state.uploads])
        BY <1>5, <2>1 DEF Insert!Choose
    <2> QED  BY <1>4, <2>2
<1>6. CASE Insert!UploadEnds
    <2>1. \/ state' = Insert!Chosen([state EXCEPT !.uploads = 0])
          \/ state' = [state EXCEPT !.uploads = 0]
        BY <1>6 DEF Insert!UploadEnds
    <2>2. [state EXCEPT !.uploads = 0] = InsertWith(state.picker, state.dialog, state.pending, 0)
        BY <1>0 DEF InsertGood, InsertFields, InsertWith
    <2>3. CASE state' = Insert!Chosen([state EXCEPT !.uploads = 0])
        BY <1>4, <2>3
    <2>4. CASE state' = [state EXCEPT !.uploads = 0]
        <3>1. state' = InsertWith(state.picker, state.dialog, state.pending, 0)
            BY <2>2, <2>4
        <3> QED  BY <1>1, <3>1
    <2> QED  BY <2>1, <2>3, <2>4
<1>7. CASE Insert!Cancel
    <2>1. PICK dialog \in {state.dialog, "closing"} : state' = [Insert!Cancelled(state) EXCEPT !.dialog = dialog]
        <3>1. Insert!Cancelled(state) = [Insert!Cancelled(state) EXCEPT !.dialog = state.dialog]
            BY <1>0 DEF InsertGood, InsertFields, Insert!Cancelled
        <3> QED  BY <1>7, <3>1 DEF Insert!Cancel
    <2> DEFINE c == [state EXCEPT !.insertion = Insert!NoCapture, !.pending = FALSE, !.picker = FALSE, !.marked = Insert!NoMark, !.dialog = dialog]
    <2>2. state' = c
        BY <2>1 DEF Insert!Cancelled
    <2>3. /\ c = [f \in InsertFields |-> c[f]] /\ c.insertion = Insert!NoCapture
          /\ c.revision = state.revision /\ c.text = state.text /\ c.locked = state.locked /\ c.dialog = dialog
        BY <1>0 DEF InsertGood, InsertFields
    <2> HIDE DEF c
    <2> QED  BY <1>0, <2>1, <2>2, <2>3, InsertKeeps, InsertOpenStill
<1>8. CASE Insert!Confirm
    <2>1. state' = [state EXCEPT !.pending = TRUE, !.dialog = "closing"]
        BY <1>8 DEF Insert!Confirm
    <2>2. [state EXCEPT !.pending = TRUE, !.dialog = "closing"]
          = InsertWith(state.picker, "closing", TRUE, state.uploads)
        BY <1>0 DEF InsertGood, InsertFields, InsertWith
    <2>3. state' = InsertWith(state.picker, "closing", TRUE, state.uploads)
        BY <2>1, <2>2
    <2>4. "closing" # "closed"
        OBVIOUS
    <2> QED  BY <1>1, <2>3, <2>4
<1> QED  BY <1>2, <1>3, <1>5, <1>6, <1>7, <1>8

LEMMA InsertCompletes ==
    ASSUME InsertGood(state), Insert!Complete
    PROVE  InsertGood(state') /\ Insert!InsertsWhereSeen(state, state')
<1>0. InsertGood(state) /\ state.revision \in Nat
    BY DEF InsertGood
<1> DEFINE c == state.insertion
           b == [state EXCEPT !.dialog = "closed"]
           d == [b EXCEPT !.pending = FALSE, !.insertion = Insert!NoCapture, !.marked = Insert!NoMark]
<1>1. /\ b = [f \in InsertFields |-> b[f]] /\ b.insertion = state.insertion /\ b.marked = state.marked
      /\ b.revision = state.revision /\ b.text = state.text /\ b.locked = state.locked
    BY <1>0 DEF InsertGood, InsertFields
<1>2. /\ d = [f \in InsertFields |-> d[f]] /\ d.insertion = Insert!NoCapture
      /\ d.revision = state.revision /\ d.text = state.text /\ d.locked = state.locked
    BY <1>0 DEF InsertGood, InsertFields
<1>3. \/ state' = b
      \/ state' = d
      \/ /\ Insert!Inserts(c)
         /\ state' = [d EXCEPT !.text = Insert!Spliced(c.text, c.start, c.end), !.revision = @ + 1, !.selection = <<0, 0>>]
    BY DEF Insert!Complete
<1> HIDE DEF b, d
<1>4. CASE state' = b
    <2>1. InsertGood(b)
        BY <1>0, <1>1, InsertKeeps
    <2> QED  BY <1>1, <1>4, <2>1, ZenonT(30) DEF Insert!InsertsWhereSeen
<1>5. CASE state' = d
    <2>1. InsertGood(d)
        BY <1>0, <1>2, InsertKeeps
    <2> QED  BY <1>2, <1>5, <2>1, ZenonT(30) DEF Insert!InsertsWhereSeen
<1>6. CASE /\ Insert!Inserts(c)
           /\ state' = [d EXCEPT !.text = Insert!Spliced(c.text, c.start, c.end), !.revision = @ + 1, !.selection = <<0, 0>>]
    <2> DEFINE text     == Insert!Spliced(c.text, c.start, c.end)
               revision == d.revision + 1
               e        == [d EXCEPT !.text = text, !.revision = revision, !.selection = <<0, 0>>]
    <2>1. state' = e
        BY <1>6
    <2>2. revision = state.revision + 1
        BY <1>2
    <2> HIDE DEF text, revision
    <2>3. /\ e = [f \in InsertFields |-> e[f]] /\ e.insertion = Insert!NoCapture /\ e.revision = revision /\ e.text = text
        BY <1>2 DEF InsertFields
    <2> HIDE DEF e
    <2>4. InsertGood(e)
        BY <1>0, <2>2, <2>3, InsertKeeps
    <2>5. /\ c.there /\ ~c.locked /\ c.revision = state.revision
        BY <1>6 DEF Insert!Inserts, Insert!StillThere
    <2>6. /\ state.marked.text = c.text /\ state.marked.start = c.start /\ state.marked.end = c.end
          /\ state.text = c.text /\ ~state.locked
        BY <1>0, <2>5 DEF InsertGood
    <2> DEFINE before == SubSeq(c.text, 1, c.start)
               after  == SubSeq(c.text, c.end + 1, Len(c.text))
               i      == Insert!Before(before)
               j      == Insert!After(after)
    <2>7. text = before \o Insert!Breaks(i) \o <<"img">> \o Insert!Breaks(j) \o after
        BY DEF text, Insert!Spliced
    <2> HIDE DEF before, after
    <2>8. /\ i \in 0..2
          /\ i < 2 => before = <<>> \/ (i = 1 /\ before[Len(before)] = "br")
                      \/ (Len(before) > 1 /\ before[Len(before)] = "br" /\ before[Len(before) - 1] = "br")
        BY DEF Insert!Before
    <2>9. /\ j \in 0..2
          /\ j = 0 => Len(after) > 1 /\ after[1] = "br" /\ after[2] = "br"
          /\ j = 1 => after = <<>> \/ after[1] = "br"
        BY DEF Insert!After
    <2> HIDE DEF i, j
    <2>10. Insert!InsertsWhereSeen(state, e)
        BY <2>3, <2>6, <2>7, <2>8, <2>9, ZenonT(30) DEF Insert!InsertsWhereSeen, before, after
    <2> QED  BY <2>1, <2>4, <2>10
<1> QED  BY <1>3, <1>4, <1>5, <1>6

LEMMA InsertStep ==
    ASSUME InsertGood(state), Insert!Next
    PROVE  InsertGood(state') /\ Insert!InsertsWhereSeen(state, state')
BY InsertDraft, InsertDialogs, InsertCompletes DEF Insert!Next

-----------------------------------------------------------------------------
(* The theorems.                                                            *)

\* What is kept of whichever part this behaviour is of.
ReaderInv ==
    /\ part = "search" => SearchGood(state)
    /\ part = "theme" => ThemeGood(state)
    /\ part = "motion" => MotionGood(state)
    /\ part = "stats" => StatsGood(state)
    /\ part = "explorer" => ExplorerGood(state)
    /\ part = "chrome" => ChromeGood(state)
    /\ part = "charts" => state \in Inputs
    /\ part = "dev" => DevGood(state)
    /\ part = "preview" => PreviewGood(state)
    /\ part = "insert" => InsertGood(state)

\* The boxes of the pages are always good (search.ts, theme.ts, motion.ts, readership.ts, chart.ts, explorer.ts,
\* chrome.ts, note-pagination.ts, content.ts, dev-processes.mjs, dev-snapshot-watcher.mjs, blog-preview.ts, editor-assets.tsx).
THEOREM Invariance == Spec => []ReaderInv
<1>1. Init => ReaderInv
    BY SearchInit, ThemeInit, MotionInit, StatsInit, ExplorerInit, ChromeInit, ChartsInit,
       DevInit, PreviewInit, InsertInit
    DEF Init, ReaderInv
<1>2. ReaderInv /\ [Next]_<<part, state>> => ReaderInv'
    <2>1. CASE UNCHANGED <<part, state>>
        BY <2>1 DEF ReaderInv
    <2>2. ASSUME ReaderInv, Step, part' = part
          PROVE  ReaderInv'
        <3>1. part = "search" => SearchGood(state')
            BY <2>2, SearchStep DEF ReaderInv, Step
        <3>2. part = "theme" => ThemeGood(state')
            BY <2>2, ThemeStep DEF ReaderInv, Step
        <3>3. part = "motion" => MotionGood(state')
            BY <2>2, MotionStep DEF ReaderInv, Step
        <3>4. part = "stats" => StatsGood(state')
            BY <2>2, StatsStep DEF ReaderInv, Step
        <3>5. part = "explorer" => ExplorerGood(state')
            BY <2>2, ExplorerStep DEF ReaderInv, Step
        <3>6. part = "dev" => DevGood(state')
            BY <2>2, DevStep DEF ReaderInv, Step
        <3>7. part = "preview" => PreviewGood(state')
            BY <2>2, PreviewStep DEF ReaderInv, Step
        <3>8. part = "insert" => InsertGood(state')
            BY <2>2, InsertStep DEF ReaderInv, Step
        <3>9. part = "chrome" => ChromeGood(state')
            BY <2>2, ChromeStep DEF ReaderInv, Step
        <3>10. part = "charts" => state' \in Inputs
            BY <2>2, ChartsStep DEF ReaderInv, Step
        <3> QED  BY <2>2, <3>1, <3>2, <3>3, <3>4, <3>5, <3>6, <3>7, <3>8, <3>9, <3>10 DEF ReaderInv
    <2> QED  BY <2>1, <2>2 DEF Next
<1> QED  BY <1>1, <1>2, PTL DEF Spec

\* The search lists the answer to the text last searched (search.ts:76-155).
THEOREM SearchAnswers == Spec => []SearchShowsOneAnswer
<1>1. ReaderInv => SearchShowsOneAnswer
    BY SearchShows DEF ReaderInv, SearchShowsOneAnswer
<1> QED  BY <1>1, Invariance, PTL

\* Regions, theme and statistics are what was chosen last (motion.ts, theme.ts, readership.ts, chart.ts).
THEOREM PageSettles == Spec => []PageSettlesAsChosen
<1>1. ReaderInv => PageSettlesAsChosen
    BY ThemeShows, MotionShows, StatsShows DEF ReaderInv, PageSettlesAsChosen
<1> QED  BY <1>1, Invariance, PTL

\* The explorer shows its filters, and what its address says unless a chosen slug
\* is also the label of another tag or topic (explorer.ts:28-409).
THEOREM ExplorerIsItsAddress == Spec => []ExplorerFollowsItsAddress
<1>1. ReaderInv => ExplorerFollowsItsAddress
    BY ExplorerShows DEF ReaderInv, ExplorerFollowsItsAddress
<1> QED  BY <1>1, Invariance, PTL

\* The page does not jump when notes are turned or something is copied, and the charts
\* find and draw what the data say (chrome.ts, note-pagination.ts, chart.ts, content.ts,
\* readership.ts).
THEOREM LayoutIsKept == Spec => []LayoutAndChartsHold
<1>1. ReaderInv => LayoutAndChartsHold
    BY ChromeShows, ChartsShows DEF ReaderInv, LayoutAndChartsHold
<1> QED  BY <1>1, Invariance, PTL

\* The development site serves what was prepared last, and nothing outlives the
\* supervisor (dev-processes.mjs, dev-snapshot-watcher.mjs).
THEOREM SiteIsPrepared == Spec => []DevSiteIsPrepared
<1>1. ReaderInv => DevSiteIsPrepared
    BY DevShows DEF ReaderInv, DevSiteIsPrepared
<1> QED  BY <1>1, Invariance, PTL

\* The site takes every saved draft that is posted to it (blog-preview.ts, preview.ts, editor.tsx).
THEOREM PreviewIsTaken == Spec => []PreviewShowsTheDraft
<1>1. ReaderInv => PreviewShowsTheDraft
    BY PreviewShows DEF ReaderInv, PreviewShowsTheDraft
<1> QED  BY <1>1, Invariance, PTL

\* An image goes into the text the author saw, where the library was opened, or
\* nowhere (editor-assets.tsx, markdown-editor.tsx).
THEOREM ImagesAreInserted == Spec => ImagesGoWhereSeen
<1>1. ReaderInv /\ [Next]_<<part, state>>
        => [part = "insert" => Insert!InsertsWhereSeen(state, state')]_<<part, state>>
    BY InsertStep DEF ReaderInv, Next, Step
<1> QED  BY <1>1, Invariance, PTL DEF Spec, ImagesGoWhereSeen
=============================================================================
