----------------------------- MODULE ReaderStats ----------------------------
(***************************************************************************)
(* The statistics page of the public site: loading the readership of a     *)
(* range (apps/web/src/lib/stats/readership.ts), the chart's interaction   *)
(* by pointer, touch and keyboard (chart.ts), and the tabs of the growth   *)
(* charts (switcher.ts).  A request is superseded by another range or a    *)
(* retry, aborted after ten seconds, and may answer at any time.           *)
(*                                                                         *)
(* Abstractions: an answer is the range it is of and whether its numbers   *)
(* pass validateReadership; what is written for a day is left out; a       *)
(* pointer is the sample it is nearest to, 0 when it is off the plot.      *)
(***************************************************************************)
EXTENDS Naturals, Sequences

CONSTANTS
    Ranges,         \* the ranges offered
    First,          \* the one loaded first
    SamplesOf,      \* per range and metric, the samples of the chart, 0 without data
    Tabs,           \* how many growth charts there are
    MaxRequests     \* bound on the requests

VARIABLE
    box    \* the page: what is selected, held and shown; the requests and the
           \* current one (0: none); the chart and its interaction; the tabs

Metrics == {"pageLoads", "visits"}

\* No chart, and a chart nobody points at.
NoChart == [range |-> "none", metric |-> "none", count |-> 0]
Still   == [frame |-> FALSE, pointer |-> 0, pointed |-> FALSE, drag |-> FALSE, index |-> 0, tooltip |-> FALSE,
            rendered |-> <<"none", "none", 0>>]

-----------------------------------------------------------------------------
(* What the handlers call, as changes of the page b.                        *)

DestroyChart(b) == [b EXCEPT !.chart = NoChart, !.tip = Still]

\* mountChart destroys the chart that was mounted before.
Render(b) ==
    IF b.data = "none" THEN b
    ELSE [DestroyChart(b) EXCEPT !.site = b.available, !.shown = b.data,
             !.notice = IF b.available THEN "none" ELSE "empty",
             !.chart = IF ~b.available \/ SamplesOf[b.data][b.metric] = 0 THEN NoChart
                       ELSE [range |-> b.data, metric |-> b.metric, count |-> SamplesOf[b.data][b.metric]]]

Load(b, range) ==
    [DestroyChart(b) EXCEPT
        !.requests = Append(@, [range |-> range, open |-> TRUE]),
        !.current = Len(b.requests) + 1, !.selected = range, !.busy = TRUE, !.retry = FALSE]

Init == box =
    Load([selected |-> First, metric |-> "pageLoads", data |-> "none", available |-> FALSE, shown |-> "none", site |-> FALSE,
          notice |-> "none", retry |-> FALSE, busy |-> FALSE, requests |-> <<>>, current |-> 0, stopped |-> FALSE,
          chart |-> NoChart, tip |-> Still, tab |-> 1, growth |-> [t \in 1..Tabs |-> 0]], First)

-----------------------------------------------------------------------------
(* Loading.                                                                 *)

Closed(i) == [box EXCEPT !.requests[i].open = FALSE]

IsCurrent(i) == box.current = i

\* A good answer of the range that was asked, with or without archived days; it
\* may have been there just before its request was aborted.
Answers(i) ==
    /\ box.requests[i].open
    /\ \E available \in BOOLEAN :
          box' = IF ~IsCurrent(i) THEN Closed(i)
                 ELSE [Render([Closed(i) EXCEPT !.data = box.requests[i].range, !.available = available])
                         EXCEPT !.busy = FALSE]

\* Aborted, timed out, not ok, too long, or refused by validateReadership.
Fails(i) ==
    /\ box.requests[i].open
    /\ box' = IF ~IsCurrent(i) THEN Closed(i)
              ELSE [DestroyChart(Closed(i)) EXCEPT !.data = "none", !.shown = "none", !.site = FALSE,
                       !.notice = "unavailable", !.retry = TRUE, !.busy = FALSE]

ChooseRange ==
    /\ Len(box.requests) < MaxRequests
    /\ \E range \in Ranges : box' = Load(box, range)

Retry ==
    /\ box.retry /\ Len(box.requests) < MaxRequests
    /\ box' = Load(box, box.selected)

ChooseMetric == \E metric \in Metrics \ {box.metric} : box' = Render([box EXCEPT !.metric = metric])

\* The page is left, or its element removed: the request is aborted and forgotten.
Stop ==
    box' = [DestroyChart(box) EXCEPT !.stopped = TRUE, !.current = 0]

-----------------------------------------------------------------------------
(* The chart.                                                               *)

Charted == box.chart.count > 0

\* A page kept for the way back only loses the tooltip.
Reset == Charted /\ box' = [box EXCEPT !.tip = Still]

Show(b, n) == [b EXCEPT !.tip.index = n, !.tip.tooltip = TRUE,
                        !.tip.rendered = <<b.chart.range, b.chart.metric, n>>]

Track(b, n) == [b EXCEPT !.tip.pointed = TRUE, !.tip.pointer = n, !.tip.frame = TRUE]

Point ==
    /\ Charted
    /\ \E n \in 0..box.chart.count, touch \in BOOLEAN :
          box' = Track([box EXCEPT !.tip.drag = touch \/ @], n)

\* Another finger, or one that was not put down here, is ignored; a vertical
\* drag is the page's to scroll.
MovePointer ==
    /\ Charted
    /\ \E n \in 0..box.chart.count, touch \in BOOLEAN, vertical \in BOOLEAN :
          /\ touch => box.tip.drag
          /\ box' = IF touch /\ vertical THEN [box EXCEPT !.tip = Still] ELSE Track(box, n)

Lift == Charted /\ box.tip.drag /\ box' = [box EXCEPT !.tip.drag = FALSE]

Paint ==
    /\ box.tip.frame
    /\ LET b == [box EXCEPT !.tip.frame = FALSE] IN
       box' = IF ~b.tip.pointed THEN b
              ELSE IF b.tip.pointer = 0 THEN [box EXCEPT !.tip = Still] ELSE Show(b, b.tip.pointer)

Focus == Charted /\ ~box.tip.pointed /\ box' = Show(box, 1)

Key ==
    /\ Charted
    /\ LET last == box.chart.count  i == box.tip.index IN
       \E n \in {1, last, IF i < last THEN i + 1 ELSE last, IF i > 1 THEN i - 1 ELSE 1} :
          box' = Show([box EXCEPT !.tip.frame = FALSE, !.tip.pointed = FALSE, !.tip.pointer = 0], n)

-----------------------------------------------------------------------------
(* The tabs.                                                                *)

SelectTab == \E t \in 1..Tabs : box' = [box EXCEPT !.tab = t, !.growth = [u \in 1..Tabs |-> 0]]

PointAtGrowth == \E n \in 0..2 : box' = [box EXCEPT !.growth[box.tab] = n]

Next ==
    \/ \E i \in DOMAIN box.requests : Answers(i) \/ Fails(i)
    \/ ~box.stopped /\ (\/ ChooseRange \/ Retry \/ ChooseMetric \/ Stop \/ Reset \/ Point \/ MovePointer
                        \/ Lift \/ Paint \/ Focus \/ Key \/ SelectTab \/ PointAtGrowth)

Spec == Init /\ [][Next]_box

-----------------------------------------------------------------------------
(* Properties.                                                              *)

\* Once no request is awaited the page shows the range last chosen, or says that
\* it is unavailable and offers to try again, never an answer that came late;
\* while one is, it is busy.  The chart and what is written at the pointer are of
\* the range and the metric shown, and nothing is left of a chart that is gone
\* (readership.ts:411, chart.ts:103, switcher.ts:55).
ShowsWhatWasChosen ==
    /\ ~box.stopped => box.busy = (\E i \in DOMAIN box.requests : i = box.current /\ box.requests[i].open)
    /\ ~box.busy => IF box.retry THEN ~box.site /\ box.notice = "unavailable"
                    ELSE box.shown = box.selected /\ box.site = (box.notice = "none")
    /\ Charted => box.site /\ box.chart.range = box.shown /\ box.chart.metric = box.metric
    /\ box.tip.tooltip => box.tip.rendered = <<box.chart.range, box.chart.metric, box.tip.index>>
                          /\ box.tip.index \in 1..box.chart.count
    /\ box.tip.frame => box.tip.pointed
    /\ \A t \in 1..Tabs : box.growth[t] # 0 => t = box.tab
=============================================================================
