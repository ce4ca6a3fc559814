---------------------------- MODULE ReaderCharts ----------------------------
(***************************************************************************)
(* What the charts of the statistics page compute (apps/web/src/lib/stats: *)
(* chart.ts, content.ts, readership.ts), over inputs one of which a state  *)
(* holds, each beside what it should be by definition.                     *)
(*                                                                         *)
(* Abstractions: a day is its number and a position is an integer; where   *)
(* the code divides, both sides are compared multiplied out.               *)
(***************************************************************************)
EXTENDS Integers, Sequences, FiniteSets, FiniteSetsExt

CONSTANT Inputs    \* what is drawn: the case and its numbers

VARIABLE box    \* the input at hand

Init == box \in Inputs
Next == UNCHANGED box
Spec == Init /\ [][Next]_box

\* (mutation: rounded down)
FloorDiv(a, b) == a \div b

CeilDiv(a, b) == (a + b - 1) \div b

-----------------------------------------------------------------------------
(* chartScale: whole steps, five ticks at most, the maximum above the total.*)

Step(total)    == Max({1, CeilDiv(total, 4)})
Maximum(total) == Max({Step(total), CeilDiv(total, Step(total)) * Step(total)})
Ticks(total)   == [i \in 1..(Maximum(total) \div Step(total) + 1) |-> Maximum(total) - (i - 1) * Step(total)]

-----------------------------------------------------------------------------
(* nearestSampleIndex: a binary search between the bounds b; xs are the     *)
(* samples' positions.                                                      *)

Nearest(xs, x) ==
    LET narrowed[b \in (DOMAIN xs) \X (DOMAIN xs)] ==
            LET middle == (b[1] + b[2] - 2) \div 2 + 1
            IN  IF b[1] >= b[2] THEN b[1]
                ELSE IF xs[middle] < x THEN narrowed[<<middle + 1, b[2]>>] ELSE narrowed[<<b[1], middle>>]
        low == narrowed[<<1, Len(xs)>>]
    IN  IF xs = <<>> THEN 0
        ELSE IF low > 1 /\ x - xs[IF low > 1 THEN low - 1 ELSE 1] <= xs[low] - x THEN low - 1 ELSE low

Distance(a, b) == IF a < b THEN b - a ELSE a - b

-----------------------------------------------------------------------------
(* tooltipPosition, along one axis: beside the pointer, on the other side   *)
(* when that is too near the edge, and inside in any case.                  *)

Margin == 12
Gap    == 16

Across(x, width, start, size) ==
    LET end  == start + size - Margin
        left == IF x + Gap + width > end THEN x - width - Gap ELSE x + Gap
    IN  Max({start + Margin, Min({left, end - width})})

\* A finger has the tooltip above it.
Down(y, height, start, size, touch) ==
    LET end == start + size - Margin
        top == IF touch THEN IF y - height - Gap < start + Margin THEN y + Gap ELSE y - height - Gap
               ELSE IF y + Gap + height > end THEN y - height - Gap ELSE y + Gap
    IN  Max({start + Margin, Min({top, end - height})})

-----------------------------------------------------------------------------
(* growthCalendar: the count on any day between the first publication and   *)
(* the last, found among the days with one by a binary search.              *)

Days(points) == points[Len(points)].date - points[1].date + 1

Half(low, high) == (low + high + 1) \div 2

OnDay(points, date) ==
    LET narrowed[b \in (DOMAIN points) \X (DOMAIN points)] ==
            LET middle == Half(b[1], b[2])
            IN  IF b[1] >= b[2] THEN b[1]
                ELSE IF points[middle].date <= date THEN narrowed[<<middle, b[2]>>] ELSE narrowed[<<b[1], middle - 1>>]
        low == narrowed[<<1, Len(points)>>]
    IN  [total |-> points[low].total,
         added |-> IF points[low].date = date
                   THEN points[low].total - (IF low = 1 THEN 0 ELSE points[low - 1].total) ELSE 0]

-----------------------------------------------------------------------------
(* trafficPlot: a value of -1 is a day that is not archived.                *)

Valid(daily) == {i \in DOMAIN daily : daily[i] >= 0}
Mode(daily)  == IF Valid(daily) = {} THEN "empty" ELSE IF Cardinality(Valid(daily)) <= 3 THEN "discrete" ELSE "trend"

\* The path so far and those that are complete, one day after the other.
Paths(daily) ==
    LET upto[n \in 0..Len(daily)] ==
            IF n = 0 THEN [path |-> <<>>, paths |-> <<>>]
            ELSE LET so == upto[n - 1] IN
                 IF daily[n] < 0 THEN [path |-> <<>>, paths |-> IF so.path = <<>> THEN so.paths ELSE Append(so.paths, so.path)]
                 ELSE [so EXCEPT !.path = Append(@, n)]
        all == upto[Len(daily)]
    IN  IF Mode(daily) # "trend" THEN <<>>
        ELSE IF all.path = <<>> THEN all.paths ELSE Append(all.paths, all.path)

-----------------------------------------------------------------------------
(* validateReadership, of an answer to a request of "asked" days: a row is  *)
(* its day and its two counts, -1 for null; the coverage is a number of     *)
(* days per dimension; shares are in hundredths.                            *)

RowTaken(answer, i) ==
    LET row == answer.daily[i] IN
    /\ row.date = answer.start + i - 1
    /\ (row.pageLoads = -1 /\ row.visits = -1) \/ (row.pageLoads >= 0 /\ row.visits >= 0)

Taken(answer) ==
    /\ answer.range = answer.asked /\ Len(answer.daily) = answer.asked
    /\ \A days \in answer.coverage : days \in 0..Len(answer.daily)
    /\ \A i \in DOMAIN answer.daily : RowTaken(answer, i)
    /\ answer.daily[Len(answer.daily)].date = answer.end
    /\ Cardinality(answer.shares) <= 10 /\ \A share \in answer.shares : share \in 0..100

-----------------------------------------------------------------------------
(* Properties.                                                              *)

ScaleHolds(total) ==
    LET ticks == Ticks(total) IN
    /\ Len(ticks) <= 5 /\ ticks[1] >= total /\ ticks[1] - total < Step(total) + (IF total = 0 THEN 1 ELSE 0)
    /\ ticks[Len(ticks)] = 0

NearestHolds(xs, x) ==
    IF xs = <<>> THEN Nearest(xs, x) = 0
    ELSE \A i \in DOMAIN xs : \/ Distance(xs[Nearest(xs, x)], x) < Distance(xs[i], x)
                              \/ Distance(xs[Nearest(xs, x)], x) = Distance(xs[i], x) /\ Nearest(xs, x) <= i

\* A tooltip no larger than what the margins leave is inside them, and where
\* there is room on either side it does not cover the pointer.
TooltipHolds(x, width, size, touch) ==
    LET left == Across(x, width, 0, size)  top == Down(x, width, 0, size, touch) IN
    width <= size - 2 * Margin =>
        /\ left >= Margin /\ left + width <= size - Margin
        /\ top >= Margin /\ top + width <= size - Margin
        /\ \/ x + Gap + width <= size - Margin
           \/ x - Gap - width >= Margin
           => (x < left \/ x > left + width) /\ (x < top \/ x > top + width)

GrowthHolds(points) ==
    \A date \in points[1].date..(points[1].date + Days(points) - 1) :
        LET before == {i \in DOMAIN points : points[i].date < date}
            upto   == {i \in DOMAIN points : points[i].date <= date}
            total(s) == Max({0} \union {points[i].total : i \in s})
        IN  OnDay(points, date) = [total |-> total(upto), added |-> total(upto) - total(before)]

TrafficHolds(daily) ==
    LET paths == Paths(daily)  on(k) == {paths[k][i] : i \in DOMAIN paths[k]} IN
    Mode(daily) = "trend" =>
        /\ UNION {on(k) : k \in DOMAIN paths} = Valid(daily)
        /\ \A k \in DOMAIN paths : /\ on(k) = Min(on(k))..Max(on(k))
                                   /\ Min(on(k)) - 1 \notin Valid(daily) /\ Max(on(k)) + 1 \notin Valid(daily)

\* An answer that is taken has every day of its period once and no other, and the
\* charts of both metrics are broken at the same days.
AnswerHolds(answer) ==
    Taken(answer) =>
        LET of(metric) == [i \in DOMAIN answer.daily |-> answer.daily[i][metric]] IN
        /\ answer.end - answer.start + 1 = answer.asked
        /\ {answer.daily[i].date : i \in DOMAIN answer.daily} = answer.start..answer.end
        /\ Valid(of("pageLoads")) = Valid(of("visits")) /\ Paths(of("pageLoads")) = Paths(of("visits"))

\* The charts draw and find what their data say: the scale holds the total, the
\* pointer finds the nearest day, the first of two as near; a tooltip that can be
\* seen whole is; a day between publications counts those before it, and a line
\* joins archived days exactly when nothing is missing between them; an answer with
\* a day missing, doubled or half archived is refused before it is drawn
\* (chart.ts:3, 26, 40, content.ts:102, readership.ts:16, 110).
ChartsAreTrue ==
    CASE box.of = "scale"   -> ScaleHolds(box.total)
      [] box.of = "nearest" -> NearestHolds(box.xs, box.x)
      [] box.of = "tooltip" -> TooltipHolds(box.x, box.width, box.size, box.touch)
      [] box.of = "growth"  -> GrowthHolds(box.points)
      [] box.of = "traffic" -> TrafficHolds(box.daily)
      [] box.of = "answer"  -> AnswerHolds(box.answer)
=============================================================================
