--------------------------- MODULE MCStatsArchive ---------------------------
(* Two schedules that share a day, and a deployment that renames a page.   *)
EXTENDS StatsArchive, TLC

CONSTANTS r1, r2

MCDays == 0..2
MCRuns == {r1, r2}
MCAt == r1 :> 2 @@ r2 :> 3

\* /a/ is first a page and then an alias of /b/.
MCManifests == << "a" :> "a" @@ "en/a" :> "a", "b" :> "b" @@ "a" :> "b" >>

MCSiteAnswers == {[total |-> 1, visits |-> 1, interval |-> 1],
                  [total |-> 1, visits |-> 0, interval |-> 2],
                  [total |-> 0, visits |-> 0, interval |-> 0]}
MCPageAnswers == {<<>>, "en/a" :> 1}
MCSourceAnswers == {<<>>, "own" :> 1}
=============================================================================
