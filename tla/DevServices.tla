----------------------------- MODULE DevServices ----------------------------
(***************************************************************************)
(* The development services (scripts/dev.mjs, dev-web.mjs): a supervisor   *)
(* of the CMS, the Admin and the public site (dev-processes.mjs) and a     *)
(* watcher that restarts the site when another generation is published     *)
(* (dev-snapshot-watcher.mjs, dev-storage.mjs).  A process may exit, the   *)
(* developer may interrupt, and a snapshot or a write may fail at any step *)
(* of a restart.                                                           *)
(*                                                                         *)
(* Abstractions: a process and its group are one; a signal ends it sooner  *)
(* or later, and after the grace period at once.  The storage only moves   *)
(* on, as the CMS's generations do.                                        *)
(***************************************************************************)
EXTENDS Naturals, Sequences, FiniteSets

CONSTANTS
    MaxGen,       \* bound on the generations
    MaxStarts     \* bound on the processes started

Names == {"CMS", "Admin", "PublicWeb"}

VARIABLE
    box    \* the processes ever started, those listed, the one of each name,
           \* whether the supervisor stops and with what code; the watcher;
           \* the storage and the prepared content

Live(b)        == {i \in DOMAIN b.procs : b.procs[i].state # "closed"}
Launched(b, n) ==
    [b EXCEPT !.procs = Append(@, [name |-> n, state |-> "up", serves |-> IF n = "PublicWeb" THEN b.prepared ELSE 0]),
              !.listed = @ \union {Len(b.procs) + 1}, !.running[n] = Len(b.procs) + 1]

\* SIGTERM to a group that is still there.
Signalled(b, ids) ==
    [b EXCEPT !.procs = [i \in DOMAIN @ |-> IF i \in ids \intersect Live(b) THEN [@[i] EXCEPT !.state = "ending"] ELSE @[i]]]

\* stop: only the first one counts.
Stopped(b, code) ==
    IF b.stopping THEN b
    ELSE [Signalled(b, b.listed) EXCEPT !.stopping = TRUE, !.code = code, !.victims = b.listed]

\* prepareDevelopmentWeb: what can be read of the storage, or an empty site; then the processes.
Init ==
    \E latest \in 0..1, sound \in BOOLEAN :
        LET generation == IF sound THEN latest ELSE 0
            none == [procs |-> <<>>, listed |-> {}, running |-> [n \in Names |-> 0], intentional |-> {},
                     stopping |-> FALSE, code |-> 0, victims |-> {}, finished |-> FALSE,
                     pc |-> "wait", generation |-> generation, target |-> 0, failed |-> FALSE,
                     latest |-> latest, sound |-> sound, prepared |-> generation]
        IN  box = Launched(Launched(Launched(none, "CMS"), "Admin"), "PublicWeb")

-----------------------------------------------------------------------------
(* The world around: the CMS publishes, a process ends, the developer.      *)

Publish ==
    /\ box.latest < MaxGen
    /\ \E sound \in BOOLEAN : box' = [box EXCEPT !.latest = @ + 1, !.sound = sound]

Repair == ~box.sound /\ box' = [box EXCEPT !.sound = TRUE]

\* The exit of a process that was not asked to end, or could not start, ends all.
Exits ==
    \E i \in Live(box) :
        LET b == [box EXCEPT !.procs[i].state = "closed"]
        IN  box' = IF i \in box.intentional THEN b ELSE Stopped(b, 1)

Interrupt == ~box.stopping /\ \E code \in {130, 143} : box' = Stopped(box, code)

\* The grace period is over for what stop waits for.
Kill ==
    /\ box.stopping /\ box.victims \intersect Live(box) # {}
    /\ box' = [box EXCEPT !.procs = [i \in DOMAIN @ |-> IF i \in box.victims THEN [@[i] EXCEPT !.state = "closed"] ELSE @[i]]]

Finish ==
    /\ box.stopping /\ ~box.finished /\ box.victims \intersect Live(box) = {}
    /\ box' = [box EXCEPT !.finished = TRUE]

-----------------------------------------------------------------------------
(* The watcher: one poll after the other.                                   *)

Waits(b, failed) == [b EXCEPT !.pc = "wait", !.failed = failed]

\* Reading latest.json; when it names another generation, the snapshot is next.
Poll ==
    /\ box.pc = "wait" /\ ~box.stopping
    /\ box' = IF box.latest = 0 \/ ~box.sound THEN Waits(box, TRUE)
              ELSE IF box.latest = box.generation THEN Waits(box, FALSE)
              ELSE [box EXCEPT !.pc = "prepare"]

\* readLocalPrepared reads latest.json again; then restart asks the old site to end.
Prepare ==
    /\ box.pc = "prepare"
    /\ LET web == box.running["PublicWeb"]
           b   == [box EXCEPT !.target = box.latest]
       IN  box' = IF ~box.sound THEN Waits(b, TRUE)
                  ELSE IF box.stopping THEN [b EXCEPT !.pc = "over"]
                  ELSE [Signalled(b, {web}) EXCEPT !.pc = "closing", !.intentional = @ \union {web}]

Closed ==
    /\ box.pc = "closing" /\ box.running["PublicWeb"] \notin Live(box)
    /\ box' = [box EXCEPT !.listed = @ \ {box.running["PublicWeb"]},
                          !.pc = IF box.stopping THEN "over" ELSE "write"]

\* (mutation: the new site is started though the supervisor stops)
MayLaunchAlways(b) == TRUE

MayLaunch(b) == ~b.stopping

\* writePrepared, then the new site; the generation is the watcher's from now on.
Write ==
    /\ box.pc = "write" /\ Len(box.procs) < MaxStarts
    /\ LET b == [Waits(box, FALSE) EXCEPT !.prepared = box.target, !.generation = box.target] IN
       box' = IF MayLaunch(b) THEN Launched(b, "PublicWeb") ELSE b

WriteFails ==
    /\ box.pc = "write"
    /\ box' = Waits(box, TRUE)

Next ==
    \/ Publish \/ Repair \/ Exits \/ Interrupt \/ Kill \/ Finish
    \/ Poll \/ Prepare \/ Closed \/ Write \/ WriteFails

Spec == Init /\ [][Next]_box

-----------------------------------------------------------------------------
(* Properties.                                                              *)

Web == {i \in Live(box) : box.procs[i].name = "PublicWeb" /\ i \notin box.intentional}

\* There is never a second process of a name, however a restart meets an exit, an
\* interrupt or a failure; the site that runs serves what was prepared last, which
\* is the generation the watcher compares with, and it runs unless the watcher is
\* at it or failed and tries again; once the supervisor has finished nothing runs
\* (dev-processes.mjs:82, 130, dev-snapshot-watcher.mjs:35).
SiteIsWhatWasPrepared ==
    /\ \A i, j \in Live(box) : box.procs[i].name = box.procs[j].name => i = j
    /\ \A i \in Web : box.procs[i].serves = box.prepared
    /\ ~box.stopping /\ box.pc = "wait" =>
          /\ Web # {} => box.prepared = box.generation
          /\ Web = {} => box.failed
    /\ box.finished => Live(box) = {}
=============================================================================
