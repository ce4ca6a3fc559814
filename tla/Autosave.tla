------------------------------ MODULE Autosave ------------------------------
(***************************************************************************)
(* The editor of one Draft, open in several sessions (tabs, people), and   *)
(* the Draft they share on the server.                                     *)
(*                                                                         *)
(* A session is a page of apps/admin/src/features/content/editor.tsx: a    *)
(* form, an AutosaveQueue (autosave.ts) that saves full snapshots with the *)
(* version they are based on, and the workflow commands, the history's     *)
(* restore, the reload after a conflict and the guard of unsaved edits.    *)
(* The server keeps a text, its version and a state; a save is a           *)
(* compare-and-set on the version.  A request may be answered late or      *)
(* never, and a save whose client gave up may still arrive.                *)
(*                                                                         *)
(* Abstractions: a snapshot is a value of Texts; forms are valid; the form *)
(* and the queue change together (the effect of editor.tsx:191 and the     *)
(* update in flush do that); a dialog blocks its page; lists, previews and *)
(* notices are left out.                                                   *)
(***************************************************************************)
EXTENDS Naturals

CONSTANTS
    Sessions,      \* pages of the editor, by any number of people
    Texts,         \* snapshots of the form
    First,         \* the Draft everybody starts from
    MaxEdits,      \* bound: edits, over all sessions
    MaxOps,        \* bound: workflow commands and openings, over all sessions
    MaxFaults      \* bound: lost answers and expired logins

ASSUME TextsAssumption == First \in Texts
ASSUME BoundsAssumption == MaxEdits \in Nat /\ MaxOps \in Nat /\ MaxFaults \in Nat

VARIABLES
    server,   \* the Draft's text and version, and the content's state
    q,        \* per session: its page and its AutosaveQueue
    saves,    \* the PUTs that have been sent
    op,       \* per session: the command it performs
    view,     \* per session: the content's state as last fetched
    login,    \* per session: "valid", "expired", or "renewed" in another tab
    spent     \* how much of each bound is used

vars == <<server, q, saves, op, view, login, spent>>

States   == {"editable", "review", "archived"}
Statuses == {"saved", "pending", "saving", "error", "conflict"}
Results  == {"ok", "conflict", "refused", "expired"}

Kinds == {"submit", "direct", "restore", "withdraw", "unpublish", "archive", "unarchive"}

\* The commands that carry the version of the Draft they are meant for.
Versioned == {"submit", "direct", "restore"}

\* The state a command leads to, and the states the server allows it in.
Target(k) == IF k = "submit" THEN "review" ELSE IF k = "archive" THEN "archived" ELSE "editable"
AllowedIn(k) == IF k \in Versioned THEN {"editable"}
                ELSE IF k = "withdraw" THEN {"review"}
                ELSE IF k = "unarchive" THEN {"archived"} ELSE {"editable", "review"}

Idle == [kind |-> "none", phase |-> "idle", version |-> 0, text |-> First, state |-> "editable"]

Queue == [latest : Texts, acknowledged : Texts, version : Nat, status : Statuses,
          dirty : BOOLEAN, flight : {"none", "saving", "settling"}, timer : BOOLEAN,
          enabled : BOOLEAN, lapsed : BOOLEAN, epoch : Nat, open : BOOLEAN]

Save == [from : Sessions, epoch : Nat, text : Texts, base : Texts, version : Nat,
         waited : BOOLEAN, result : Results \union {"sent"}]

Op == [kind : Kinds \union {"none", "leave"}, phase : {"idle", "flush", "sent", "done"} \union Results,
       version : Nat, text : Texts, state : States]

TypeOK ==
    /\ server \in [text : Texts, version : Nat, state : States]
    /\ q \in [Sessions -> Queue]
    /\ saves \subseteq Save
    /\ op \in [Sessions -> Op]
    /\ view \in [Sessions -> States]
    /\ login \in [Sessions -> {"valid", "expired", "renewed"}]
    /\ spent \in [edits : Nat, ops : Nat, faults : Nat]

-----------------------------------------------------------------------------
(* The queue.                                                              *)

\* A queue built from what the server said of the Draft; lapsed (history only)
\* says that saving was switched off on this page.
Fresh(text, version, state, epoch) ==
    [latest |-> text, acknowledged |-> text, version |-> version, status |-> "saved",
     dirty |-> FALSE, flight |-> "none", timer |-> FALSE, enabled |-> state = "editable",
     lapsed |-> state # "editable", epoch |-> epoch, open |-> TRUE]

Paused(x) == x.status \in {"conflict", "error"}

\* (mutation: only the first edit gets a timer)
UpdateOnce(x, text) ==
    LET dirty == text # x.acknowledged
    IN  [x EXCEPT !.latest = text, !.dirty = dirty,
                  !.status = IF Paused(x) THEN @
                             ELSE IF x.flight = "saving" THEN "saving"
                             ELSE IF dirty THEN "pending" ELSE "saved",
                  !.timer = dirty /\ ~x.dirty /\ x.enabled /\ ~Paused(x) /\ x.flight = "none"]

\* update: a new snapshot of the form.
Update(x, text) ==
    LET dirty == text # x.acknowledged
    IN  [x EXCEPT !.latest = text,
                  !.dirty  = dirty,
                  !.status = IF Paused(x) THEN @
                             ELSE IF x.flight = "saving" THEN "saving"
                             ELSE IF dirty THEN "pending" ELSE "saved",
                  !.timer  = dirty /\ x.enabled /\ ~Paused(x) /\ x.flight = "none"]

\* setEnabled.
SetEnabled(x, value) == [x EXCEPT !.enabled = value, !.timer = @ /\ value,
                                      !.lapsed = @ \/ ~value]

\* flush refuses a page that is read-only and one in conflict, and starts to
\* drain when there is something to save and nothing is on its way.
Refuses(x) == ~x.enabled \/ x.status = "conflict"
Starts(x)  == ~Refuses(x) /\ x.flight = "none" /\ x.dirty

\* One turn of drain's loop: the snapshot goes out with the version it is for.
Sending(x) == [x EXCEPT !.status = "saving", !.flight = "saving", !.timer = FALSE]

Put(s, x) == [from |-> s, epoch |-> x.epoch, text |-> x.latest, base |-> x.acknowledged,
              version |-> x.version, waited |-> TRUE, result |-> "sent"]

\* (mutation: what was typed meanwhile counts as saved)
AcknowledgeAll(x, m) ==
    [x EXCEPT !.acknowledged = m.text, !.version = m.version + 1, !.dirty = FALSE,
              !.status = "saved", !.flight = "settling"]

\* A save was acknowledged: what was typed meanwhile keeps the queue dirty.
Acknowledge(x, m) ==
    LET dirty == x.latest # m.text
    IN  [x EXCEPT !.acknowledged = m.text, !.version = m.version + 1, !.dirty = dirty,
                  !.status = IF dirty THEN "pending" ELSE "saved", !.flight = "settling"]

\* A save failed.  An expired login also ends autosave on this page.
Failed(x, result) ==
    [x EXCEPT !.status = IF result = "conflict" THEN "conflict" ELSE "error", !.dirty = TRUE,
              !.flight = "settling", !.enabled = @ /\ result # "expired",
              !.lapsed = @ \/ result = "expired"]

\* flush's finally: an edit that came as the completion was delivered gets a timer.
Settled(x) ==
    [x EXCEPT !.flight = "none", !.timer = x.dirty /\ x.status = "pending" /\ x.enabled]

\* conflict, reported by a command.
Conflicted(x) == [x EXCEPT !.status = "conflict", !.timer = FALSE]

-----------------------------------------------------------------------------
Init ==
    /\ server = [text |-> First, version |-> 1, state |-> "editable"]
    /\ q = [s \in Sessions |-> Fresh(First, 1, "editable", 0)]
    /\ saves = {}
    /\ op = [s \in Sessions |-> Idle]
    /\ view = [s \in Sessions |-> "editable"]
    /\ login = [s \in Sessions |-> "valid"]
    /\ spent = [edits |-> 0, ops |-> 0, faults |-> 0]

Busy(s) == op[s].kind # "none"
Unsaved(s) == q[s].dirty \/ q[s].flight = "saving"

\* A keystroke: the fieldset is disabled while a command runs and when locked.
Type(s, text) ==
    /\ q[s].open /\ ~Busy(s) /\ view[s] = "editable"
    /\ text # q[s].latest
    /\ spent.edits < MaxEdits
    /\ q' = [q EXCEPT ![s] = Update(@, text)]
    /\ spent' = [spent EXCEPT !.edits = @ + 1]
    /\ UNCHANGED <<server, saves, op, view, login>>

Flush(s) ==
    /\ Starts(q[s])
    /\ q' = [q EXCEPT ![s] = Sending(@)]
    /\ saves' = saves \union {Put(s, q[s])}

\* The debounce ends.
TimerFires(s) ==
    /\ q[s].open /\ q[s].timer
    /\ Flush(s)
    /\ UNCHANGED <<server, op, view, login, spent>>

\* The save button or Ctrl+S, also the retry after an error.
SaveNow(s) ==
    /\ q[s].open /\ ~Busy(s) /\ view[s] = "editable"
    /\ Flush(s)
    /\ UNCHANGED <<server, op, view, login, spent>>

\* (mutation: the last writer wins)
AnswerUnversioned(m) ==
    IF login[m.from] = "expired" THEN "expired"
    ELSE IF server.state # "editable" THEN "refused" ELSE "ok"

\* The server's answer to a PUT: a compare-and-set on the version.
Answer(m) ==
    IF login[m.from] = "expired" THEN "expired"
    ELSE IF server.state # "editable" THEN "refused"
    ELSE IF m.version # server.version THEN "conflict" ELSE "ok"

ServerSaves(m) ==
    /\ m \in saves /\ m.result = "sent"
    /\ server' = IF Answer(m) = "ok"
                 THEN [server EXCEPT !.text = m.text, !.version = @ + 1] ELSE server
    /\ saves' = (saves \ {m}) \union (IF m.waited THEN {[m EXCEPT !.result = Answer(m)]} ELSE {})
    /\ UNCHANGED <<q, op, view, login, spent>>

\* The page takes the answer; drain goes on at once if it must.
SaveAnswered(m) ==
    LET s    == m.from
        next == IF m.result = "ok" THEN Acknowledge(q[s], m) ELSE Failed(q[s], m.result)
        more == m.result = "ok" /\ next.dirty /\ next.enabled
    IN  /\ m \in saves /\ m.waited /\ m.result # "sent"
        /\ IF m.epoch # q[s].epoch \/ ~q[s].open
           THEN saves' = saves \ {m} /\ UNCHANGED q
           ELSE /\ q' = [q EXCEPT ![s] = IF more THEN Sending(next) ELSE next]
                /\ saves' = (saves \ {m}) \union (IF more THEN {Put(s, next)} ELSE {})
        /\ UNCHANGED <<server, op, view, login, spent>>

\* The connection breaks: the page sees an error, the request may yet arrive.
SaveLost(m) ==
    LET s == m.from
    IN  /\ m \in saves /\ m.waited
        /\ spent.faults < MaxFaults
        /\ spent' = [spent EXCEPT !.faults = @ + 1]
        /\ saves' = (saves \ {m}) \union
                      (IF m.result = "sent" THEN {[m EXCEPT !.waited = FALSE]} ELSE {})
        /\ q' = IF m.epoch = q[s].epoch /\ q[s].open
                THEN [q EXCEPT ![s] = Failed(@, "lost")] ELSE q
        /\ UNCHANGED <<server, op, view, login>>

\* flush's finally runs in a later microtask than drain's last assignment.
Settle(s) ==
    /\ q[s].flight = "settling"
    /\ q' = [q EXCEPT ![s] = Settled(@)]
    /\ UNCHANGED <<server, saves, op, view, login, spent>>

-----------------------------------------------------------------------------
(* Commands: perform, the history's restore, and save-and-leave.           *)

\* The buttons content.actions offers and the page does not disable.
Offered(s, k) ==
    /\ view[s] \in AllowedIn(k)
    /\ k \in Versioned => q[s].status # "conflict"

\* An editable Draft is flushed first; nothing is flushed on a locked page.
Perform(s, k) ==
    /\ q[s].open /\ ~Busy(s) /\ q[s].flight # "settling"
    /\ k # "leave" => Offered(s, k) /\ spent.ops < MaxOps
    /\ k = "leave" => q[s].dirty /\ q[s].flight = "none"
    /\ view[s] = "editable" \/ k = "leave" => ~Refuses(q[s])
    /\ op' = [op EXCEPT ![s] = [Idle EXCEPT !.kind = k, !.phase = "flush", !.state = view[s]]]
    /\ IF Starts(q[s]) /\ (view[s] = "editable" \/ k = "leave")
       THEN Flush(s) ELSE UNCHANGED <<q, saves>>
    /\ spent' = IF k = "leave" THEN spent ELSE [spent EXCEPT !.ops = @ + 1]
    /\ UNCHANGED <<server, view, login>>

\* (mutation: the command does not wait for the save)
FlushedEarly(s) == op[s].phase = "flush"

\* flush has resolved or rejected.
Flushed(s) ==
    /\ op[s].phase = "flush"
    /\ op[s].state = "editable" \/ op[s].kind = "leave" => q[s].flight = "none"

\* A save that failed leaves its queue dirty.  With nothing dirty flush resolves,
\* also when the status still tells of the last failure.
Unsavable(x) == Paused(x) /\ x.dirty
FlushFailed(s) == op[s].state = "editable" /\ Unsavable(q[s])

\* The command is dropped: flush failed, or the question was answered no.
Drop(s) ==
    /\ Flushed(s)
    /\ op' = [op EXCEPT ![s] = Idle]
    /\ UNCHANGED <<server, q, saves, view, login, spent>>

\* The question, if any, is answered yes: the request goes out.
Send(s) ==
    /\ Flushed(s) /\ ~FlushFailed(s) /\ op[s].kind # "leave"
    /\ op' = [op EXCEPT ![s].phase = "sent", ![s].version = q[s].version]
    /\ UNCHANGED <<server, q, saves, view, login, spent>>

\* The server runs the command; restore replaces the Draft's text.
ServerActs(s, text) ==
    LET k      == op[s].kind
        result == IF login[s] = "expired" THEN "expired"
                  ELSE IF server.state \notin AllowedIn(k) THEN "refused"
                  ELSE IF k \in Versioned /\ op[s].version # server.version THEN "conflict"
                  ELSE "ok"
        next   == IF k = "restore"
                  THEN [server EXCEPT !.text = text, !.version = @ + 1]
                  ELSE [server EXCEPT !.state = Target(k)]
    IN  /\ op[s].phase = "sent"
        /\ k # "restore" => text = First
        /\ server' = IF result = "ok" THEN next ELSE server
        /\ op' = [op EXCEPT ![s].phase = result, ![s].text = server'.text,
                            ![s].version = server'.version, ![s].state = server'.state]
        /\ UNCHANGED <<q, saves, view, login, spent>>

\* The page takes the answer: a new queue, a conflict, or a notice.
OpAnswered(s) ==
    /\ op[s].phase \in Results
    /\ op' = [op EXCEPT ![s] = Idle]
    /\ IF op[s].phase = "ok"
       THEN /\ q' = [q EXCEPT ![s] = Fresh(op[s].text, op[s].version, op[s].state, @.epoch + 1)]
            /\ view' = [view EXCEPT ![s] = op[s].state]
       ELSE /\ q' = [q EXCEPT ![s] = IF op[s].phase = "conflict" THEN Conflicted(@)
                                     ELSE IF op[s].phase = "expired" THEN SetEnabled(@, FALSE)
                                     ELSE @]
            /\ UNCHANGED view
    /\ UNCHANGED <<server, saves, login, spent>>

\* The connection breaks before or after the server acted.
OpLost(s) ==
    /\ op[s].phase = "sent" \/ op[s].phase \in Results
    /\ spent.faults < MaxFaults
    /\ spent' = [spent EXCEPT !.faults = @ + 1]
    /\ op' = [op EXCEPT ![s] = Idle]
    /\ UNCHANGED <<server, q, saves, view, login>>

\* reloadServer, after the explicit question in the conflict panel.
Reload(s) ==
    /\ q[s].open /\ q[s].status = "conflict" /\ ~Busy(s) /\ login[s] # "expired"
    /\ q' = [q EXCEPT ![s] = Fresh(server.text, server.version, server.state, @.epoch + 1)]
    /\ view' = [view EXCEPT ![s] = server.state]
    /\ UNCHANGED <<server, saves, op, login, spent>>

\* A refetch of the content; only a change of editDraft reaches the queue.
Refetch(s) ==
    /\ q[s].open
    /\ view[s] # server.state \/ login[s] = "expired"
    /\ IF login[s] = "expired"
       THEN q' = [q EXCEPT ![s] = SetEnabled(@, FALSE)] /\ UNCHANGED view
       ELSE /\ view' = [view EXCEPT ![s] = server.state]
            /\ q' = IF (view[s] = "editable") = (server.state = "editable") THEN q
                    ELSE [q EXCEPT ![s] = SetEnabled(@, server.state = "editable")]
    /\ UNCHANGED <<server, saves, op, login, spent>>

\* Leaving with nothing unsaved; dropping the edits; after saving them.
Leave(s) ==
    /\ q[s].open /\ ~Busy(s) /\ ~Unsaved(s) /\ q[s].flight = "none"
    /\ q' = [q EXCEPT ![s].open = FALSE]
    /\ UNCHANGED <<server, saves, op, view, login, spent>>

Discard(s) ==
    /\ q[s].open /\ ~Busy(s) /\ q[s].dirty /\ q[s].flight = "none"
    /\ q' = [q EXCEPT ![s] = [SetEnabled(@, FALSE) EXCEPT !.open = FALSE]]
    /\ UNCHANGED <<server, saves, op, view, login, spent>>

SavedAndLeaves(s) ==
    /\ op[s].kind = "leave" /\ Flushed(s) /\ ~Unsavable(q[s])
    /\ q' = [q EXCEPT ![s] = [SetEnabled(@, FALSE) EXCEPT !.open = FALSE]]
    /\ op' = [op EXCEPT ![s] = Idle]
    /\ UNCHANGED <<server, saves, view, login, spent>>

\* The editor is opened again.
Open(s) ==
    /\ ~q[s].open /\ login[s] # "expired" /\ spent.ops < MaxOps
    /\ q' = [q EXCEPT ![s] = Fresh(server.text, server.version, server.state, @.epoch + 1)]
    /\ view' = [view EXCEPT ![s] = server.state]
    /\ spent' = [spent EXCEPT !.ops = @ + 1]
    /\ UNCHANGED <<server, saves, op, login>>

\* The reviewer decides.
Decide ==
    /\ server.state = "review"
    /\ server' = [server EXCEPT !.state = "editable"]
    /\ UNCHANGED <<q, saves, op, view, login, spent>>

\* The login of a browser ends, and is renewed in another tab.
Expire(s) ==
    /\ login[s] = "valid" /\ spent.faults < MaxFaults
    /\ login' = [login EXCEPT ![s] = "expired"]
    /\ spent' = [spent EXCEPT !.faults = @ + 1]
    /\ UNCHANGED <<server, q, saves, op, view>>

Renew(s) ==
    /\ login[s] = "expired"
    /\ login' = [login EXCEPT ![s] = "renewed"]
    /\ UNCHANGED <<server, q, saves, op, view, spent>>

Next ==
    \/ \E s \in Sessions, t \in Texts : Type(s, t)
    \/ \E s \in Sessions, t \in Texts : ServerActs(s, t)
    \/ \E s \in Sessions :
          \/ TimerFires(s) \/ SaveNow(s) \/ Settle(s) \/ Drop(s) \/ Send(s)
          \/ OpAnswered(s) \/ OpLost(s) \/ Reload(s) \/ Refetch(s) \/ Leave(s)
          \/ Discard(s) \/ SavedAndLeaves(s) \/ Open(s) \/ Expire(s) \/ Renew(s)
    \/ \E s \in Sessions, k \in Kinds \union {"leave"} : Perform(s, k)
    \/ \E m \in saves : ServerSaves(m)
    \/ \E m \in saves : SaveAnswered(m)
    \/ \E m \in saves : SaveLost(m)
    \/ Decide

Spec == Init /\ [][Next]_vars

\* Timers fire, requests reach the server, answers and microtasks are delivered.
Fairness ==
    \A s \in Sessions :
        /\ WF_vars(TimerFires(s)) /\ WF_vars(Settle(s))
        /\ WF_vars(\E m \in saves : m.from = s /\ ServerSaves(m))
        /\ WF_vars(\E m \in saves : m.from = s /\ SaveAnswered(m))

LiveSpec == Spec /\ Fairness

-----------------------------------------------------------------------------
(* Properties.                                                             *)

\* One PUT at a time per page: no page waits for two saves of one queue, and
\* while it waits its queue says so (flush hands out the flight it has).
OneSaveInFlight ==
    /\ \A m, n \in saves :
          m.waited /\ n.waited /\ m.from = n.from /\ m.epoch = n.epoch => m = n
    /\ \A m \in saves : m.waited =>
          /\ m.epoch <= q[m.from].epoch
          /\ m.epoch = q[m.from].epoch => q[m.from].flight = "saving"

\* Nobody is ahead of the server, and whoever holds its version knows its text.
Agrees(version, text) ==
    version <= server.version /\ (version = server.version => text = server.text)

VersionsNameTexts ==
    /\ \A s \in Sessions : Agrees(q[s].version, q[s].acknowledged)
    /\ \A s \in Sessions : op[s].phase = "ok" => Agrees(op[s].version, op[s].text)
    /\ \A m \in saves : m.result = "sent" => Agrees(m.version, m.base)
    /\ \A m \in saves : m.result = "ok" => Agrees(m.version + 1, m.text)

\* What the pages, the requests on their way and the server have in common: a
\* version stands for one text, wherever it is held, and each page waits for at
\* most one save (autosave.ts:102, :124; editor.tsx:225; history.tsx:64).
DraftInv == TypeOK /\ OneSaveInFlight /\ VersionsNameTexts

\* A save replaces only the text its page was working from: what another
\* session stored meanwhile is never overwritten, also after lost answers, late
\* requests, restores and reloads (the version in the PUT, api.ts:36, and the
\* version each answer and reload hands to the queue).
NoForeignOverwrite ==
    [][\A m \in saves : m.result = "sent" /\ ServerSaves(m) /\ server' # server
         => server.text = m.base]_vars

\* What s typed and the server never acknowledged is gone from its page.
LosesEdits(s) ==
    /\ q[s].open /\ q[s].latest # q[s].acknowledged
    /\ q'[s].latest # q[s].latest \/ ~q'[s].open
ByTheUser(s) == (\E t \in Texts : Type(s, t)) \/ Reload(s) \/ Discard(s)

\* ADR 0007: unsaved text is preserved.  A page gives up typed text only when its
\* user types on, discards it or asks for the server's version.
LocalEditsKept == [][\A s \in Sessions : LosesEdits(s) => ByTheUser(s)]_vars

\* The same, as far as the code goes: on a page whose queue was never disabled
\* (editor.tsx:222 flushes before a command only when the Draft is editable).
LocalEditsKeptWhileEnabled ==
    [][\A s \in Sessions : LosesEdits(s) /\ ~q[s].lapsed => ByTheUser(s)]_vars

\* The reviewer and the public get what the author saw: when the server takes a
\* submission or a direct publication of a page never disabled, the Draft it
\* freezes is the text on that page (editor.tsx:222, autosave.ts:102, :120).
SubmitTakesWhatIsShown ==
    [][\A s \in Sessions : op[s].phase = "sent" /\ op'[s].phase = "ok"
          /\ op[s].kind \in {"submit", "direct"} /\ ~q[s].lapsed
         => server.text = q[s].latest]_vars

\* On a page whose queue was never disabled an edit ends up on the server, or
\* the page says that autosave stopped (autosave.ts:92, :113, :120).
EditsSettle ==
    \A s \in Sessions :
        (q[s].open /\ ~q[s].lapsed /\ q[s].dirty)
            ~> (~q[s].dirty \/ Paused(q[s]) \/ q[s].lapsed \/ ~q[s].open)
=============================================================================
