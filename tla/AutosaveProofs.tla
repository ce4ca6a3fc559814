--------------------------- MODULE AutosaveProofs ---------------------------
(***************************************************************************)
(* Proofs about Autosave, for any sessions, texts and bounds.              *)
(*                                                                         *)
(* DraftInv is inductive: a version stands for one text wherever it is     *)
(* held, because only the server makes a version, always for a new text,   *)
(* and a page takes version and text from the same answer.  That a save    *)
(* replaces only the text it was based on follows at once.                 *)
(*                                                                         *)
(* PagesInv adds what a page whose saving was never switched off has done  *)
(* by the time its command is on its way: everything typed is with the     *)
(* server.  So an answer replaces nothing, and a submission freezes what   *)
(* the page shows.                                                         *)
(***************************************************************************)
EXTENDS Autosave, TLAPS

\* The result of a command is a state, and a queue's operations keep its shape.
LEMMA TargetType == ASSUME NEW k PROVE Target(k) \in States
  BY DEF Target, States

LEMMA FreshType ==
  ASSUME NEW t \in Texts, NEW v \in Nat, NEW st, NEW e \in Nat
  PROVE  Fresh(t, v, st, e) \in Queue
  BY DEF Fresh, Queue, Statuses

LEMMA QueueOps ==
  ASSUME NEW x \in Queue
  PROVE  /\ \A t \in Texts : Update(x, t) \in Queue
         /\ \A v \in BOOLEAN : SetEnabled(x, v) \in Queue
         /\ Sending(x) \in Queue
         /\ \A m \in Save : Acknowledge(x, m) \in Queue
         /\ \A r : Failed(x, r) \in Queue
         /\ Settled(x) \in Queue
         /\ Conflicted(x) \in Queue
         /\ [x EXCEPT !.open = FALSE] \in Queue
<1>1. \A t \in Texts : Update(x, t) \in Queue
  BY ZenonT(60) DEF Update, Paused, Queue, Statuses
<1>2. \A v \in BOOLEAN : SetEnabled(x, v) \in Queue
  BY DEF SetEnabled, Queue
<1>3. Sending(x) \in Queue
  BY DEF Sending, Queue, Statuses
<1>4. \A m \in Save : Acknowledge(x, m) \in Queue
  <2> TAKE m \in Save
  <2> DEFINE di == x.latest # m.text
             st == IF di THEN "pending" ELSE "saved"
             v  == m.version + 1
  <2>1. di \in BOOLEAN /\ st \in Statuses
    BY DEF Statuses
  <2>2. v \in Nat /\ m.text \in Texts
    BY DEF Save
  <2>3. Acknowledge(x, m) = [x EXCEPT !.acknowledged = m.text, !.version = v, !.dirty = di,
                                      !.status = st, !.flight = "settling"]
    BY DEF Acknowledge, Queue
  <2> HIDE DEF di, st, v
  <2> QED BY <2>1, <2>2, <2>3 DEF Queue
<1>5. \A r : Failed(x, r) \in Queue
  <2> TAKE r
  <2> DEFINE en == x.enabled /\ r # "expired"
             la == x.lapsed \/ r = "expired"
             st == IF r = "conflict" THEN "conflict" ELSE "error"
  <2>1. en \in BOOLEAN /\ la \in BOOLEAN /\ st \in Statuses
    BY DEF Statuses
  <2>2. Failed(x, r) = [x EXCEPT !.status = st, !.dirty = TRUE, !.flight = "settling",
                                 !.enabled = en, !.lapsed = la]
    BY DEF Failed, Queue
  <2> HIDE DEF en, la, st
  <2> QED BY <2>1, <2>2 DEF Queue
<1>6. Settled(x) \in Queue
  BY DEF Settled, Queue
<1>7. Conflicted(x) \in Queue
  BY DEF Conflicted, Queue, Statuses
<1>8. [x EXCEPT !.open = FALSE] \in Queue
  BY DEF Queue
<1> QED BY <1>1, <1>2, <1>3, <1>4, <1>5, <1>6, <1>7, <1>8

LEMMA PutType ==
  ASSUME NEW s \in Sessions, NEW x \in Queue
  PROVE  Put(s, x) \in Save
  BY DEF Put, Save, Queue, Results

\* What an operation on a queue leaves of the fields the invariant reads.
LEMMA QueueFields ==
  ASSUME NEW x \in Queue
  PROVE  /\ \A t : /\ Update(x, t).version = x.version
                   /\ Update(x, t).acknowledged = x.acknowledged
                   /\ Update(x, t).flight = x.flight /\ Update(x, t).epoch = x.epoch
         /\ \A v : /\ SetEnabled(x, v).version = x.version
                   /\ SetEnabled(x, v).acknowledged = x.acknowledged
                   /\ SetEnabled(x, v).flight = x.flight /\ SetEnabled(x, v).epoch = x.epoch
         /\ /\ Sending(x).version = x.version /\ Sending(x).acknowledged = x.acknowledged
            /\ Sending(x).flight = "saving" /\ Sending(x).epoch = x.epoch
         /\ \A m : /\ Acknowledge(x, m).version = m.version + 1
                   /\ Acknowledge(x, m).acknowledged = m.text
                   /\ Acknowledge(x, m).flight = "settling" /\ Acknowledge(x, m).epoch = x.epoch
         /\ \A r : /\ Failed(x, r).version = x.version
                   /\ Failed(x, r).acknowledged = x.acknowledged
                   /\ Failed(x, r).flight = "settling" /\ Failed(x, r).epoch = x.epoch
         /\ /\ Settled(x).version = x.version /\ Settled(x).acknowledged = x.acknowledged
            /\ Settled(x).flight = "none" /\ Settled(x).epoch = x.epoch
         /\ /\ Conflicted(x).version = x.version /\ Conflicted(x).acknowledged = x.acknowledged
            /\ Conflicted(x).flight = x.flight /\ Conflicted(x).epoch = x.epoch
  BY DEF Update, SetEnabled, Sending, Acknowledge, Failed, Settled, Conflicted, Queue

-----------------------------------------------------------------------------
LEMMA InitInv == Init => DraftInv
<1> SUFFICES ASSUME Init PROVE DraftInv
  OBVIOUS
<1> USE TextsAssumption DEF Init
<1>1. TypeOK
  <2>1. q \in [Sessions -> Queue]
    BY FreshType DEF States
  <2> QED BY <2>1 DEF TypeOK, States, Idle, Op, Kinds, Results
<1>2. OneSaveInFlight
  BY DEF OneSaveInFlight
<1>3. VersionsNameTexts
  BY DEF VersionsNameTexts, Agrees, Fresh, Idle
<1> QED BY <1>1, <1>2, <1>3 DEF DraftInv

\* The queue of one page changes to one that agrees with the same server.
LEMMA OnePage ==
  ASSUME TypeOK, NEW s \in Sessions, NEW x \in Queue, q' = [q EXCEPT ![s] = x]
  PROVE  /\ q' \in [Sessions -> Queue]
         /\ q'[s] = x
         /\ \A r \in Sessions : r # s => q'[r] = q[r]
  BY DEF TypeOK

\* Only the server moves the version, and only up.
LEMMA ServerMoves ==
  ASSUME TypeOK, Next
  PROVE  /\ server'.version \in {server.version, server.version + 1}
         /\ server'.version = server.version => server'.text = server.text
<1>1. server.version \in Nat /\ server = [text |-> server.text, version |-> server.version, state |-> server.state]
  BY DEF TypeOK
<1>2. ASSUME NEW m \in saves, ServerSaves(m)
      PROVE  server' = [server EXCEPT !.text = m.text, !.version = @ + 1] \/ server' = server
  BY <1>2 DEF ServerSaves
<1>3. ASSUME NEW s \in Sessions, NEW t \in Texts, ServerActs(s, t)
      PROVE  \/ server' = [server EXCEPT !.text = t, !.version = @ + 1]
             \/ \E u : server' = [server EXCEPT !.state = u]
             \/ server' = server
  BY <1>3 DEF ServerActs
<1>a. ASSUME NEW t, server' = [server EXCEPT !.text = t, !.version = @ + 1]
      PROVE  server'.version = server.version + 1
  <2>1. server' = [text |-> t, version |-> server.version + 1, state |-> server.state]
    BY <1>1, <1>a
  <2> QED BY <2>1
<1>b. ASSUME NEW u, server' = [server EXCEPT !.state = u]
      PROVE  server'.version = server.version /\ server'.text = server.text
  BY <1>1, <1>b
<1>c. server.version + 1 # server.version
  BY <1>1
<1>4. CASE Decide
  BY <1>b, <1>4 DEF Decide
<1>5. CASE \E m \in saves : ServerSaves(m)
  BY <1>a, <1>c, <1>2, <1>5
<1>6. CASE \E s \in Sessions, t \in Texts : ServerActs(s, t)
  BY <1>a, <1>b, <1>c, <1>3, <1>6
<1>7. CASE server' = server
  BY <1>1, <1>7
<1> QED
  BY <1>4, <1>5, <1>6, <1>7
     DEF Next, Type, TimerFires, SaveNow, SaveAnswered, SaveLost, Settle, Perform, Drop, Send,
         OpAnswered, OpLost, Reload, Refetch, Leave, Discard, SavedAndLeaves, Open, Expire, Renew
-----------------------------------------------------------------------------
(* Types.                                                                  *)

LEMMA FlushType ==
  ASSUME TypeOK, NEW s \in Sessions, Flush(s)
  PROVE  q' \in [Sessions -> Queue] /\ saves' \subseteq Save
<1>1. q[s] \in Queue
  BY DEF TypeOK
<1>2. Sending(q[s]) \in Queue /\ Put(s, q[s]) \in Save
  BY <1>1, QueueOps, PutType
<1> QED BY <1>2 DEF Flush, TypeOK

\* A page opened anew from what the server says.
LEMMA AnewType ==
  ASSUME TypeOK, NEW s \in Sessions, NEW t \in Texts, NEW v \in Nat, NEW st,
         q' = [q EXCEPT ![s] = Fresh(t, v, st, @.epoch + 1)]
  PROVE  q' \in [Sessions -> Queue]
<1>1. q[s].epoch + 1 \in Nat
  BY DEF TypeOK, Queue
<1>2. Fresh(t, v, st, q[s].epoch + 1) \in Queue
  BY <1>1, FreshType
<1> QED BY <1>2 DEF TypeOK

LEMMA IdleType == Idle \in Op
  BY TextsAssumption DEF Op, Idle, Kinds, States, Results

\* A save or a restore gives the Draft a text and the next version.
LEMMA NewText ==
  ASSUME server \in [text : Texts, version : Nat, state : States], NEW t \in Texts
  PROVE  [server EXCEPT !.text = t, !.version = @ + 1] \in [text : Texts, version : Nat, state : States]
<1> DEFINE v == server.version + 1
<1>1. v \in Nat
  OBVIOUS
<1>2. [server EXCEPT !.text = t, !.version = @ + 1] = [server EXCEPT !.text = t, !.version = v]
  OBVIOUS
<1> HIDE DEF v
<1> QED BY <1>1, <1>2

LEMMA OpType ==
  ASSUME NEW o \in Op
  PROVE  /\ \A v \in Nat : [o EXCEPT !.phase = "sent", !.version = v] \in Op
         /\ \A k \in Kinds \union {"leave"}, st \in States :
               [Idle EXCEPT !.kind = k, !.phase = "flush", !.state = st] \in Op
         /\ \A r \in Results, t \in Texts, v \in Nat, st \in States :
               [o EXCEPT !.phase = r, !.text = t, !.version = v, !.state = st] \in Op
  BY TextsAssumption, ZenonT(60) DEF Op, Idle, Kinds, States, Results

LEMMA TypeStep == ASSUME TypeOK, [Next]_vars PROVE TypeOK'
<1> USE DEF TypeOK
<1>0. \A s \in Sessions : q[s] \in Queue /\ op[s] \in Op
  OBVIOUS
<1>s. server = [text |-> server.text, version |-> server.version, state |-> server.state]
      /\ server.text \in Texts /\ server.version \in Nat /\ server.state \in States
  OBVIOUS
<1>f. spent = [edits |-> spent.edits, ops |-> spent.ops, faults |-> spent.faults]
      /\ [spent EXCEPT !.edits = @ + 1] \in [edits : Nat, ops : Nat, faults : Nat]
      /\ [spent EXCEPT !.ops = @ + 1] \in [edits : Nat, ops : Nat, faults : Nat]
      /\ [spent EXCEPT !.faults = @ + 1] \in [edits : Nat, ops : Nat, faults : Nat]
  OBVIOUS
<1>1. ASSUME NEW s \in Sessions, NEW t \in Texts, Type(s, t) PROVE TypeOK'
  BY <1>0, <1>1, <1>f, QueueOps DEF Type
<1>2. ASSUME NEW s \in Sessions, TimerFires(s) \/ SaveNow(s) PROVE TypeOK'
  BY <1>2, FlushType DEF TimerFires, SaveNow
<1>3. ASSUME NEW m \in saves, ServerSaves(m) PROVE TypeOK'
  <2>1. Answer(m) \in Results
    BY DEF Answer, Results
  <2>2. m \in Save /\ [m EXCEPT !.result = Answer(m)] \in Save
    BY <2>1 DEF Save
  <2>3. saves' \subseteq Save
    BY <1>3, <2>2 DEF ServerSaves
  <2>4. server' \in [text : Texts, version : Nat, state : States]
    <3>1. m.text \in Texts
      BY <2>2 DEF Save
    <3>2. [server EXCEPT !.text = m.text, !.version = @ + 1] \in [text : Texts, version : Nat, state : States]
      BY <3>1, NewText
    <3> QED BY <1>3, <3>2 DEF ServerSaves
  <2> QED BY <1>3, <2>3, <2>4 DEF ServerSaves
<1>4. ASSUME NEW m \in saves, SaveAnswered(m) PROVE TypeOK'
  <2> DEFINE s    == m.from
             next == IF m.result = "ok" THEN Acknowledge(q[s], m) ELSE Failed(q[s], m.result)
  <2>1. m \in Save /\ s \in Sessions
    BY DEF Save
  <2>2. next \in Queue
    BY <2>1, <1>0, QueueOps
  <2>3. Sending(next) \in Queue /\ Put(s, next) \in Save
    BY <2>1, <2>2, QueueOps, PutType
  <2> HIDE DEF next
  <2>4. \/ saves' = saves \ {m} /\ q' = q
        \/ /\ q' \in {[q EXCEPT ![s] = next], [q EXCEPT ![s] = Sending(next)]}
           /\ saves' \subseteq saves \union {Put(s, next)}
    BY <1>4 DEF SaveAnswered, next
  <2>5. q' \in [Sessions -> Queue] /\ saves' \subseteq Save
    BY <2>1, <2>2, <2>3, <2>4
  <2> QED BY <1>4, <2>5 DEF SaveAnswered
<1>5. ASSUME NEW m \in saves, SaveLost(m) PROVE TypeOK'
  <2>1. m \in Save /\ m.from \in Sessions /\ [m EXCEPT !.waited = FALSE] \in Save
    BY DEF Save
  <2>2. Failed(q[m.from], "lost") \in Queue
    BY <2>1, <1>0, QueueOps
  <2>3. q' \in [Sessions -> Queue] /\ saves' \subseteq Save
    BY <1>5, <2>1, <2>2 DEF SaveLost
  <2> QED BY <1>5, <1>f, <2>3 DEF SaveLost
<1>6. ASSUME NEW s \in Sessions, Settle(s) PROVE TypeOK'
  BY <1>0, <1>6, QueueOps DEF Settle
<1>7. ASSUME NEW s \in Sessions, NEW k \in Kinds \union {"leave"}, Perform(s, k) PROVE TypeOK'
  <2>1. q' \in [Sessions -> Queue] /\ saves' \subseteq Save
    BY <1>7, FlushType DEF Perform
  <2>2. op' \in [Sessions -> Op]
    <3>1. view[s] \in States
      OBVIOUS
    <3>2. [Idle EXCEPT !.kind = k, !.phase = "flush", !.state = view[s]] \in Op
      BY <1>0, <3>1, OpType
    <3> QED BY <1>7, <3>2 DEF Perform
  <2> QED BY <1>7, <1>f, <2>1, <2>2 DEF Perform
<1>8. ASSUME NEW s \in Sessions, Drop(s) \/ OpLost(s) PROVE TypeOK'
  <2>1. op' \in [Sessions -> Op]
    BY <1>8, IdleType DEF Drop, OpLost
  <2>2. spent' \in [edits : Nat, ops : Nat, faults : Nat]
    BY <1>8, <1>f DEF Drop, OpLost
  <2> QED BY <1>8, <2>1, <2>2 DEF Drop, OpLost
<1>9. ASSUME NEW s \in Sessions, Send(s) PROVE TypeOK'
  <2>1. q[s].version \in Nat
    BY <1>0 DEF Queue
  <2>2. [op[s] EXCEPT !.phase = "sent", !.version = q[s].version] \in Op
    BY <1>0, <2>1, OpType
  <2>3. op' = [op EXCEPT ![s] = [op[s] EXCEPT !.phase = "sent", !.version = q[s].version]]
    BY <1>9 DEF Send
  <2> QED BY <1>9, <2>2, <2>3 DEF Send
<1>10. ASSUME NEW s \in Sessions, NEW t \in Texts, ServerActs(s, t) PROVE TypeOK'
  <2>1. server' \in [text : Texts, version : Nat, state : States]
    <3>1. [server EXCEPT !.text = t, !.version = @ + 1] \in [text : Texts, version : Nat, state : States]
      BY NewText
    <3>2. [server EXCEPT !.state = Target(op[s].kind)] \in [text : Texts, version : Nat, state : States]
      BY <1>s, TargetType
    <3> QED BY <1>10, <3>1, <3>2 DEF ServerActs
  <2>2. server'.text \in Texts /\ server'.version \in Nat /\ server'.state \in States
    BY <2>1
  <2>3. PICK r \in Results :
          op' = [op EXCEPT ![s] = [op[s] EXCEPT !.phase = r, !.text = server'.text,
                                   !.version = server'.version, !.state = server'.state]]
    BY <1>10, ZenonT(60) DEF ServerActs, Results
  <2>4. op' \in [Sessions -> Op]
    BY <1>0, <2>2, <2>3, OpType
  <2> QED BY <1>10, <2>1, <2>4 DEF ServerActs
<1>11. ASSUME NEW s \in Sessions, OpAnswered(s) PROVE TypeOK'
  <2>1. op[s].text \in Texts /\ op[s].version \in Nat
    BY <1>0 DEF Op
  <2>2. CASE op[s].phase = "ok"
    <3>1. q' \in [Sessions -> Queue]
      BY <1>11, <2>1, <2>2, AnewType DEF OpAnswered
    <3>2. view' \in [Sessions -> States]
      BY <1>11, <2>2, <1>0 DEF OpAnswered, Op
    <3> QED BY <1>11, <3>1, <3>2, IdleType DEF OpAnswered
  <2>3. CASE op[s].phase # "ok"
    <3>1. Conflicted(q[s]) \in Queue /\ SetEnabled(q[s], FALSE) \in Queue /\ q[s] \in Queue
      BY <1>0, QueueOps
    <3>2. \E x \in Queue : q' = [q EXCEPT ![s] = x]
      BY <1>11, <2>3, <3>1 DEF OpAnswered
    <3> QED BY <1>11, <2>3, <3>2, IdleType DEF OpAnswered
  <2> QED BY <2>2, <2>3
<1>12. ASSUME NEW s \in Sessions, Reload(s) PROVE TypeOK'
  BY <1>12, <1>s, AnewType DEF Reload
<1>13. ASSUME NEW s \in Sessions, Open(s) PROVE TypeOK'
  BY <1>13, <1>s, <1>f, AnewType DEF Open
<1>14. ASSUME NEW s \in Sessions, Refetch(s) PROVE TypeOK'
  <2>1. \A v \in BOOLEAN : SetEnabled(q[s], v) \in Queue
    BY <1>0, QueueOps
  <2>2. q' \in [Sessions -> Queue]
    BY <1>14, <2>1 DEF Refetch
  <2>3. view' \in [Sessions -> States]
    BY <1>14, <1>s DEF Refetch
  <2> QED BY <1>14, <2>2, <2>3 DEF Refetch
<1>15. ASSUME NEW s \in Sessions, Leave(s) PROVE TypeOK'
  BY <1>0, <1>15, QueueOps DEF Leave
<1>16. ASSUME NEW s \in Sessions, Discard(s) \/ SavedAndLeaves(s) PROVE TypeOK'
  <2>1. [SetEnabled(q[s], FALSE) EXCEPT !.open = FALSE] \in Queue
    BY <1>0, QueueOps
  <2> QED BY <1>0, <1>16, <2>1, IdleType, ZenonT(60) DEF Discard, SavedAndLeaves
<1>17. ASSUME Decide PROVE TypeOK'
  BY <1>17, <1>s DEF Decide, States
<1>18. ASSUME NEW s \in Sessions, Expire(s) \/ Renew(s) PROVE TypeOK'
  BY <1>18, <1>f DEF Expire, Renew
<1>19. ASSUME UNCHANGED vars PROVE TypeOK'
  BY <1>19 DEF vars
<1> HIDE DEF TypeOK
<1> QED
  BY <1>1, <1>2, <1>3, <1>4, <1>5, <1>6, <1>7, <1>8, <1>9, <1>10, <1>11, <1>12, <1>13, <1>14,
     <1>15, <1>16, <1>17, <1>18, <1>19 DEF Next

-----------------------------------------------------------------------------
(* One save at a time.                                                     *)

\* Steps that send nothing, end nothing and keep flight and epoch.
LEMMA QuietPages ==
  ASSUME TypeOK, OneSaveInFlight, saves' = saves,
         \A s \in Sessions : q'[s].epoch = q[s].epoch /\ q'[s].flight = q[s].flight
  PROVE  OneSaveInFlight'
<1>1. \A m \in saves : m.from \in Sessions
  BY DEF TypeOK, Save
<1> QED BY <1>1 DEF OneSaveInFlight

\* A page that starts anew has no save yet.
LEMMA NewPage ==
  ASSUME TypeOK, OneSaveInFlight, saves' = saves, NEW s \in Sessions,
         NEW t, NEW v, NEW st, q' = [q EXCEPT ![s] = Fresh(t, v, st, @.epoch + 1)]
  PROVE  OneSaveInFlight'
<1>1. q'[s].epoch = q[s].epoch + 1 /\ \A r \in Sessions : r # s => q'[r] = q[r]
  BY DEF TypeOK, Fresh
<1>2. q[s].epoch \in Nat
  BY DEF TypeOK, Queue
<1>3. \A m \in saves : m.from \in Sessions /\ m.epoch \in Nat
  BY DEF TypeOK, Save
<1> QED BY <1>1, <1>2, <1>3 DEF OneSaveInFlight

\* A page without a save on its way sends one.
LEMMA FlushOne ==
  ASSUME TypeOK, OneSaveInFlight, NEW s \in Sessions, Flush(s)
  PROVE  OneSaveInFlight'
<1> DEFINE p == Put(s, q[s])
<1>1. q[s] \in Queue /\ q[s].flight = "none" /\ q[s].epoch \in Nat
  BY DEF TypeOK, Flush, Starts, Queue
<1>2. saves' = saves \union {p} /\ q' = [q EXCEPT ![s] = Sending(q[s])]
  BY DEF Flush
<1>3. q'[s].epoch = q[s].epoch /\ q'[s].flight = "saving" /\ \A r \in Sessions : r # s => q'[r] = q[r]
  BY <1>1, <1>2, QueueFields DEF TypeOK
<1>4. p.from = s /\ p.epoch = q[s].epoch
  BY DEF Put
<1>5. \A m \in saves : m.from \in Sessions
  BY DEF TypeOK, Save
<1>6. \A m \in saves : m.waited /\ m.from = s => m.epoch # q[s].epoch
  BY <1>1 DEF OneSaveInFlight
<1> HIDE DEF p
<1>7. \A m, n \in saves' : m.waited /\ n.waited /\ m.from = n.from /\ m.epoch = n.epoch => m = n
  BY <1>2, <1>4, <1>6 DEF OneSaveInFlight
<1>8. \A m \in saves' : m.waited =>
        m.epoch <= q'[m.from].epoch /\ (m.epoch = q'[m.from].epoch => q'[m.from].flight = "saving")
  BY <1>1, <1>2, <1>3, <1>4, <1>5 DEF OneSaveInFlight
<1> QED BY <1>7, <1>8 DEF OneSaveInFlight

LEMMA OneStep == ASSUME TypeOK, OneSaveInFlight, [Next]_vars PROVE OneSaveInFlight'
<1>0. \A s \in Sessions : q[s] \in Queue
  BY DEF TypeOK
<1>m. \A m \in saves : m \in Save /\ m.from \in Sessions /\ m.epoch \in Nat
  BY DEF TypeOK, Save
<1>1. ASSUME NEW s \in Sessions, NEW t \in Texts, Type(s, t) PROVE OneSaveInFlight'
  <2>1. Update(q[s], t).flight = q[s].flight /\ Update(q[s], t).epoch = q[s].epoch
    BY <1>0, QueueFields
  <2>2. \A r \in Sessions : q'[r].epoch = q[r].epoch /\ q'[r].flight = q[r].flight
    BY <1>1, <2>1 DEF Type, TypeOK
  <2> QED BY <1>1, <2>2, QuietPages DEF Type
<1>2. ASSUME NEW s \in Sessions, TimerFires(s) \/ SaveNow(s) PROVE OneSaveInFlight'
  BY <1>2, FlushOne DEF TimerFires, SaveNow
<1>3. ASSUME NEW m \in saves, ServerSaves(m) PROVE OneSaveInFlight'
  <2> DEFINE n == [m EXCEPT !.result = Answer(m)]
  <2>1. n.from = m.from /\ n.epoch = m.epoch /\ n.waited = m.waited
    BY <1>m DEF Save
  <2>2. saves' = (saves \ {m}) \union (IF m.waited THEN {n} ELSE {}) /\ q' = q
    BY <1>3 DEF ServerSaves
  <2> HIDE DEF n
  <2> QED BY <2>1, <2>2 DEF OneSaveInFlight
<1>4. ASSUME NEW m \in saves, SaveAnswered(m) PROVE OneSaveInFlight'
  <2> DEFINE s    == m.from
             next == IF m.result = "ok" THEN Acknowledge(q[s], m) ELSE Failed(q[s], m.result)
             p    == Put(s, next)
  <2>1. CASE saves' = saves \ {m} /\ q' = q
    BY <2>1 DEF OneSaveInFlight
  <2>2. CASE m.epoch = q[s].epoch /\ q' = [q EXCEPT ![s] = next] /\ saves' = saves \ {m}
    <3>0. next.epoch = q[s].epoch
      BY <1>0, <1>m, QueueFields
    <3>1. q'[s].epoch = q[s].epoch /\ \A r \in Sessions : r # s => q'[r] = q[r]
      BY <1>m, <2>2, <3>0 DEF TypeOK
    <3>2. \A n \in saves' : n.waited /\ n.from = s => n.epoch # q[s].epoch
      BY <1>4, <2>2 DEF OneSaveInFlight, SaveAnswered
    <3> QED BY <1>m, <2>2, <3>1, <3>2 DEF OneSaveInFlight
  <2>3. CASE m.epoch = q[s].epoch /\ q' = [q EXCEPT ![s] = Sending(next)] /\ saves' = (saves \ {m}) \union {p}
    <3>0. next \in Queue
      BY <1>0, <1>m, QueueOps
    <3>1. next.epoch = q[s].epoch
      BY <1>0, <1>m, QueueFields
    <3>2. q'[s].epoch = q[s].epoch /\ q'[s].flight = "saving" /\ \A r \in Sessions : r # s => q'[r] = q[r]
      <4>1. Sending(next).flight = "saving" /\ Sending(next).epoch = next.epoch
        BY <3>0, QueueFields
      <4> QED BY <1>m, <2>3, <3>1, <4>1 DEF TypeOK
    <3>3. p.from = s /\ p.epoch = q[s].epoch
      BY <3>1 DEF Put
    <3>4. \A n \in saves \ {m} : n.waited /\ n.from = s => n.epoch # q[s].epoch
      BY <1>4, <2>3 DEF OneSaveInFlight, SaveAnswered
    <3>5. q[s].epoch \in Nat
      BY <1>0, <1>m DEF Queue
    <3> HIDE DEF p, next
    <3>6. \A i, j \in saves' : i.waited /\ j.waited /\ i.from = j.from /\ i.epoch = j.epoch => i = j
      BY <2>3, <3>3, <3>4 DEF OneSaveInFlight
    <3>7. \A i \in saves' : i.waited =>
            i.epoch <= q'[i.from].epoch /\ (i.epoch = q'[i.from].epoch => q'[i.from].flight = "saving")
      BY <1>m, <2>3, <3>2, <3>3, <3>4, <3>5 DEF OneSaveInFlight
    <3> QED BY <3>6, <3>7 DEF OneSaveInFlight
  <2> QED BY <1>4, <2>1, <2>2, <2>3 DEF SaveAnswered
<1>5. ASSUME NEW m \in saves, SaveLost(m) PROVE OneSaveInFlight'
  <2> DEFINE s == m.from
             n == [m EXCEPT !.waited = FALSE]
  <2>1. ~n.waited
    BY <1>m DEF Save
  <2>2. saves' \subseteq (saves \ {m}) \union {n} /\ m.waited
    BY <1>5 DEF SaveLost
  <2>3. \A i \in saves' : i.waited => i \in saves /\ i # m
    BY <2>1, <2>2
  <2> HIDE DEF n
  <2>4. CASE q' = q
    BY <2>3, <2>4 DEF OneSaveInFlight
  <2>5. CASE m.epoch = q[s].epoch /\ q' = [q EXCEPT ![s] = Failed(q[s], "lost")]
    <3>0. Failed(q[s], "lost").epoch = q[s].epoch
      BY <1>0, <1>m, QueueFields
    <3>1. q'[s].epoch = q[s].epoch /\ \A r \in Sessions : r # s => q'[r] = q[r]
      BY <1>m, <2>5, <3>0 DEF TypeOK
    <3>2. \A i \in saves' : i.waited /\ i.from = s => i.epoch # q[s].epoch
      BY <2>2, <2>3, <2>5 DEF OneSaveInFlight
    <3> QED BY <1>m, <2>3, <2>5, <3>1, <3>2 DEF OneSaveInFlight
  <2> QED BY <1>5, <2>4, <2>5 DEF SaveLost
<1>6. ASSUME NEW s \in Sessions, Settle(s) PROVE OneSaveInFlight'
  <2>1. /\ q[s].flight = "settling" /\ saves' = saves
        /\ q'[s].epoch = q[s].epoch /\ \A r \in Sessions : r # s => q'[r] = q[r]
    BY <1>0, <1>6, QueueFields DEF Settle, TypeOK
  <2>2. \A m \in saves : m.waited /\ m.from = s => m.epoch # q[s].epoch
    BY <2>1 DEF OneSaveInFlight
  <2> QED BY <1>m, <2>1, <2>2 DEF OneSaveInFlight
<1>7. ASSUME NEW s \in Sessions, NEW k \in Kinds \union {"leave"}, Perform(s, k) PROVE OneSaveInFlight'
  BY <1>7, FlushOne, QuietPages DEF Perform
<1>8. ASSUME NEW s \in Sessions, OpAnswered(s) PROVE OneSaveInFlight'
  <2>1. CASE op[s].phase = "ok"
    BY <1>8, <2>1, NewPage DEF OpAnswered
  <2>2. CASE op[s].phase # "ok"
    <3>1. /\ Conflicted(q[s]).flight = q[s].flight /\ Conflicted(q[s]).epoch = q[s].epoch
          /\ SetEnabled(q[s], FALSE).flight = q[s].flight /\ SetEnabled(q[s], FALSE).epoch = q[s].epoch
      <4>1. q[s] \in Queue
        BY <1>0
      <4> QED BY <4>1 DEF Conflicted, SetEnabled, Queue
    <3>2. /\ q'[s].flight = q[s].flight /\ q'[s].epoch = q[s].epoch
          /\ \A r \in Sessions : r # s => q'[r] = q[r]
      BY <1>8, <2>2, <3>1 DEF OpAnswered, TypeOK
    <3> QED BY <1>8, <2>2, <3>2, QuietPages DEF OpAnswered
  <2> QED BY <2>1, <2>2
<1>9. ASSUME NEW s \in Sessions, Reload(s) \/ Open(s) PROVE OneSaveInFlight'
  BY <1>9, NewPage DEF Reload, Open
<1>10. ASSUME NEW s \in Sessions, Refetch(s) PROVE OneSaveInFlight'
  <2>1. \A v : SetEnabled(q[s], v).flight = q[s].flight /\ SetEnabled(q[s], v).epoch = q[s].epoch
    BY <1>0, QueueFields
  <2>2. q' = q \/ \E v : q' = [q EXCEPT ![s] = SetEnabled(q[s], v)]
    BY <1>10 DEF Refetch
  <2>3. \A r \in Sessions : q'[r].epoch = q[r].epoch /\ q'[r].flight = q[r].flight
    BY <2>1, <2>2 DEF TypeOK
  <2> QED BY <1>10, <2>3, QuietPages DEF Refetch
<1>11. ASSUME NEW s \in Sessions, Leave(s) \/ Discard(s) \/ SavedAndLeaves(s) PROVE OneSaveInFlight'
  <2>1. /\ [SetEnabled(q[s], FALSE) EXCEPT !.open = FALSE].flight = q[s].flight
        /\ [SetEnabled(q[s], FALSE) EXCEPT !.open = FALSE].epoch = q[s].epoch
        /\ [q[s] EXCEPT !.open = FALSE].flight = q[s].flight
        /\ [q[s] EXCEPT !.open = FALSE].epoch = q[s].epoch
    BY <1>0 DEF SetEnabled, Queue
  <2>2. \A r \in Sessions : q'[r].epoch = q[r].epoch /\ q'[r].flight = q[r].flight
    BY <1>11, <2>1 DEF Leave, Discard, SavedAndLeaves, TypeOK
  <2> QED BY <1>11, <2>2, QuietPages DEF Leave, Discard, SavedAndLeaves
<1>12. CASE UNCHANGED <<q, saves>>
  BY <1>12 DEF OneSaveInFlight
<1> QED
  BY <1>1, <1>2, <1>3, <1>4, <1>5, <1>6, <1>7, <1>8, <1>9, <1>10, <1>11, <1>12
     DEF Next, vars, Drop, Send, ServerActs, OpLost, Decide, Expire, Renew

-----------------------------------------------------------------------------
(* A version names a text.                                                 *)

AgreesNext(v, t) == v <= server'.version /\ (v = server'.version => t = server'.text)

\* Who agreed with the server still does after a step: the server moved on.
LEMMA AgreesStays ==
  ASSUME TypeOK, Next
  PROVE  \A v \in Nat : \A t : Agrees(v, t) => AgreesNext(v, t)
<1>1. /\ server.version \in Nat
      /\ server'.version \in {server.version, server.version + 1}
      /\ server'.version = server.version => server'.text = server.text
  BY ServerMoves DEF TypeOK
<1> QED BY <1>1 DEF Agrees, AgreesNext

\* What a step does to a page's version and text, and to the saves.
PageFollows(s) ==
  \/ q'[s].version = q[s].version /\ q'[s].acknowledged = q[s].acknowledged
  \/ q'[s].version = server.version /\ q'[s].acknowledged = server.text
  \/ op[s].phase = "ok" /\ q'[s].version = op[s].version /\ q'[s].acknowledged = op[s].text
  \/ \E m \in saves : /\ m.result = "ok" /\ q'[s].version = m.version + 1
                        /\ q'[s].acknowledged = m.text

SaveFollows(n) ==
  \/ \E m \in saves : /\ n.result = m.result /\ n.version = m.version
                        /\ n.base = m.base /\ n.text = m.text
  \/ \E s \in Sessions : /\ n.result = "sent" /\ n.version = q'[s].version
                           /\ n.base = q'[s].acknowledged
  \/ n.result = "ok" /\ server'.version = n.version + 1 /\ server'.text = n.text
  \/ n.result \notin {"sent", "ok"}

OpFollows(s) ==
  \/ op'[s].phase # "ok"
  \/ op'[s].phase = op[s].phase /\ op'[s].version = op[s].version /\ op'[s].text = op[s].text
  \/ op'[s].version = server'.version /\ op'[s].text = server'.text

LEMMA Following ==
  ASSUME TypeOK, TypeOK', VersionsNameTexts, Next,
         \A s \in Sessions : PageFollows(s) /\ OpFollows(s),
         \A n \in saves' : SaveFollows(n)
  PROVE  VersionsNameTexts'
<1>t. /\ server.version \in Nat /\ server'.version \in Nat
      /\ \A s \in Sessions : q[s].version \in Nat /\ op[s].version \in Nat
      /\ \A m \in saves : m.version \in Nat /\ m.version + 1 \in Nat
  BY DEF TypeOK, Queue, Op, Save
<1>s. \A v \in Nat : \A t : Agrees(v, t) => AgreesNext(v, t)
  BY AgreesStays
<1>1. ASSUME NEW s \in Sessions PROVE AgreesNext(q'[s].version, q'[s].acknowledged)
  <2>1. Agrees(q[s].version, q[s].acknowledged) /\ Agrees(server.version, server.text)
    BY <1>t DEF VersionsNameTexts, Agrees
  <2>2. CASE q'[s].version = q[s].version /\ q'[s].acknowledged = q[s].acknowledged
    BY <1>s, <1>t, <2>1, <2>2
  <2>3. CASE q'[s].version = server.version /\ q'[s].acknowledged = server.text
    BY <1>s, <1>t, <2>1, <2>3
  <2>4. CASE op[s].phase = "ok" /\ q'[s].version = op[s].version /\ q'[s].acknowledged = op[s].text
    BY <1>s, <1>t, <2>4 DEF VersionsNameTexts
  <2>5. ASSUME NEW m \in saves, m.result = "ok", q'[s].version = m.version + 1,
               q'[s].acknowledged = m.text
        PROVE  AgreesNext(q'[s].version, q'[s].acknowledged)
    BY <1>s, <1>t, <2>5 DEF VersionsNameTexts
  <2> QED BY <2>2, <2>3, <2>4, <2>5 DEF PageFollows
<1>2. ASSUME NEW s \in Sessions, op'[s].phase = "ok" PROVE AgreesNext(op'[s].version, op'[s].text)
  <2>1. CASE op'[s].version = server'.version /\ op'[s].text = server'.text
    BY <1>t, <2>1 DEF AgreesNext
  <2>2. CASE op'[s].phase = op[s].phase /\ op'[s].version = op[s].version /\ op'[s].text = op[s].text
    BY <1>s, <1>t, <1>2, <2>2 DEF VersionsNameTexts
  <2> QED BY <1>2, <2>1, <2>2 DEF OpFollows
<1>3. ASSUME NEW n \in saves'
      PROVE  /\ n.result = "sent" => AgreesNext(n.version, n.base)
             /\ n.result = "ok" => AgreesNext(n.version + 1, n.text)
  <2>1. ASSUME NEW m \in saves, n.result = m.result, n.version = m.version,
               n.base = m.base, n.text = m.text
        PROVE  /\ n.result = "sent" => AgreesNext(n.version, n.base)
               /\ n.result = "ok" => AgreesNext(n.version + 1, n.text)
    <3>1. n.result = "sent" => AgreesNext(m.version, m.base)
      BY <1>s, <1>t, <2>1 DEF VersionsNameTexts
    <3>2. n.result = "ok" => AgreesNext(m.version + 1, m.text)
      BY <1>s, <1>t, <2>1 DEF VersionsNameTexts
    <3> QED BY <2>1, <3>1, <3>2
  <2>2. ASSUME NEW s \in Sessions, n.result = "sent", n.version = q'[s].version,
               n.base = q'[s].acknowledged
        PROVE  AgreesNext(n.version, n.base)
    BY <1>1, <2>2
  <2>3. CASE n.result = "ok" /\ server'.version = n.version + 1 /\ server'.text = n.text
    BY <1>t, <2>3 DEF AgreesNext
  <2> QED BY <2>1, <2>2, <2>3 DEF SaveFollows
<1>4. \A v, t : AgreesNext(v, t) <=> v <= server'.version /\ (v = server'.version => t = server'.text)
  BY DEF AgreesNext
<1> QED BY <1>1, <1>2, <1>3, <1>4 DEF VersionsNameTexts, Agrees

\* One page changes, to a queue that keeps its version and text.
LEMMA SamePages ==
  ASSUME TypeOK, NEW s \in Sessions, NEW x, q' = [q EXCEPT ![s] = x],
         x.version = q[s].version, x.acknowledged = q[s].acknowledged
  PROVE  \A r \in Sessions : PageFollows(r)
  BY DEF TypeOK, PageFollows

\* A step that leaves pages, saves or commands alone.
LEMMA Unchanging ==
  /\ q' = q => \A s \in Sessions : PageFollows(s)
  /\ op' = op => \A s \in Sessions : OpFollows(s)
  /\ saves' \subseteq saves => \A n \in saves' : SaveFollows(n)
  BY DEF PageFollows, OpFollows, SaveFollows

\* One command changes, not to an answer.
LEMMA OpFollowing ==
  ASSUME TypeOK, NEW s \in Sessions, NEW o, op' = [op EXCEPT ![s] = o], o.phase # "ok"
  PROVE  \A r \in Sessions : OpFollows(r)
  BY DEF TypeOK, OpFollows

LEMMA FlushFollows ==
  ASSUME TypeOK, NEW s \in Sessions, Flush(s)
  PROVE  (\A r \in Sessions : PageFollows(r)) /\ (\A n \in saves' : SaveFollows(n))
<1>1. q[s] \in Queue
  BY DEF TypeOK
<1>2. Sending(q[s]).version = q[s].version /\ Sending(q[s]).acknowledged = q[s].acknowledged
  BY <1>1, QueueFields
<1>3. q'[s] = Sending(q[s])
  BY DEF Flush, TypeOK
<1>4. \A n \in saves' : n \in saves \/ n = Put(s, q[s])
  BY DEF Flush
<1>5. /\ Put(s, q[s]).result = "sent" /\ Put(s, q[s]).version = q'[s].version
      /\ Put(s, q[s]).base = q'[s].acknowledged
  BY <1>2, <1>3 DEF Put
<1>6. \A r \in Sessions : PageFollows(r)
  BY <1>2, SamePages DEF Flush
<1>7. \A n \in saves' : SaveFollows(n)
  BY <1>4, <1>5 DEF SaveFollows
<1> QED BY <1>6, <1>7

Follows ==
  /\ \A s \in Sessions : PageFollows(s) /\ OpFollows(s)
  /\ \A n \in saves' : SaveFollows(n)

LEMMA FollowsStep ==
  ASSUME TypeOK, Next
  PROVE  Follows
<1> USE DEF Follows
<1>0. \A s \in Sessions : q[s] \in Queue /\ op[s] \in Op
  BY DEF TypeOK
<1>m. \A m \in saves : m \in Save /\ m.from \in Sessions
  BY DEF TypeOK, Save
<1>1. ASSUME NEW s \in Sessions, NEW t \in Texts, Type(s, t) PROVE Follows
  <2>1. Update(q[s], t).version = q[s].version /\ Update(q[s], t).acknowledged = q[s].acknowledged
    BY <1>0, QueueFields
  <2>2. \A r \in Sessions : PageFollows(r)
    BY <1>1, <2>1, SamePages DEF Type
  <2> QED BY <1>1, <2>2, Unchanging DEF Type
<1>2. ASSUME NEW s \in Sessions, TimerFires(s) \/ SaveNow(s) PROVE Follows
  BY <1>2, FlushFollows, Unchanging DEF TimerFires, SaveNow
<1>3. ASSUME NEW m \in saves, ServerSaves(m) PROVE Follows
  <2> DEFINE n == [m EXCEPT !.result = Answer(m)]
  <2>1. n.result = Answer(m) /\ n.version = m.version /\ n.text = m.text
    BY <1>m DEF Save
  <2>2. \A i \in saves' : i \in saves \/ i = n
    BY <1>3 DEF ServerSaves
  <2>3. CASE Answer(m) = "ok"
    <3>1. server' = [server EXCEPT !.text = m.text, !.version = @ + 1] /\ m.version = server.version
      BY <1>3, <2>3 DEF ServerSaves, Answer
    <3>2. server'.version = m.version + 1 /\ server'.text = m.text
      BY <3>1 DEF TypeOK
    <3> HIDE DEF n
    <3>3. \A i \in saves' : SaveFollows(i)
      BY <2>1, <2>2, <2>3, <3>2 DEF SaveFollows
    <3> QED BY <1>3, <3>3, Unchanging DEF ServerSaves
  <2>4. CASE Answer(m) # "ok"
    <3>1. Answer(m) # "sent"
      BY DEF Answer
    <3> HIDE DEF n
    <3>2. \A i \in saves' : SaveFollows(i)
      BY <2>1, <2>2, <2>4, <3>1 DEF SaveFollows
    <3> QED BY <1>3, <3>2, Unchanging DEF ServerSaves
  <2> QED BY <2>3, <2>4
<1>4. ASSUME NEW m \in saves, SaveAnswered(m) PROVE Follows
  <2> DEFINE s    == m.from
             next == IF m.result = "ok" THEN Acknowledge(q[s], m) ELSE Failed(q[s], m.result)
             p    == Put(s, next)
  <2>0. next \in Queue
    BY <1>0, <1>m, QueueOps
  <2>1. \/ next.version = q[s].version /\ next.acknowledged = q[s].acknowledged
        \/ m.result = "ok" /\ next.version = m.version + 1 /\ next.acknowledged = m.text
    <3>1. CASE m.result = "ok"
      BY <1>0, <1>m, <3>1, QueueFields
    <3>2. CASE m.result # "ok"
      BY <1>0, <1>m, <3>2, QueueFields
    <3> QED BY <3>1, <3>2
  <2>2. Sending(next).version = next.version /\ Sending(next).acknowledged = next.acknowledged
    BY <2>0, QueueFields
  <2>3. p.result = "sent" /\ p.version = next.version /\ p.base = next.acknowledged
    BY DEF Put
  <2> HIDE DEF next, p
  <2>4. CASE saves' = saves \ {m} /\ q' = q
    BY <1>4, <2>4, Unchanging DEF SaveAnswered
  <2>5. ASSUME NEW x \in {next, Sending(next)}, q' = [q EXCEPT ![s] = x],
               saves' \subseteq saves \union {p}
        PROVE  Follows
    <3>1. q'[s].version = next.version /\ q'[s].acknowledged = next.acknowledged
          /\ \A r \in Sessions : r # s => q'[r] = q[r]
      BY <1>m, <2>2, <2>5 DEF TypeOK
    <3>2. \A r \in Sessions : PageFollows(r)
      BY <2>1, <3>1 DEF PageFollows
    <3>3. \A n \in saves' : SaveFollows(n)
      BY <1>m, <2>3, <2>5, <3>1 DEF SaveFollows
    <3> QED BY <1>4, <3>2, <3>3, Unchanging DEF SaveAnswered
  <2> QED BY <1>4, <2>4, <2>5 DEF SaveAnswered, next, p
<1>5. ASSUME NEW m \in saves, SaveLost(m) PROVE Follows
  <2> DEFINE s == m.from
             n == [m EXCEPT !.waited = FALSE]
  <2>1. n.result = m.result /\ n.version = m.version /\ n.base = m.base /\ n.text = m.text
    BY <1>m DEF Save
  <2>2. saves' \subseteq saves \union {n}
    BY <1>5 DEF SaveLost
  <2> HIDE DEF n
  <2>3. \A i \in saves' : SaveFollows(i)
    BY <2>1, <2>2 DEF SaveFollows
  <2>4. Failed(q[s], "lost").version = q[s].version /\ Failed(q[s], "lost").acknowledged = q[s].acknowledged
    BY <1>0, <1>m, QueueFields
  <2>5. \A r \in Sessions : PageFollows(r)
    BY <1>5, <1>m, <2>4, SamePages, Unchanging DEF SaveLost
  <2> QED BY <1>5, <2>3, <2>5, Unchanging DEF SaveLost
<1>6. ASSUME NEW s \in Sessions, Settle(s) PROVE Follows
  <2>1. Settled(q[s]).version = q[s].version /\ Settled(q[s]).acknowledged = q[s].acknowledged
    BY <1>0, QueueFields
  <2>2. \A r \in Sessions : PageFollows(r)
    BY <1>6, <2>1, SamePages DEF Settle
  <2> QED BY <1>6, <2>2, Unchanging DEF Settle
<1>7. ASSUME NEW s \in Sessions, NEW k \in Kinds \union {"leave"}, Perform(s, k) PROVE Follows
  <2>1. \A r \in Sessions : OpFollows(r)
    <3>1. [Idle EXCEPT !.kind = k, !.phase = "flush", !.state = view[s]].phase # "ok"
      BY DEF Idle
    <3> QED BY <1>7, <3>1, OpFollowing DEF Perform
  <2>2. (\A r \in Sessions : PageFollows(r)) /\ (\A n \in saves' : SaveFollows(n))
    BY <1>7, FlushFollows, Unchanging DEF Perform
  <2> QED BY <2>1, <2>2
<1>8. ASSUME NEW s \in Sessions, Drop(s) \/ OpLost(s) PROVE Follows
  <2>1. Idle.phase # "ok"
    BY DEF Idle
  <2> QED BY <1>8, <2>1, OpFollowing, Unchanging DEF Drop, OpLost
<1>9. ASSUME NEW s \in Sessions, Send(s) PROVE Follows
  <2>1. op' = [op EXCEPT ![s] = [op[s] EXCEPT !.phase = "sent", !.version = q[s].version]]
    BY <1>9 DEF Send
  <2>2. [op[s] EXCEPT !.phase = "sent", !.version = q[s].version].phase # "ok"
    BY <1>0 DEF Op
  <2> QED BY <1>9, <2>1, <2>2, OpFollowing, Unchanging DEF Send
<1>10. ASSUME NEW s \in Sessions, NEW t \in Texts, ServerActs(s, t) PROVE Follows
  <2>1. PICK r \in Results :
          op' = [op EXCEPT ![s] = [op[s] EXCEPT !.phase = r, !.text = server'.text,
                                   !.version = server'.version, !.state = server'.state]]
    BY <1>10, ZenonT(60) DEF ServerActs, Results, TypeOK
  <2>2. op'[s].version = server'.version /\ op'[s].text = server'.text
    BY <1>0, <2>1 DEF TypeOK, Op
  <2>3. \A r1 \in Sessions : OpFollows(r1)
    BY <2>1, <2>2 DEF OpFollows, TypeOK
  <2> QED BY <1>10, <2>3, Unchanging DEF ServerActs
<1>11. ASSUME NEW s \in Sessions, OpAnswered(s) PROVE Follows
  <2>1. \A r \in Sessions : OpFollows(r)
    <3>1. Idle.phase # "ok"
      BY DEF Idle
    <3> QED BY <1>11, <3>1, OpFollowing DEF OpAnswered
  <2>2. CASE op[s].phase = "ok"
    <3>1. q'[s] = Fresh(op[s].text, op[s].version, op[s].state, q[s].epoch + 1)
          /\ \A r \in Sessions : r # s => q'[r] = q[r]
      BY <1>11, <2>2 DEF OpAnswered, TypeOK
    <3>2. q'[s].version = op[s].version /\ q'[s].acknowledged = op[s].text
      BY <3>1 DEF Fresh
    <3>3. \A r \in Sessions : PageFollows(r)
      BY <2>2, <3>1, <3>2 DEF PageFollows
    <3> QED BY <1>11, <2>1, <3>3, Unchanging DEF OpAnswered
  <2>3. CASE op[s].phase # "ok"
    <3>1. PICK x \in {Conflicted(q[s]), SetEnabled(q[s], FALSE), q[s]} : q' = [q EXCEPT ![s] = x]
      BY <1>11, <2>3 DEF OpAnswered
    <3>2. x.version = q[s].version /\ x.acknowledged = q[s].acknowledged
      BY <1>0, <3>1 DEF Conflicted, SetEnabled, Queue
    <3>3. \A r \in Sessions : PageFollows(r)
      BY <3>1, <3>2, SamePages
    <3> QED BY <1>11, <2>1, <3>3, Unchanging DEF OpAnswered
  <2> QED BY <2>2, <2>3
<1>12. ASSUME NEW s \in Sessions, Reload(s) \/ Open(s) PROVE Follows
  <2>1. q'[s] = Fresh(server.text, server.version, server.state, q[s].epoch + 1)
        /\ \A r \in Sessions : r # s => q'[r] = q[r]
    BY <1>12 DEF Reload, Open, TypeOK
  <2>2. q'[s].version = server.version /\ q'[s].acknowledged = server.text
    BY <2>1 DEF Fresh
  <2>3. \A r \in Sessions : PageFollows(r)
    BY <2>1, <2>2 DEF PageFollows
  <2> QED BY <1>12, <2>3, Unchanging DEF Reload, Open
<1>13. ASSUME NEW s \in Sessions, Refetch(s) PROVE Follows
  <2>1. \A v : SetEnabled(q[s], v).version = q[s].version /\ SetEnabled(q[s], v).acknowledged = q[s].acknowledged
    BY <1>0, QueueFields
  <2>2. q' = q \/ \E v : q' = [q EXCEPT ![s] = SetEnabled(q[s], v)]
    BY <1>13 DEF Refetch
  <2>3. \A r \in Sessions : PageFollows(r)
    BY <2>1, <2>2, SamePages, Unchanging
  <2> QED BY <1>13, <2>3, Unchanging DEF Refetch
<1>14. ASSUME NEW s \in Sessions, Leave(s) \/ Discard(s) \/ SavedAndLeaves(s) PROVE Follows
  <2>1. PICK x \in {[SetEnabled(q[s], FALSE) EXCEPT !.open = FALSE], [q[s] EXCEPT !.open = FALSE]} :
          q' = [q EXCEPT ![s] = x]
    BY <1>14 DEF Leave, Discard, SavedAndLeaves
  <2>2. x.version = q[s].version /\ x.acknowledged = q[s].acknowledged
    BY <1>0, <2>1 DEF SetEnabled, Queue
  <2>3. \A r \in Sessions : PageFollows(r)
    BY <2>1, <2>2, SamePages
  <2>4. Idle.phase # "ok"
    BY DEF Idle
  <2>5. \A r \in Sessions : OpFollows(r)
    BY <1>14, <2>4, OpFollowing, Unchanging DEF Leave, Discard, SavedAndLeaves
  <2> QED BY <1>14, <2>3, <2>5, Unchanging DEF Leave, Discard, SavedAndLeaves
<1>15. CASE UNCHANGED <<q, saves, op>>
  BY <1>15, Unchanging
<1> HIDE DEF Follows
<1>16. CASE Decide \/ \E s \in Sessions : Expire(s) \/ Renew(s)
  BY <1>15, <1>16 DEF Decide, Expire, Renew
<1> QED
  BY <1>1, <1>2, <1>3, <1>4, <1>5, <1>6, <1>7, <1>8, <1>9, <1>10, <1>11, <1>12, <1>13, <1>14, <1>16
     DEF Next

-----------------------------------------------------------------------------
LEMMA InvStep == ASSUME DraftInv, [Next]_vars PROVE DraftInv'
<1>1. TypeOK /\ OneSaveInFlight /\ VersionsNameTexts
  BY DEF DraftInv
<1>2. TypeOK' /\ OneSaveInFlight'
  BY <1>1, TypeStep, OneStep
<1>3. CASE Next
  BY <1>1, <1>2, <1>3, FollowsStep, Following DEF DraftInv, Follows
<1>4. CASE UNCHANGED vars
  BY <1>1, <1>2, <1>4 DEF DraftInv, VersionsNameTexts, Agrees, vars
<1> QED BY <1>3, <1>4

\* The invariant of the pages, the requests on their way and the server: types,
\* one save in flight per page, and a version stands for one text wherever held
\* (autosave.ts:96-147, editor.tsx:216-258, history.tsx:48-79).
THEOREM Invariance == Spec => []DraftInv
<1>1. Init => DraftInv
  BY InitInv
<1>2. DraftInv /\ [Next]_vars => DraftInv'
  BY InvStep
<1> QED BY <1>1, <1>2, PTL DEF Spec

\* A save replaces only the text its page was working from (api.ts:38,
\* autosave.ts:125), for any number of sessions, edits, commands and faults.
THEOREM SavesNeverOverwriteOthers == Spec => NoForeignOverwrite
<1>1. DraftInv /\ [Next]_vars =>
        [\A m \in saves : m.result = "sent" /\ ServerSaves(m) /\ server' # server
            => server.text = m.base]_vars
  <2> SUFFICES ASSUME DraftInv, NEW m \in saves, m.result = "sent", ServerSaves(m), server' # server
               PROVE  server.text = m.base
    OBVIOUS
  <2>1. m.version = server.version
    BY DEF ServerSaves, Answer
  <2> QED BY <2>1 DEF DraftInv, VersionsNameTexts, Agrees
<1> QED BY <1>1, Invariance, PTL DEF Spec, NoForeignOverwrite
-----------------------------------------------------------------------------
(* A page between a keystroke and the answer to a command.                 *)

\* What holds of a queue x, the command o its page performs and the state v the
\* page saw last.  A page never disabled that has passed the flush of a command
\* holds what the server acknowledged, until the command is answered.
PageOK(x, o, v) ==
  /\ ~x.dirty => x.latest = x.acknowledged
  /\ x.lapsed \/ x.enabled
  /\ v # "editable" => x.lapsed
  /\ o.kind = "none" <=> o.phase = "idle"
  /\ o.kind # "none" => x.open
  /\ ~x.lapsed /\ o.phase = "flush" =>
        /\ o.state = "editable"
        /\ x.flight = "saving" \/ Paused(x) \/ ~x.dirty
  /\ ~x.lapsed /\ o.phase \notin {"idle", "flush"} =>
        /\ ~x.dirty /\ x.flight # "saving"
        /\ o.phase = "sent" => o.version = x.version

Pages == \A s \in Sessions : PageOK(q[s], op[s], view[s])

\* A step seen from one page.
Keeps(s) == LosesEdits(s) /\ ~q[s].lapsed => ByTheUser(s)
After(s) == PageOK(q'[s], op'[s], view'[s]) /\ Keeps(s)

\* What each operation on a queue leaves of what a page is judged by.
Shows(x, y) == y.latest = x.latest /\ y.dirty = x.dirty /\ y.acknowledged = x.acknowledged
Lives(x, y) == y.enabled = x.enabled /\ y.lapsed = x.lapsed /\ y.open = x.open

LEMMA UpdateShows ==
  ASSUME NEW x \in Queue, NEW t \in Texts, NEW y, y = Update(x, t)
  PROVE  y.latest = t /\ y.dirty = (t # x.acknowledged) /\ y.acknowledged = x.acknowledged /\ Lives(x, y)
  BY DEF Update, Queue, Lives

LEMMA EnableShows ==
  ASSUME NEW x \in Queue, NEW v \in BOOLEAN, NEW y, y = SetEnabled(x, v)
  PROVE  /\ Shows(x, y) /\ y.open = x.open
         /\ y.enabled = v /\ y.lapsed = (x.lapsed \/ ~v)
         /\ y.flight = x.flight /\ y.status = x.status /\ y.version = x.version
  BY DEF SetEnabled, Queue, Shows

LEMMA SendingShows ==
  ASSUME NEW x \in Queue, NEW y, y = Sending(x)
  PROVE  Shows(x, y) /\ Lives(x, y) /\ y.flight = "saving"
  BY DEF Sending, Queue, Shows, Lives

LEMMA AcknowledgeShows ==
  ASSUME NEW x \in Queue, NEW m \in Save, NEW y, y = Acknowledge(x, m)
  PROVE  y.latest = x.latest /\ y.dirty = (x.latest # m.text) /\ y.acknowledged = m.text /\ Lives(x, y)
  BY DEF Acknowledge, Queue, Lives

LEMMA SettledShows ==
  ASSUME NEW x \in Queue, NEW y, y = Settled(x)
  PROVE  /\ Shows(x, y) /\ Lives(x, y)
         /\ y.status = x.status /\ y.version = x.version /\ y.flight = "none"
  BY DEF Settled, Queue, Shows, Lives

LEMMA ConflictedShows ==
  ASSUME NEW x \in Queue, NEW y, y = Conflicted(x)
  PROVE  Shows(x, y) /\ Lives(x, y)
  BY DEF Conflicted, Queue, Shows, Lives

\* Where one page acts, the others see nothing of it.
LEMMA OneActs ==
  ASSUME TypeOK, Pages, NEW r \in Sessions, After(r),
         \A s \in Sessions : s # r => q'[s] = q[s] /\ op'[s] = op[s] /\ view'[s] = view[s]
  PROVE  \A s \in Sessions : After(s)
<1> SUFFICES ASSUME NEW s \in Sessions, s # r PROVE After(s)
  OBVIOUS
<1>1. PageOK(q'[s], op'[s], view'[s])
  BY DEF Pages
<1>2. ~LosesEdits(s)
  BY DEF LosesEdits
<1> QED BY <1>1, <1>2 DEF After, Keeps

LEMMA NoneActs ==
  ASSUME Pages, q' = q, op' = op, view' = view
  PROVE  \A s \in Sessions : After(s)
  BY DEF Pages, After, Keeps, LosesEdits

\* A page that keeps its text and stays open loses nothing.
LEMMA KeepsText ==
  ASSUME NEW s, q'[s].latest = q[s].latest, q'[s].open = q[s].open
  PROVE  Keeps(s)
  BY DEF Keeps, LosesEdits

\* A save goes out: the page waits for it.
LEMMA FlushPage ==
  ASSUME TypeOK, NEW s \in Sessions, PageOK(q[s], op[s], view[s]), Flush(s)
  PROVE  /\ q'[s] = Sending(q[s]) /\ \A r \in Sessions : r # s => q'[r] = q[r]
         /\ q'[s].flight = "saving" /\ Keeps(s)
         /\ op[s].phase \in {"idle", "flush"} \/ q[s].lapsed
         /\ op' = op /\ view' = view => After(s)
<1>0. q[s] \in Queue
  BY DEF TypeOK
<1>1. q'[s] = Sending(q[s]) /\ \A r \in Sessions : r # s => q'[r] = q[r]
  BY DEF Flush, TypeOK
<1>2. q[s].dirty
  BY DEF Flush, Starts
<1>4. Shows(q[s], q'[s]) /\ Lives(q[s], q'[s]) /\ q'[s].flight = "saving"
  BY <1>0, <1>1, SendingShows
<1>3. Keeps(s)
  BY <1>4, KeepsText DEF Shows, Lives
<1>5. op[s].phase \in {"idle", "flush"} \/ q[s].lapsed
  BY <1>2 DEF PageOK
<1>6. PageOK(q'[s], op[s], view[s])
  BY <1>2, <1>4, <1>5 DEF PageOK, Shows, Lives
<1> QED BY <1>1, <1>3, <1>4, <1>5, <1>6 DEF After

\* The page takes the answer of a save, or misses it: it has no command past the
\* flush, unless it was disabled.
LEMMA AnswerPage ==
  ASSUME TypeOK, OneSaveInFlight, Pages, NEW m \in saves, m.waited, m.epoch = q[m.from].epoch
  PROVE  /\ m \in Save /\ m.from \in Sessions
         /\ q[m.from].flight = "saving"
         /\ op[m.from].phase \in {"idle", "flush"} \/ q[m.from].lapsed
<1>1. m \in Save /\ m.from \in Sessions
  BY DEF TypeOK, Save
<1>2. q[m.from].flight = "saving"
  BY <1>1 DEF OneSaveInFlight
<1> QED BY <1>1, <1>2 DEF Pages, PageOK

LEMMA AnewPage ==
  ASSUME NEW t, NEW v, NEW st, NEW e
  PROVE  PageOK(Fresh(t, v, st, e), Idle, st)
  BY DEF PageOK, Fresh, Idle

LEMMA PagesStep ==
  ASSUME TypeOK, OneSaveInFlight, Pages, Next
  PROVE  \A s \in Sessions : After(s)
<1>0. \A s \in Sessions : q[s] \in Queue /\ op[s] \in Op /\ PageOK(q[s], op[s], view[s])
  BY DEF TypeOK, Pages
<1>d. DOMAIN q = Sessions /\ DOMAIN op = Sessions /\ DOMAIN view = Sessions
  BY DEF TypeOK
<1>1. ASSUME NEW s \in Sessions, NEW t \in Texts, Type(s, t) PROVE \A r \in Sessions : After(r)
  <2>1. q'[s] = Update(q[s], t) /\ \A r \in Sessions : r # s => q'[r] = q[r]
    BY <1>1, <1>d DEF Type
  <2>2. op[s].kind = "none" /\ op' = op /\ view' = view
    BY <1>1 DEF Type, Busy
  <2>5. /\ q'[s].latest = t /\ q'[s].dirty = (t # q[s].acknowledged)
        /\ q'[s].acknowledged = q[s].acknowledged /\ Lives(q[s], q'[s])
    BY <1>0, <2>1, UpdateShows
  <2>3. PageOK(q'[s], op'[s], view'[s])
    BY <1>0, <2>2, <2>5 DEF PageOK, Lives
  <2>4. Keeps(s)
    BY <1>1 DEF Keeps, ByTheUser
  <2> QED BY <2>1, <2>2, <2>3, <2>4, OneActs DEF After
<1>2. ASSUME NEW s \in Sessions, TimerFires(s) \/ SaveNow(s) PROVE \A r \in Sessions : After(r)
  BY <1>0, <1>2, FlushPage, OneActs DEF TimerFires, SaveNow
<1>3. ASSUME NEW m \in saves, SaveAnswered(m) PROVE \A r \in Sessions : After(r)
  <2> DEFINE s    == m.from
             next == IF m.result = "ok" THEN Acknowledge(q[s], m) ELSE Failed(q[s], m.result)
  <2>1. op' = op /\ view' = view /\ m.waited /\ m \in Save /\ s \in Sessions
    BY <1>3 DEF SaveAnswered, TypeOK, Save
  <2>2. CASE q' = q
    BY <2>1, <2>2, NoneActs
  <2>3. ASSUME m.epoch = q[s].epoch,
               \/ q' = [q EXCEPT ![s] = next] /\ ~(m.result = "ok" /\ next.dirty /\ next.enabled)
               \/ q' = [q EXCEPT ![s] = Sending(next)]
        PROVE  \A r \in Sessions : After(r)
    <3>1. op[s].phase \in {"idle", "flush"} \/ q[s].lapsed
      BY <2>1, <2>3, AnswerPage
    <3>2. next \in Queue
      BY <1>0, <2>1, QueueOps
    <3>3. /\ next.latest = q[s].latest /\ next.open = q[s].open
          /\ ~next.dirty => next.latest = next.acknowledged
          /\ next.lapsed \/ next.enabled
          /\ q[s].lapsed => next.lapsed
          /\ m.result = "ok" \/ Paused(next)
      <4>1. CASE m.result = "ok"
        <5>1. /\ next.latest = q[s].latest /\ next.dirty = (q[s].latest # m.text)
              /\ next.acknowledged = m.text /\ Lives(q[s], next)
          BY <1>0, <2>1, <4>1, AcknowledgeShows
        <5> HIDE DEF next
        <5> QED BY <1>0, <2>1, <4>1, <5>1 DEF PageOK, Lives
      <4>2. CASE m.result # "ok"
        <5>1. /\ next.latest = q[s].latest /\ next.dirty = TRUE /\ next.acknowledged = q[s].acknowledged
              /\ m.result # "expired" => Lives(q[s], next)
              /\ m.result = "expired" => next.lapsed
              /\ next.open = q[s].open /\ Paused(next)
          <6>1. m.result \in Results \union {"sent", "lost"} /\ q[s] \in Queue
            BY <1>0, <2>1 DEF Save
          <6>2. next = Failed(q[s], m.result)
            BY <4>2
          <6> HIDE DEF next
          <6> QED BY <6>1, <6>2 DEF Failed, Queue, Paused, Lives, Results
        <5> HIDE DEF next
        <5> QED BY <1>0, <2>1, <4>2, <5>1 DEF PageOK, Lives
      <4> QED BY <4>1, <4>2
    <3> HIDE DEF next
    <3>4. \A r \in Sessions : r # s => q'[r] = q[r]
      BY <1>d, <2>3
    <3>5. CASE q'[s] = next /\ ~(m.result = "ok" /\ next.dirty /\ next.enabled)
      <4>1. PageOK(next, op[s], view[s])
        BY <1>0, <2>1, <3>1, <3>3, <3>5 DEF PageOK
      <4>2. Keeps(s)
        BY <3>3, <3>5, KeepsText
      <4> QED BY <2>1, <3>4, <3>5, <4>1, <4>2, OneActs DEF After
    <3>6. CASE q'[s] = Sending(next)
      <4>0. Shows(next, q'[s]) /\ Lives(next, q'[s]) /\ q'[s].flight = "saving"
        BY <3>2, <3>6, SendingShows
      <4>1. PageOK(q'[s], op[s], view[s])
        BY <1>0, <2>1, <3>1, <3>3, <4>0 DEF PageOK, Shows, Lives
      <4>2. Keeps(s)
        BY <3>3, <4>0, KeepsText DEF Shows, Lives
      <4> QED BY <2>1, <3>4, <4>1, <4>2, OneActs DEF After
    <3> QED BY <1>d, <2>1, <2>3, <3>5, <3>6
  <2> HIDE DEF next
  <2>4. \/ q' = q
        \/ /\ m.epoch = q[s].epoch
           /\ \/ q' = [q EXCEPT ![s] = next] /\ ~(m.result = "ok" /\ next.dirty /\ next.enabled)
              \/ q' = [q EXCEPT ![s] = Sending(next)]
    BY <1>3 DEF SaveAnswered, next
  <2> QED BY <2>2, <2>3, <2>4
<1>4. ASSUME NEW m \in saves, SaveLost(m) PROVE \A r \in Sessions : After(r)
  <2> DEFINE s == m.from
             x == Failed(q[s], "lost")
  <2>1. op' = op /\ view' = view /\ m.waited
    BY <1>4 DEF SaveLost
  <2>2. CASE q' = q
    BY <2>1, <2>2, NoneActs
  <2>3. CASE m.epoch = q[s].epoch /\ q' = [q EXCEPT ![s] = x]
    <3>1. s \in Sessions /\ (op[s].phase \in {"idle", "flush"} \/ q[s].lapsed)
      BY <2>1, <2>3, AnswerPage
    <3>2. /\ x.latest = q[s].latest /\ x.open = q[s].open /\ x.dirty = TRUE /\ Paused(x)
          /\ x.enabled = q[s].enabled /\ x.lapsed = q[s].lapsed
      <4>1. "lost" # "expired" /\ "lost" \in Results \union {"sent", "lost"}
        OBVIOUS
      <4>2. q[s] \in Queue
        BY <1>0, <3>1
      <4>3. /\ x.latest = q[s].latest /\ x.dirty = TRUE /\ Lives(q[s], x)
            /\ x.open = q[s].open /\ Paused(x)
        BY <4>1, <4>2 DEF Failed, Queue, Paused, Lives
      <4> HIDE DEF x
      <4> QED BY <4>3 DEF Lives
    <3> HIDE DEF x
    <3>3. q'[s] = x /\ \A r \in Sessions : r # s => q'[r] = q[r]
      BY <1>d, <2>3, <3>1
    <3>4. PageOK(x, op[s], view[s])
      BY <1>0, <3>1, <3>2 DEF PageOK
    <3>5. Keeps(s)
      BY <3>2, <3>3, KeepsText
    <3> QED BY <2>1, <3>1, <3>3, <3>4, <3>5, OneActs DEF After
  <2> QED BY <1>4, <2>2, <2>3 DEF SaveLost
<1>5. ASSUME NEW s \in Sessions, Settle(s) PROVE \A r \in Sessions : After(r)
  <2>1. q'[s] = Settled(q[s]) /\ op' = op /\ view' = view /\ \A r \in Sessions : r # s => q'[r] = q[r]
    BY <1>5, <1>d DEF Settle
  <2>2. q[s].flight = "settling"
    BY <1>5 DEF Settle
  <2>5. /\ Shows(q[s], q'[s]) /\ Lives(q[s], q'[s])
        /\ q'[s].status = q[s].status /\ q'[s].version = q[s].version /\ q'[s].flight = "none"
    BY <1>0, <2>1, SettledShows
  <2>3. PageOK(q'[s], op[s], view[s])
    BY <1>0, <2>2, <2>5 DEF PageOK, Paused, Shows, Lives
  <2>4. Keeps(s)
    BY <2>5, KeepsText DEF Shows, Lives
  <2> QED BY <2>1, <2>3, <2>4, OneActs DEF After
<1>6. ASSUME NEW s \in Sessions, NEW k \in Kinds \union {"leave"}, Perform(s, k)
      PROVE  \A r \in Sessions : After(r)
  <2> DEFINE o == [Idle EXCEPT !.kind = k, !.phase = "flush", !.state = view[s]]
  <2>1. op'[s] = o /\ view' = view /\ \A r \in Sessions : r # s => op'[r] = op[r]
    BY <1>6, <1>d DEF Perform
  <2>2. o.kind = k /\ o.phase = "flush" /\ o.state = view[s] /\ k # "none"
    BY DEF Idle, Kinds
  <2>3. q[s].open /\ q[s].flight # "settling"
    BY <1>6 DEF Perform
  <2>4. CASE Flush(s)
    <3>1. /\ q'[s] = Sending(q[s]) /\ \A r \in Sessions : r # s => q'[r] = q[r]
          /\ q'[s].flight = "saving" /\ Keeps(s)
      BY <1>0, <2>4, FlushPage
    <3>3. Shows(q[s], q'[s]) /\ Lives(q[s], q'[s])
      BY <1>0, <3>1, SendingShows
    <3>4. ~q[s].lapsed => view[s] = "editable"
      BY <1>0 DEF PageOK
    <3>2. PageOK(q'[s], o, view[s])
      BY <1>0, <2>2, <2>3, <3>1, <3>3, <3>4 DEF PageOK, Shows, Lives
    <3> QED BY <2>1, <3>1, <3>2, OneActs DEF After
  <2>5. CASE q' = q /\ ~(Starts(q[s]) /\ (view[s] = "editable" \/ k = "leave"))
    <3>1. ~q[s].lapsed => view[s] = "editable" /\ ~Refuses(q[s]) /\ ~Starts(q[s])
      BY <1>0, <1>6, <2>5 DEF Perform, PageOK
    <3>2. ~q[s].lapsed => q[s].flight = "saving" \/ ~q[s].dirty
      BY <1>0, <2>3, <3>1 DEF Starts, Queue
    <3>3. PageOK(q[s], o, view[s])
      BY <1>0, <2>2, <2>3, <3>1, <3>2 DEF PageOK
    <3>4. Keeps(s)
      BY <2>5, KeepsText
    <3> QED BY <2>1, <2>5, <3>3, <3>4, OneActs DEF After
  <2> HIDE DEF o
  <2> QED BY <1>6, <2>4, <2>5 DEF Perform
<1>7. ASSUME NEW s \in Sessions, Drop(s) \/ OpLost(s) PROVE \A r \in Sessions : After(r)
  <2>1. op'[s] = Idle /\ q' = q /\ view' = view /\ \A r \in Sessions : r # s => op'[r] = op[r]
    BY <1>7, <1>d DEF Drop, OpLost
  <2>2. PageOK(q[s], Idle, view[s])
    BY <1>0 DEF PageOK, Idle
  <2> QED BY <2>1, <2>2, KeepsText, OneActs DEF After
<1>8. ASSUME NEW s \in Sessions, Send(s) PROVE \A r \in Sessions : After(r)
  <2> DEFINE o == [op[s] EXCEPT !.phase = "sent", !.version = q[s].version]
  <2>1. op'[s] = o /\ q' = q /\ view' = view /\ \A r \in Sessions : r # s => op'[r] = op[r]
    BY <1>8, <1>d DEF Send
  <2>2. o.kind = op[s].kind /\ o.phase = "sent" /\ o.version = q[s].version
    BY <1>0 DEF Op
  <2>3. op[s].phase = "flush"
    BY <1>8 DEF Send, Flushed
  <2>4. ~q[s].lapsed => ~q[s].dirty /\ q[s].flight = "none"
    BY <1>0, <1>8 DEF Send, Flushed, FlushFailed, Unsavable, PageOK
  <2> HIDE DEF o
  <2>5. PageOK(q[s], o, view[s])
    BY <1>0, <2>2, <2>3, <2>4 DEF PageOK
  <2> QED BY <2>1, <2>5, KeepsText, OneActs DEF After
<1>9. ASSUME NEW s \in Sessions, NEW t \in Texts, ServerActs(s, t) PROVE \A r \in Sessions : After(r)
  <2>1. PICK r \in Results :
          op' = [op EXCEPT ![s] = [op[s] EXCEPT !.phase = r, !.text = server'.text,
                                   !.version = server'.version, !.state = server'.state]]
    BY <1>9, ZenonT(60) DEF ServerActs, Results, TypeOK
  <2>2. op'[s].kind = op[s].kind /\ op'[s].phase = r /\ \A u \in Sessions : u # s => op'[u] = op[u]
    BY <1>0, <1>d, <2>1 DEF Op
  <2>3. r \notin {"idle", "flush", "sent"} /\ op[s].phase = "sent" /\ q' = q /\ view' = view
    BY <1>9 DEF ServerActs, Results
  <2>4. PageOK(q[s], op'[s], view[s])
    BY <1>0, <2>2, <2>3 DEF PageOK
  <2> QED BY <2>2, <2>3, <2>4, KeepsText, OneActs DEF After
<1>10. ASSUME NEW s \in Sessions, OpAnswered(s) PROVE \A r \in Sessions : After(r)
  <2>1. op'[s] = Idle /\ \A r \in Sessions : r # s => op'[r] = op[r]
    BY <1>10, <1>d DEF OpAnswered
  <2>2. CASE op[s].phase = "ok"
    <3>1. /\ q'[s] = Fresh(op[s].text, op[s].version, op[s].state, q[s].epoch + 1)
          /\ view'[s] = op[s].state
          /\ \A r \in Sessions : r # s => q'[r] = q[r] /\ view'[r] = view[r]
      BY <1>10, <1>d, <2>2 DEF OpAnswered
    <3>2. Keeps(s)
      BY <1>0, <2>2 DEF Keeps, LosesEdits, PageOK
    <3> QED BY <2>1, <3>1, <3>2, AnewPage, OneActs DEF After
  <2>3. CASE op[s].phase # "ok"
    <3>1. PICK x \in {Conflicted(q[s]), SetEnabled(q[s], FALSE), q[s]} : q' = [q EXCEPT ![s] = x]
      BY <1>10, <2>3 DEF OpAnswered
    <3>2. q'[s] = x /\ view' = view /\ \A r \in Sessions : r # s => q'[r] = q[r]
      BY <1>10, <1>d, <2>3, <3>1 DEF OpAnswered
    <3>3. /\ Shows(q[s], x) /\ x.open = q[s].open
          /\ q[s].lapsed => x.lapsed
          /\ x.lapsed \/ x.enabled
      <4>1. CASE x = Conflicted(q[s])
        <5>1. Shows(q[s], x) /\ Lives(q[s], x)
          BY <1>0, <4>1, ConflictedShows
        <5> QED BY <1>0, <5>1 DEF PageOK, Lives
      <4>2. CASE x = SetEnabled(q[s], FALSE)
        <5>1. Shows(q[s], x) /\ x.open = q[s].open /\ x.lapsed = (q[s].lapsed \/ ~FALSE)
          BY <1>0, <4>2, EnableShows
        <5> QED BY <5>1
      <4>3. CASE x = q[s]
        BY <1>0, <4>3 DEF PageOK, Shows
      <4> QED BY <3>1, <4>1, <4>2, <4>3
    <3>4. PageOK(x, Idle, view[s])
      BY <1>0, <3>3 DEF PageOK, Idle, Shows
    <3>5. Keeps(s)
      BY <3>2, <3>3, KeepsText DEF Shows
    <3> QED BY <2>1, <3>2, <3>4, <3>5, OneActs DEF After
  <2> QED BY <2>2, <2>3
<1>11. ASSUME NEW s \in Sessions, Reload(s) \/ Open(s) PROVE \A r \in Sessions : After(r)
  <2>1. /\ q'[s] = Fresh(server.text, server.version, server.state, q[s].epoch + 1)
        /\ view'[s] = server.state /\ op' = op
        /\ \A r \in Sessions : r # s => q'[r] = q[r] /\ view'[r] = view[r]
    BY <1>11, <1>d DEF Reload, Open
  <2>2. op[s].kind = "none"
    BY <1>0, <1>11 DEF Reload, Open, Busy, PageOK
  <2>5. PageOK(Fresh(server.text, server.version, server.state, q[s].epoch + 1), Idle, server.state)
    BY AnewPage
  <2> DEFINE y == q'[s]
  <2>6. PageOK(y, Idle, view'[s])
    BY <2>1, <2>5
  <2>7. op[s].phase = "idle" /\ y.open
    BY <1>0, <2>1, <2>2 DEF PageOK, Fresh
  <2> HIDE DEF y
  <2>8. PageOK(y, op[s], view'[s])
    BY <2>2, <2>6, <2>7 DEF PageOK, Idle
  <2>3. PageOK(q'[s], op[s], view'[s])
    BY <2>8 DEF y
  <2>4. Keeps(s)
    BY <1>11 DEF Keeps, LosesEdits, ByTheUser, Open
  <2> QED BY <2>1, <2>3, <2>4, OneActs DEF After
<1>12. ASSUME NEW s \in Sessions, Refetch(s) PROVE \A r \in Sessions : After(r)
  <2>1. /\ op' = op /\ \A r \in Sessions : r # s => q'[r] = q[r] /\ view'[r] = view[r]
        /\ \/ q'[s] = SetEnabled(q[s], FALSE) /\ view'[s] = view[s]
           \/ /\ view'[s] = server.state
              /\ \/ q'[s] = q[s] /\ (view[s] = "editable" <=> server.state = "editable")
                 \/ q'[s] = SetEnabled(q[s], server.state = "editable")
    BY <1>12, <1>d DEF Refetch
  <2>2. /\ q'[s].latest = q[s].latest /\ q'[s].open = q[s].open /\ q'[s].dirty = q[s].dirty
        /\ q'[s].acknowledged = q[s].acknowledged /\ q'[s].flight = q[s].flight
        /\ q'[s].status = q[s].status /\ q'[s].version = q[s].version
        /\ q[s].lapsed => q'[s].lapsed
        /\ q'[s].lapsed \/ q'[s].enabled
        /\ view'[s] # "editable" => q'[s].lapsed
    <3>1. ASSUME NEW v \in BOOLEAN, q'[s] = SetEnabled(q[s], v)
          PROVE  /\ Shows(q[s], q'[s]) /\ q'[s].open = q[s].open
                 /\ q'[s].enabled = v /\ q'[s].lapsed = (q[s].lapsed \/ ~v)
                 /\ q'[s].flight = q[s].flight /\ q'[s].status = q[s].status
                 /\ q'[s].version = q[s].version
      BY <1>0, <3>1, EnableShows
    <3> DEFINE e == server.state = "editable"
    <3>2. e \in BOOLEAN
      OBVIOUS
    <3>3. CASE q'[s] = SetEnabled(q[s], FALSE)
      BY <3>1, <3>3 DEF Shows
    <3>4. CASE view'[s] = server.state /\ q'[s] = q[s] /\ (view[s] = "editable" <=> server.state = "editable")
      BY <1>0, <3>4 DEF PageOK
    <3>5. CASE view'[s] = server.state /\ q'[s] = SetEnabled(q[s], e)
      <4>1. /\ Shows(q[s], q'[s]) /\ q'[s].open = q[s].open
            /\ q'[s].enabled = e /\ q'[s].lapsed = (q[s].lapsed \/ ~e)
            /\ q'[s].flight = q[s].flight /\ q'[s].status = q[s].status
            /\ q'[s].version = q[s].version
        BY <3>1, <3>2, <3>5
      <4> QED BY <3>5, <4>1 DEF Shows
    <3> QED BY <2>1, <3>3, <3>4, <3>5
  <2>3. PageOK(q'[s], op[s], view'[s])
    BY <1>0, <2>2 DEF PageOK, Paused
  <2>4. Keeps(s)
    BY <2>2, KeepsText
  <2> QED BY <2>1, <2>3, <2>4, OneActs DEF After
<1>13. ASSUME NEW s \in Sessions, Leave(s) \/ Discard(s) \/ SavedAndLeaves(s)
       PROVE  \A r \in Sessions : After(r)
  <2>1. PICK x \in {[SetEnabled(q[s], FALSE) EXCEPT !.open = FALSE], [q[s] EXCEPT !.open = FALSE]} :
          q' = [q EXCEPT ![s] = x]
    BY <1>13 DEF Leave, Discard, SavedAndLeaves
  <2>2. /\ q'[s] = x /\ view' = view /\ \A r \in Sessions : r # s => q'[r] = q[r] /\ op'[r] = op[r]
        /\ op'[s].kind = "none" /\ op'[s].phase = "idle"
    BY <1>0, <1>13, <1>d, <2>1 DEF Leave, Discard, SavedAndLeaves, Busy, PageOK, Idle
  <2>3. /\ x.latest = q[s].latest /\ x.dirty = q[s].dirty /\ x.acknowledged = q[s].acknowledged
        /\ q[s].lapsed => x.lapsed
        /\ x.lapsed \/ x.enabled
    <3>1. SetEnabled(q[s], FALSE) \in Queue
      BY <1>0, QueueOps
    <3> DEFINE y == SetEnabled(q[s], FALSE)
    <3>2. /\ y.latest = q[s].latest /\ y.dirty = q[s].dirty /\ y.acknowledged = q[s].acknowledged
          /\ y.lapsed
      <4>1. Shows(q[s], y) /\ y.lapsed = (q[s].lapsed \/ ~FALSE)
        BY <1>0, EnableShows
      <4> HIDE DEF y
      <4> QED BY <4>1 DEF Shows
    <3> HIDE DEF y
    <3>3. CASE x = [y EXCEPT !.open = FALSE]
      BY <3>1, <3>2, <3>3 DEF Queue, y
    <3>4. CASE x = [q[s] EXCEPT !.open = FALSE]
      BY <1>0, <3>4 DEF PageOK, Queue
    <3> QED BY <2>1, <3>3, <3>4 DEF y
  <2>4. PageOK(x, op'[s], view[s])
    BY <1>0, <2>2, <2>3 DEF PageOK
  <2>5. Keeps(s)
    <3>1. CASE Discard(s)
      BY <3>1 DEF Keeps, ByTheUser
    <3>2. CASE Leave(s)
      BY <1>0, <3>2 DEF Keeps, LosesEdits, Leave, Unsaved, PageOK
    <3>3. CASE SavedAndLeaves(s)
      BY <1>0, <3>3 DEF Keeps, LosesEdits, SavedAndLeaves, Flushed, Unsavable, PageOK
    <3> QED BY <1>13, <3>1, <3>2, <3>3
  <2> QED BY <2>2, <2>4, <2>5, OneActs DEF After
<1>14. CASE UNCHANGED <<q, op, view>>
  BY <1>14, NoneActs
<1> QED
  BY <1>1, <1>2, <1>3, <1>4, <1>5, <1>6, <1>7, <1>8, <1>9, <1>10, <1>11, <1>12, <1>13, <1>14
     DEF Next, ServerSaves, Decide, Expire, Renew

LEMMA PagesInit == Init => Pages
  <1> SUFFICES ASSUME Init, NEW s \in Sessions PROVE PageOK(q[s], op[s], view[s])
    BY DEF Pages
  <1>1. q[s] = Fresh(First, 1, "editable", 0) /\ op[s] = Idle /\ view[s] = "editable"
    BY DEF Init
  <1> QED BY <1>1, AnewPage

PagesInv == DraftInv /\ Pages

LEMMA PagesInductive ==
  ASSUME PagesInv, [Next]_vars
  PROVE  /\ PagesInv'
         /\ UNCHANGED vars \/ \A s \in Sessions : Keeps(s)
<1>1. TypeOK /\ OneSaveInFlight /\ Pages /\ DraftInv'
  BY InvStep DEF PagesInv, DraftInv
<1>2. CASE Next
  BY <1>1, <1>2, PagesStep DEF PagesInv, Pages, After
<1>3. CASE UNCHANGED vars
  BY <1>1, <1>3 DEF PagesInv, Pages, vars
<1> QED BY <1>2, <1>3

\* Typed text leaves a page that was never disabled only when its user types on,
\* reloads or discards it, whatever is in flight (editor.tsx:216-258,
\* autosave.ts:96-147).
THEOREM TypedTextStays == Spec => LocalEditsKeptWhileEnabled
<1>1. Init => PagesInv
  BY InitInv, PagesInit DEF PagesInv
<1>2. PagesInv /\ [Next]_vars => PagesInv'
  BY PagesInductive
<1>3. PagesInv /\ [Next]_vars =>
        [\A s \in Sessions : LosesEdits(s) /\ ~q[s].lapsed => ByTheUser(s)]_vars
  BY PagesInductive DEF Keeps
<1> QED BY <1>1, <1>2, <1>3, PTL DEF Spec, LocalEditsKeptWhileEnabled

\* What the server freezes of such a page is what its author saw on submitting
\* (editor.tsx:222, autosave.ts:102, :120).
THEOREM SubmissionsAreSeen == Spec => SubmitTakesWhatIsShown
<1>1. Init => PagesInv
  BY InitInv, PagesInit DEF PagesInv
<1>2. PagesInv /\ [Next]_vars => PagesInv'
  BY PagesInductive
<1>3. PagesInv /\ [Next]_vars =>
        [\A s \in Sessions : op[s].phase = "sent" /\ op'[s].phase = "ok"
            /\ op[s].kind \in {"submit", "direct"} /\ ~q[s].lapsed
           => server.text = q[s].latest]_vars
  <2> SUFFICES ASSUME PagesInv, Next, NEW s \in Sessions, op[s].phase = "sent", op'[s].phase = "ok",
                      op[s].kind \in {"submit", "direct"}, ~q[s].lapsed
               PROVE  server.text = q[s].latest
    BY DEF vars
  <2>0. TypeOK /\ op[s] \in Op /\ PageOK(q[s], op[s], view[s]) /\ Agrees(q[s].version, q[s].acknowledged)
    BY DEF PagesInv, DraftInv, TypeOK, Pages, VersionsNameTexts
  <2>1. PICK t \in Texts : ServerActs(s, t)
    <3> SUFFICES ASSUME ~\E t \in Texts : ServerActs(s, t) PROVE FALSE
      OBVIOUS
    <3>1. \A r \in Sessions, t \in Texts : ServerActs(r, t) => op'[s] = op[s] \/ r = s
      BY <2>0, ZenonT(60) DEF ServerActs, TypeOK
    <3>2. \A r \in Sessions :
            /\ \A k \in Kinds \union {"leave"} : Perform(r, k) => op'[s] = op[s] \/ op'[s].phase = "flush"
            /\ Send(r) => op'[s] = op[s] \/ op'[s].phase = "sent"
            /\ Drop(r) \/ OpAnswered(r) \/ OpLost(r) \/ SavedAndLeaves(r) => op'[s] = op[s] \/ op'[s].phase = "idle"
      <4>1. DOMAIN op = Sessions /\ \A r \in Sessions : op[r] \in Op
        BY <2>0 DEF TypeOK
      <4> TAKE r \in Sessions
      <4>2. ASSUME NEW k \in Kinds \union {"leave"}, Perform(r, k) PROVE op'[s] = op[s] \/ op'[s].phase = "flush"
        <5> DEFINE o == [Idle EXCEPT !.kind = k, !.phase = "flush", !.state = view[r]]
        <5>1. op' = [op EXCEPT ![r] = o]
          BY <4>2 DEF Perform
        <5>2. o.phase = "flush"
          BY DEF Idle
        <5> HIDE DEF o
        <5> QED BY <4>1, <5>1, <5>2
      <4>3. ASSUME Send(r) PROVE op'[s] = op[s] \/ op'[s].phase = "sent"
        <5>1. op'[r] = [op[r] EXCEPT !.phase = "sent", !.version = q[r].version]
          BY <4>1, <4>3 DEF Send
        <5>2. op'[r].phase = "sent"
          BY <4>1, <5>1 DEF Op
        <5>3. s # r => op'[s] = op[s]
          BY <4>1, <4>3 DEF Send
        <5> QED BY <5>2, <5>3
      <4>4. ASSUME Drop(r) \/ OpAnswered(r) \/ OpLost(r) \/ SavedAndLeaves(r)
            PROVE  op'[s] = op[s] \/ op'[s].phase = "idle"
        <5>1. op' = [op EXCEPT ![r] = Idle]
          BY <4>4 DEF Drop, OpAnswered, OpLost, SavedAndLeaves
        <5>2. Idle.phase = "idle"
          BY DEF Idle
        <5> QED BY <4>1, <5>1, <5>2
      <4> QED BY <4>2, <4>3, <4>4
    <3>3. op' = op \/ op'[s] = op[s] \/ op'[s].phase \in {"flush", "sent", "idle"}
      BY <3>1, <3>2
         DEF Next, Type, TimerFires, SaveNow, ServerSaves, SaveAnswered, SaveLost, Settle, Reload,
             Refetch, Leave, Discard, Open, Decide, Expire, Renew
    <3> QED BY <3>3
  <2>2. op[s].version = server.version
    <3>1. op[s].kind \in Versioned
      BY DEF Versioned
    <3>2. op'[s].phase = "ok" => ~(op[s].kind \in Versioned /\ op[s].version # server.version)
      BY <2>0, <2>1 DEF ServerActs, TypeOK, Op
    <3> QED BY <3>1, <3>2
  <2>3. ~q[s].dirty /\ op[s].version = q[s].version
    BY <2>0 DEF PageOK
  <2> QED BY <2>0, <2>2, <2>3 DEF PageOK, Agrees
<1> QED BY <1>1, <1>2, <1>3, PTL DEF Spec, SubmitTakesWhatIsShown
=============================================================================
