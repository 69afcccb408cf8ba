--------------------------- MODULE BrowsingProofs ---------------------------
(***************************************************************************)
(* What holds of the operations, the session and the events of a profile,  *)
(* whichever explorer uses them: for any number of operations and          *)
(* sessions.  ExplorerProofs adds the two explorers.                       *)
(*                                                                         *)
(* The argument rests on one fact: an operation that runs without being    *)
(* the active one was displaced by a Disconnect, and that Disconnect       *)
(* waits for it (OnlyActiveRuns).  So a stale answer always comes before   *)
(* the Disconnect's own, while the card is pending, and whoever else       *)
(* changes the session is the active operation.                            *)
(***************************************************************************)
EXTENDS Browsing, TLAPS

\* The requests R and the contents C are those of the explorer.
Kinds == BrowseKinds \cup Controls \cup {"connect"}
OperationsOf(R) ==
    {o \in [kind : Kinds, request : R, task : Tasks, lease : 0..MaxSessions, cancelled : BOOLEAN] :
        o.kind = "disconnect" => o.task \notin {"acquiring", "leased"}}
AnswersOf(C) == [op : Nat, answer : {"failed", "loaded", "ready", "closed"}, session : 0..MaxSessions,
                 disposition : {"none", "Keep", "Evict"}, outcome : Outcomes, content : C]
ConnectionStates == [state : {"Disconnected", "Pending", "Connected"}, at : Nat]

Shaped(R, C) ==
    /\ operations \in Seq(OperationsOf(R)) /\ Len(operations) <= MaxOperations
    /\ events \in Seq(AnswersOf(C))
    /\ active \in {0, Len(operations)}
    /\ conn \in ConnectionStates
    /\ session \in 0..MaxSessions /\ sessions \in 0..MaxSessions

\* Every other running operation is one a running Disconnect has displaced.
OnlyActiveRuns ==
    \A o \in Operation : Running(o) /\ o # active =>
        active # 0 /\ Kind(active) = "disconnect" /\ Running(active)

\* A queued event is the answer of an operation that is over; the active operation's
\* is the last, and there are others only before that of a Disconnect.
ActiveAnswersLast ==
    /\ \A k \in 1..Len(events) :
         /\ events[k].op \in Operation /\ ~Running(events[k].op)
         /\ events[k].op # active => active # 0 /\ Kind(active) = "disconnect"
         /\ k < Len(events) => events[k].op # active
    /\ active # 0 /\ ~Running(active) => Len(events) > 0 /\ events[Len(events)].op = active

\* The card is pending exactly while connection work is active.
PendingIsActive ==
    /\ active # 0 /\ Kind(active) \notin BrowseKinds => conn = Pending(active)
    /\ conn.state = "Pending" => conn = Pending(active) /\ active # 0 /\ Kind(active) \notin BrowseKinds

\* The active operation's lease is on the cached session.
LeaseIsCached ==
    active # 0 /\ Kind(active) # "disconnect" /\ operations[active].task = "leased" =>
        operations[active].lease = session /\ session # 0

\* What the answer of the active operation says of the session is so.
AnswerIsTrue ==
    \A k \in 1..Len(events) : events[k].op = active =>
        /\ events[k].answer = "ready" => events[k].disposition = "Keep"
        /\ events[k].disposition = "Keep" => events[k].session = session /\ session # 0
        /\ events[k].disposition = "Evict" /\ conn.state = "Connected" => events[k].session = conn.at

\* The session of the card is cached, or the active operation has evicted it and says so.
CardIsLive ==
    conn.state = "Connected" =>
        /\ conn.at # 0
        /\ \/ session = conn.at
           \/ active # 0 /\ ~Running(active) /\ events[Len(events)].disposition = "Evict"

BrowseInv(R, C) ==
    /\ Shaped(R, C) /\ OnlyActiveRuns /\ ActiveAnswersLast /\ PendingIsActive
    /\ LeaseIsCached /\ AnswerIsTrue /\ CardIsLive

-----------------------------------------------------------------------------
(* The card's session is live.                                             *)

\* The invariant gives what the run checks of the card (ConnectedIsLive).
LEMMA LiveFollows ==
    ASSUME NEW R, NEW C, BrowseInv(R, C)
    PROVE  ConnectedIsLive
<1>1. SUFFICES ASSUME conn.state = "Connected", session # conn.at
               PROVE  \E k \in DOMAIN events : events[k].op = active
  BY DEF ConnectedIsLive
<1>2. active # 0 /\ ~Running(active)
  BY <1>1 DEF BrowseInv, CardIsLive
<1>3. Len(events) > 0 /\ events[Len(events)].op = active
  BY <1>2 DEF BrowseInv, ActiveAnswersLast
<1>4. Len(events) \in DOMAIN events
  BY <1>3 DEF BrowseInv, Shaped
<1> QED
  BY <1>3, <1>4

\* The profile starts with nothing under way.
LEMMA BrowseStarts ==
    ASSUME NEW R, NEW C, BrowsingInit
    PROVE  BrowseInv(R, C)
<1>1. Operation = {} /\ Len(events) = 0 /\ Len(operations) = 0
  BY DEF BrowsingInit, Operation
<1>2. Shaped(R, C)
  BY BrowsingBoundsAssumption DEF Shaped, BrowsingInit, ConnectionStates, Disconnected, Connected
<1>3. PendingIsActive /\ CardIsLive
  BY DEF BrowsingInit, PendingIsActive, CardIsLive, Disconnected, Connected
<1> QED
  BY <1>1, <1>2, <1>3
     DEF BrowsingInit, BrowseInv, OnlyActiveRuns, ActiveAnswersLast, LeaseIsCached, AnswerIsTrue

-----------------------------------------------------------------------------
(* The three kinds of steps of the tasks and of the window's submissions.  *)

\* No operation is submitted, and none finishes.
NoneFinishes ==
    /\ Len(operations') = Len(operations)
    /\ \A o \in Operation : /\ operations'[o].kind = operations[o].kind
                            /\ operations'[o].task = "done" <=> operations[o].task = "done"

\* An operation goes on: it has not answered, and the session is as it says.
LEMMA Going ==
    ASSUME NEW R, NEW C, BrowseInv(R, C), NEW op \in Operation, Running(op),
           operations' \in Seq(OperationsOf(R)), NoneFinishes, UNCHANGED <<events, active, conn>>,
           session' \in 0..MaxSessions, sessions' \in 0..MaxSessions,
           op = active => /\ operations'[op].task = "leased" /\ Kind(op) # "disconnect" =>
                                operations'[op].lease = session' /\ session' # 0
                          /\ conn.state = "Connected" => session' = session
    PROVE  BrowseInv(R, C)'
<1>1. Shaped(R, C) /\ OnlyActiveRuns /\ ActiveAnswersLast /\ PendingIsActive /\ CardIsLive
  BY DEF BrowseInv
<1>2. /\ Len(operations') = Len(operations) /\ Operation' = Operation
      /\ op \in 1..Len(operations) /\ Len(operations) \in Nat
  BY <1>1 DEF Operation, Shaped, NoneFinishes
<1>3. \A o \in Operation : (Kind(o)' = Kind(o)) /\ (Running(o)' <=> Running(o))
  BY DEF Kind, Running, NoneFinishes
<1>4. active # 0 => active \in Operation
  BY <1>1, <1>2 DEF Shaped, Operation
<1>5. Running(active)
  BY <1>1 DEF OnlyActiveRuns
<1>6. active \in Operation
  BY <1>1, <1>4 DEF OnlyActiveRuns
<1>7. \A k \in 1..Len(events) : events[k].op # active
  BY <1>1, <1>5 DEF ActiveAnswersLast
<1>8. op # active => Kind(active) = "disconnect" /\ conn.state # "Connected"
  BY <1>1 DEF OnlyActiveRuns, PendingIsActive, Pending, BrowseKinds
<1>9. Shaped(R, C)'
  BY <1>1, <1>2 DEF Shaped
<1>10. OnlyActiveRuns'
  BY <1>1, <1>2, <1>3, <1>6 DEF OnlyActiveRuns
<1>11. ActiveAnswersLast'
  BY <1>1, <1>2, <1>3, <1>6, <1>7 DEF ActiveAnswersLast
<1>12. PendingIsActive'
  BY <1>1, <1>3, <1>6 DEF PendingIsActive, Pending
<1>13. LeaseIsCached'
  BY <1>3, <1>6, <1>8 DEF LeaseIsCached
<1>14. AnswerIsTrue'
  BY <1>7 DEF AnswerIsTrue
<1>15. CardIsLive'
  BY <1>1, <1>5, <1>8 DEF CardIsLive
<1> QED
  BY <1>9, <1>10, <1>11, <1>12, <1>13, <1>14, <1>15 DEF BrowseInv

\* An operation answers: its event is true of the session it leaves.
LEMMA Answering ==
    ASSUME NEW R, NEW C, BrowseInv(R, C), NEW op \in Operation, Running(op),
           NEW e \in AnswersOf(C), e.op = op, Answered(op, e),
           session' \in 0..MaxSessions, sessions' \in 0..MaxSessions,
           Kind(op) = "disconnect" => \A o \in 1..(op - 1) : ~Running(o),
           e.answer = "ready" => e.disposition = "Keep",
           op = active =>
             /\ e.disposition = "Keep" => e.session = session' /\ session' # 0
             /\ e.disposition = "Evict" /\ conn.state = "Connected" => e.session = conn.at
             /\ e.disposition # "Evict" /\ conn.state = "Connected" => session' = session
    PROVE  /\ BrowseInv(R, C)'
           /\ operations' \in Seq(OperationsOf(R)) /\ Len(operations') = Len(operations)
           /\ \A o \in Operation : /\ operations'[o].kind = operations[o].kind
                                   /\ operations'[o].request = operations[o].request
                                   /\ operations'[o].task = IF o = op THEN "done" ELSE operations[o].task
<1>1. Shaped(R, C) /\ OnlyActiveRuns /\ ActiveAnswersLast /\ PendingIsActive /\ CardIsLive
  BY DEF BrowseInv
<1>2. op \in 1..Len(operations) /\ Len(operations) \in Nat /\ operations[op] \in OperationsOf(R)
  BY <1>1 DEF Operation, Shaped
<1>3. operations' = [operations EXCEPT ![op] = [operations[op] EXCEPT !.task = "done"]]
  BY <1>2 DEF Answered, Shaped
<1>4. [operations[op] EXCEPT !.task = "done"] \in OperationsOf(R)
  BY <1>2 DEF OperationsOf, Tasks
<1>5. operations' \in Seq(OperationsOf(R)) /\ Len(operations') = Len(operations)
  BY <1>1, <1>2, <1>3, <1>4 DEF Shaped
<1>6. \A o \in Operation : /\ operations'[o].kind = operations[o].kind
                           /\ operations'[o].request = operations[o].request
                           /\ operations'[o].lease = operations[o].lease
                           /\ operations'[o].task = IF o = op THEN "done" ELSE operations[o].task
  BY <1>1, <1>2, <1>3 DEF Operation, Shaped, OperationsOf
<1>7. Operation' = Operation
  BY <1>5 DEF Operation
<1>8. \A o \in Operation : (Kind(o)' = Kind(o)) /\ (Running(o)' <=> Running(o) /\ o # op)
  BY <1>6 DEF Kind, Running
<1>9. /\ events' = Append(events, e) /\ events' \in Seq(AnswersOf(C)) /\ Len(events') = Len(events) + 1
      /\ events'[Len(events) + 1] = e /\ \A k \in 1..Len(events) : events'[k] = events[k]
      /\ Len(events) \in Nat
  BY <1>1 DEF Answered, Shaped
<1>10. active' = active /\ conn' = conn
  BY DEF Answered
<1>11. active \in Operation /\ Running(active)
  BY <1>1 DEF OnlyActiveRuns, Shaped, Operation
<1>12. \A k \in 1..Len(events) : events[k].op # active
  BY <1>1, <1>11 DEF ActiveAnswersLast
<1>13. op # active => Kind(active) = "disconnect" /\ conn.state # "Connected"
  BY <1>1 DEF OnlyActiveRuns, PendingIsActive, Pending, BrowseKinds
<1>14. active = Len(operations)
  BY <1>1, <1>11, <1>2 DEF Shaped, Operation
<1>15. Shaped(R, C)'
  BY <1>1, <1>5, <1>9, <1>10 DEF Shaped
<1>16. OnlyActiveRuns'
  <2>1. SUFFICES ASSUME NEW o \in Operation, Running(o), o # op, o # active
                 PROVE  active # 0 /\ Kind(active) = "disconnect" /\ active # op
    BY <1>7, <1>8, <1>10, <1>11 DEF OnlyActiveRuns
  <2>2. active # 0 /\ Kind(active) = "disconnect"
    BY <1>1, <2>1 DEF OnlyActiveRuns
  <2>3. active # op
    <3>1. o \in 1..(active - 1)
      BY <1>2, <1>14, <2>1 DEF Operation
    <3> QED
      BY <2>1, <2>2, <3>1
  <2> QED
    BY <2>2, <2>3
<1>17. ActiveAnswersLast'
  <2>1. ASSUME NEW k \in 1..Len(events'), NEW x, x = events'[k].op
        PROVE  /\ x \in Operation' /\ operations'[x].task = "done"
               /\ x # active => active # 0 /\ operations'[active].kind = "disconnect"
               /\ k < Len(events') => x # active
    <3>1. CASE k \in 1..Len(events)
      <4>1. /\ x \in Operation /\ ~Running(x) /\ x # active
            /\ active # 0 /\ Kind(active) = "disconnect"
        BY <1>1, <1>9, <1>12, <2>1, <3>1 DEF ActiveAnswersLast
      <4> QED
        BY <1>6, <1>7, <1>11, <4>1 DEF Running, Kind
    <3>2. CASE k = Len(events) + 1
      <4>1. x = op
        BY <1>9, <2>1, <3>2
      <4> QED
        BY <1>1, <1>6, <1>7, <1>9, <1>11, <1>13, <2>1, <3>2, <4>1 DEF Kind, OnlyActiveRuns
    <3> QED
      BY <1>9, <2>1, <3>1, <3>2
  <2>2. active # 0 /\ operations'[active].task = "done" =>
            Len(events') > 0 /\ events'[Len(events')].op = active
    BY <1>6, <1>9, <1>11 DEF Running
  <2> QED
    BY <2>1, <2>2, <1>10 DEF ActiveAnswersLast, Running, Kind
<1>18. PendingIsActive'
  BY <1>1, <1>8, <1>10, <1>11 DEF PendingIsActive, Pending
<1>19. LeaseIsCached'
  BY <1>6, <1>8, <1>10, <1>11, <1>13 DEF LeaseIsCached
<1>20. AnswerIsTrue'
  <2>1. ASSUME NEW k \in 1..Len(events'), events'[k].op = active'
        PROVE  /\ events'[k].answer = "ready" => events'[k].disposition = "Keep"
               /\ events'[k].disposition = "Keep" => events'[k].session = session' /\ session' # 0
               /\ events'[k].disposition = "Evict" /\ conn'.state = "Connected" =>
                    events'[k].session = conn'.at
    <3>1. k = Len(events) + 1
      BY <1>9, <1>10, <1>12, <2>1
    <3> QED
      BY <1>9, <1>10, <2>1, <3>1
  <2> QED
    BY <2>1 DEF AnswerIsTrue
<1>21. CardIsLive'
  <2>1. SUFFICES ASSUME conn.state = "Connected"
                 PROVE  /\ conn.at # 0
                        /\ \/ session' = conn.at
                           \/ /\ active # 0 /\ operations'[active].task = "done"
                              /\ events'[Len(events')].disposition = "Evict"
    BY <1>10 DEF CardIsLive, Running
  <2>2. op = active /\ session = conn.at /\ conn.at # 0
    BY <1>1, <1>11, <1>13, <2>1 DEF CardIsLive
  <2> QED
    BY <1>6, <1>9, <1>11, <2>1, <2>2 DEF Operation
<1> QED
  BY <1>5, <1>6, <1>15, <1>16, <1>17, <1>18, <1>19, <1>20, <1>21 DEF BrowseInv

\* The window submits an operation: nothing else is under way, or a Disconnect displaces it.
LEMMA Submitting ==
    ASSUME NEW R, NEW C, BrowseInv(R, C), NEW kind \in Kinds, NEW request \in R,
           Enqueue(kind, request), active = 0 \/ kind = "disconnect",
           \/ kind \in BrowseKinds /\ conn' = conn
           \/ kind \notin BrowseKinds /\ conn' = Pending(Len(operations) + 1),
           UNCHANGED <<session, sessions, events>>
    PROVE  /\ BrowseInv(R, C)'
           /\ Len(operations') = Len(operations) + 1 /\ active' = Len(operations')
           /\ \A o \in Operation : operations'[o] = operations[o]
           /\ operations'[Len(operations')].kind = kind
           /\ operations'[Len(operations')].request = request
           /\ operations'[Len(operations')].task = "queued"
<1>1. Shaped(R, C) /\ OnlyActiveRuns /\ ActiveAnswersLast /\ PendingIsActive /\ CardIsLive
  BY DEF BrowseInv
<1> DEFINE n == Len(operations) + 1
           new == [kind |-> kind, request |-> request, task |-> "queued", lease |-> 0, cancelled |-> FALSE]
<1>2. /\ Len(operations) \in Nat /\ n \in Nat /\ n # 0 /\ n <= MaxOperations
      /\ Operation = 1..Len(operations) /\ active' = n /\ operations' = Append(operations, new)
  BY <1>1, BrowsingBoundsAssumption DEF Shaped, Operation, Enqueue
<1>3. new \in OperationsOf(R)
  BY BrowsingBoundsAssumption DEF OperationsOf, Tasks
<1>4. /\ operations' \in Seq(OperationsOf(R)) /\ Len(operations') = n
      /\ \A o \in Operation : operations'[o] = operations[o]
      /\ operations'[n] = new
  BY <1>1, <1>2, <1>3 DEF Shaped
<1>5. Operation' = Operation \cup {n} /\ n \notin Operation
  BY <1>2, <1>4 DEF Operation
<1>6. operations'[n].kind = kind /\ operations'[n].task = "queued"
  BY <1>4
<1> HIDE DEF new
<1>7. \A k \in 1..Len(events) : events[k].op \in Operation /\ ~Running(events[k].op)
  BY <1>1 DEF ActiveAnswersLast
<1>8. active = 0 => Len(events) = 0 /\ \A o \in Operation : ~Running(o)
  <2>1. active = 0 => \A k \in 1..Len(events) : FALSE
    BY <1>1, <1>2, <1>7 DEF ActiveAnswersLast
  <2>2. Len(events) \in Nat
    BY <1>1 DEF Shaped
  <2>3. active = 0 => \A o \in Operation : ~Running(o)
    BY <1>1, <1>2 DEF OnlyActiveRuns
  <2> QED
    BY <2>1, <2>2, <2>3
<1>9. Shaped(R, C)'
  BY <1>1, <1>2, <1>4 DEF Shaped, ConnectionStates, Pending
<1>10. OnlyActiveRuns'
  <2>1. \A o \in Operation' : operations'[o].task # "done" /\ o # n => kind = "disconnect"
    BY <1>4, <1>5, <1>8 DEF Running
  <2> QED
    BY <1>2, <1>6, <2>1 DEF OnlyActiveRuns, Running, Kind
<1>11. ActiveAnswersLast'
  <2>1. ASSUME NEW k \in 1..Len(events'), NEW x, x = events'[k].op
        PROVE  x \in Operation' /\ operations'[x].task = "done" /\ x # n /\ kind = "disconnect"
    BY <1>4, <1>5, <1>7, <1>8, <2>1 DEF Running
  <2> QED
    BY <1>2, <1>6, <2>1 DEF ActiveAnswersLast, Running, Kind
<1>12. PendingIsActive'
  BY <1>1, <1>2, <1>6 DEF PendingIsActive, Kind, Pending, BrowseKinds
<1>13. LeaseIsCached'
  BY <1>2, <1>6 DEF LeaseIsCached
<1>14. AnswerIsTrue'
  BY <1>2, <1>5, <1>7 DEF AnswerIsTrue
<1>15. CardIsLive'
  BY <1>1, <1>2 DEF CardIsLive, Pending, BrowseKinds
<1> QED
  BY <1>2, <1>4, <1>9, <1>10, <1>11, <1>12, <1>13, <1>14, <1>15 DEF BrowseInv, new

\* The window takes the next event: one of a displaced operation is not folded into the
\* card, and that of the active operation leaves nothing under way.
LEMMA Taking ==
    ASSUME NEW R, NEW C, BrowseInv(R, C), events # <<>>, events' = Tail(events),
           NEW e, e = Head(events), UNCHANGED <<operations, session, sessions>>,
           active' = Finished(e.op), conn' \in ConnectionStates,
           e.op # active => conn' = conn,
           e.op = active =>
             \/ conn' = Disconnected
             \/ conn' = Connected(e.session) /\ e.disposition = "Keep"
             \/ /\ conn' = conn /\ conn.state # "Pending"
                /\ e.disposition = "Evict" => conn.state # "Connected"
    PROVE  /\ BrowseInv(R, C)'
           /\ e \in AnswersOf(C) /\ e.op \in Operation /\ e.op # 0 /\ ~Running(e.op)
           /\ active # 0
           /\ e.op # active => Kind(active) = "disconnect" /\ active' = active
           /\ e.op = active => active' = 0 /\ Len(events') = 0
<1>1. Shaped(R, C) /\ OnlyActiveRuns /\ ActiveAnswersLast /\ PendingIsActive /\ CardIsLive /\ AnswerIsTrue
  BY DEF BrowseInv
<1>2. /\ Len(events) \in Nat \ {0} /\ e = events[1] /\ e \in AnswersOf(C)
      /\ events' \in Seq(AnswersOf(C)) /\ Len(events') = Len(events) - 1
      /\ \A k \in 1..Len(events') : events'[k] = events[k + 1] /\ k + 1 \in 1..Len(events)
  BY <1>1 DEF Shaped
<1>3. Operation' = Operation /\ Operation = 1..Len(operations) /\ Len(operations) \in Nat
  BY <1>1 DEF Operation, Shaped
<1>4. /\ e.op \in Operation /\ e.op # 0 /\ ~Running(e.op) /\ active # 0
      /\ e.op # active => Kind(active) = "disconnect"
  BY <1>1, <1>2, <1>3 DEF ActiveAnswersLast
<1>5. active \in Operation
  BY <1>1, <1>3, <1>4 DEF Shaped
<1>6. CASE e.op # active
  <2>1. active' = active /\ conn' = conn /\ conn.state = "Pending"
    BY <1>1, <1>4, <1>6 DEF Finished, PendingIsActive, BrowseKinds, Pending
  <2>2. Shaped(R, C)'
    BY <1>1, <1>2, <2>1 DEF Shaped
  <2>3. OnlyActiveRuns' /\ PendingIsActive' /\ LeaseIsCached' /\ CardIsLive'
    BY <1>1, <1>3, <1>4, <1>6, <2>1
       DEF OnlyActiveRuns, PendingIsActive, LeaseIsCached, CardIsLive, Running, Kind, Pending
  <2>4. ActiveAnswersLast'
    <3>1. ASSUME NEW k \in 1..Len(events'), NEW x, x = events'[k].op
          PROVE  /\ x \in Operation /\ ~Running(x)
                 /\ x # active => active # 0 /\ Kind(active) = "disconnect"
                 /\ k < Len(events') => x # active
      <4>1. k \in Nat /\ (k < Len(events') => k + 1 < Len(events))
        BY <1>2, <3>1
      <4> QED
        BY <1>1, <1>2, <3>1, <4>1 DEF ActiveAnswersLast
    <3>2. ~Running(active) => Len(events') > 0 /\ events'[Len(events')].op = active
      <4>1. SUFFICES ASSUME ~Running(active)
                     PROVE  Len(events') > 0 /\ events'[Len(events')].op = active
        OBVIOUS
      <4>2. events[Len(events)].op = active
        BY <1>1, <1>4, <4>1 DEF ActiveAnswersLast
      <4>3. Len(events') > 0
        BY <1>2, <1>6, <4>2
      <4>4. Len(events') \in 1..Len(events') /\ Len(events') + 1 = Len(events)
        BY <1>2, <4>3
      <4> QED
        BY <1>2, <4>2, <4>3, <4>4
    <3> QED
      BY <1>3, <2>1, <3>1, <3>2 DEF ActiveAnswersLast, Running, Kind
  <2>5. AnswerIsTrue'
    BY <1>1, <1>2, <2>1 DEF AnswerIsTrue
  <2> QED
    BY <1>2, <1>4, <1>6, <2>1, <2>2, <2>3, <2>4, <2>5 DEF BrowseInv
<1>7. CASE e.op = active
  <2>1. active' = 0
    BY <1>7 DEF Finished
  <2>2. Len(events) = 1 /\ Len(events') = 0
    BY <1>1, <1>2, <1>7 DEF ActiveAnswersLast
  <2>3. \A o \in Operation : ~Running(o)
    BY <1>1, <1>4, <1>7 DEF OnlyActiveRuns
  <2>4. conn'.state # "Pending"
    BY <1>7 DEF Disconnected, Connected
  <2>5. Shaped(R, C)'
    BY <1>1, <1>2, <2>1 DEF Shaped
  <2>6. OnlyActiveRuns' /\ ActiveAnswersLast' /\ PendingIsActive' /\ LeaseIsCached' /\ AnswerIsTrue'
    <3>1. OnlyActiveRuns'
      BY <1>3, <2>3 DEF OnlyActiveRuns, Running
    <3>2. ActiveAnswersLast' /\ AnswerIsTrue'
      <4>1. \A k \in 1..Len(events') : FALSE
        BY <1>2, <2>2
      <4> QED
        BY <2>1, <4>1 DEF ActiveAnswersLast, AnswerIsTrue
    <3>3. PendingIsActive' /\ LeaseIsCached'
      BY <2>1, <2>4 DEF PendingIsActive, LeaseIsCached
    <3> QED
      BY <3>1, <3>2, <3>3
  <2>7. CardIsLive'
    <3>1. SUFFICES ASSUME conn'.state = "Connected" PROVE conn'.at # 0 /\ session = conn'.at
      BY DEF CardIsLive
    <3>2. CASE conn' = Connected(e.session) /\ e.disposition = "Keep"
      BY <1>1, <1>2, <1>7, <3>2 DEF AnswerIsTrue, Connected
    <3>3. CASE conn' = conn /\ e.disposition # "Evict"
      BY <1>1, <1>2, <2>2, <3>1, <3>3 DEF CardIsLive
    <3> QED
      BY <1>7, <3>1, <3>2, <3>3 DEF Disconnected
  <2> QED
    BY <1>2, <1>4, <1>7, <2>1, <2>2, <2>5, <2>6, <2>7 DEF BrowseInv
<1> QED
  BY <1>6, <1>7

-----------------------------------------------------------------------------
(* The steps of the tasks.                                                 *)

\* What a task's step leaves to the explorer: the window's state and every request;
\* what is done stays so.
TaskFrame ==
    /\ UNCHANGED <<active, conn, recipes, failed, cycle, adopted>>
    /\ Len(operations') = Len(operations)
    /\ \A o \in Operation : /\ operations'[o].kind = operations[o].kind
                            /\ operations'[o].request = operations[o].request
                            /\ operations[o].task = "done" => operations'[o].task = "done"

\* A step of op sends no event and finishes nothing, or sends the one event of op, which
\* was running until then: a loaded one brings one of the contents.
Sends(op, contents) ==
    \/ events' = events /\ \A o \in Operation : operations'[o].task = "done" => operations[o].task = "done"
    \/ /\ Running(op) /\ \A o \in Operation \ {op} : operations'[o].task = "done" => operations[o].task = "done"
       /\ \E e : events' = Append(events, e) /\ e.op = op /\ (e.answer = "loaded" => e.content \in contents)

\* Whoever runs, the active operation does; what the card says then holds of it.
LEMMA ActiveRuns ==
    ASSUME NEW R, NEW C, BrowseInv(R, C), NEW op \in Operation, Running(op)
    PROVE  /\ op \in 1..Len(operations) /\ Len(operations) \in Nat
           /\ operations[op] \in OperationsOf(R)
           /\ active \in Operation /\ Running(active)
           /\ conn.state = "Connected" => session = conn.at /\ session # 0 /\ Kind(active) \in BrowseKinds
           /\ op = active /\ operations[op].task = "leased" => operations[op].lease = session /\ session # 0
<1>1. Shaped(R, C) /\ OnlyActiveRuns /\ PendingIsActive /\ LeaseIsCached /\ CardIsLive
  BY DEF BrowseInv
<1>2. op \in 1..Len(operations) /\ Len(operations) \in Nat /\ operations[op] \in OperationsOf(R)
  BY <1>1 DEF Shaped, Operation
<1>3. active \in Operation /\ Running(active)
  BY <1>1 DEF OnlyActiveRuns, Shaped, Operation
<1>4. active # 0
  BY <1>3 DEF Operation
<1>5. conn.state = "Connected" => session = conn.at /\ session # 0
  BY <1>1, <1>3 DEF CardIsLive
<1>6. conn.state = "Connected" => Kind(active) \in BrowseKinds
  BY <1>1, <1>4 DEF PendingIsActive, Pending
<1>7. op = active /\ operations[op].task = "leased" => operations[op].lease = session /\ session # 0
  BY <1>1, <1>2, <1>4 DEF LeaseIsCached, OperationsOf, Kind
<1> QED
  BY <1>2, <1>3, <1>5, <1>6, <1>7

\* A step that changes only op's record, and does not finish it, changes nothing the
\* explorer sees.
LEMMA GoesOn ==
    ASSUME NEW R, NEW C, BrowseInv(R, C), NEW op \in Operation, Running(op),
           NEW r \in OperationsOf(R), operations' = [operations EXCEPT ![op] = r],
           r.kind = operations[op].kind, r.request = operations[op].request, r.task # "done",
           UNCHANGED <<active, conn, recipes, failed, events, cycle, adopted>>,
           session' \in 0..MaxSessions, sessions' \in 0..MaxSessions,
           op = active => /\ r.task = "leased" => r.lease = session' /\ session' # 0
                          /\ conn.state = "Connected" => session' = session
    PROVE  BrowseInv(R, C)' /\ TaskFrame /\ \A S : Sends(op, S)
<1>1. op \in 1..Len(operations) /\ operations \in Seq(OperationsOf(R))
  BY ActiveRuns DEF BrowseInv, Shaped
<1>2. operations' \in Seq(OperationsOf(R)) /\ Len(operations') = Len(operations)
  BY <1>1
<1>3. \A o \in Operation : operations'[o] = IF o = op THEN r ELSE operations[o]
  BY <1>1 DEF Operation
<1>4. \A o \in Operation : /\ operations'[o].kind = operations[o].kind
                           /\ operations'[o].request = operations[o].request
                           /\ operations'[o].task = "done" <=> operations[o].task = "done"
  BY <1>3 DEF Running
<1>5. BrowseInv(R, C)'
  <2>1. NoneFinishes
    BY <1>2, <1>4 DEF NoneFinishes
  <2> QED
    BY <1>2, <1>3, <2>1, Going
<1> QED
  BY <1>2, <1>4, <1>5 DEF TaskFrame, Sends

\* An operation answers, and that is all the explorer sees.
LEMMA Replies ==
    ASSUME NEW R, NEW C, BrowseInv(R, C), NEW op \in Operation, Running(op), NEW S,
           NEW answer \in {"failed", "loaded", "ready", "closed"}, NEW s \in 0..MaxSessions,
           NEW disposition \in {"none", "Keep", "Evict"}, NEW outcome \in Outcomes, NEW content \in C,
           Answered(op, Event(op, answer, s, disposition, outcome, content)),
           answer = "loaded" => content \in S, answer = "ready" => disposition = "Keep",
           session' \in 0..MaxSessions, sessions' \in 0..MaxSessions,
           Kind(op) = "disconnect" => \A o \in 1..(op - 1) : ~Running(o),
           op = active =>
             /\ disposition = "Keep" => s = session' /\ session' # 0
             /\ disposition = "Evict" /\ conn.state = "Connected" => s = conn.at
             /\ disposition # "Evict" /\ conn.state = "Connected" => session' = session
    PROVE  BrowseInv(R, C)' /\ TaskFrame /\ Sends(op, S)
<1> DEFINE e == Event(op, answer, s, disposition, outcome, content)
<1>1. op \in Nat
  BY ActiveRuns
<1>2. /\ e \in AnswersOf(C) /\ e.op = op /\ e.answer = answer /\ e.session = s
      /\ e.disposition = disposition /\ e.content = content
  BY <1>1 DEF AnswersOf, Event
<1>3. Answered(op, e)
  OBVIOUS
<1> HIDE DEF e
<1>4. BrowseInv(R, C)' /\ TaskFrame
  BY ZenonT(60), <1>2, <1>3, Answering DEF TaskFrame, Answered
<1> QED
  BY <1>2, <1>3, <1>4 DEF Sends, Answered

\* StartNetwork refuses, or starts a task.
LEMMA NetworkStarts ==
    ASSUME NEW R, NEW C, NoContent \in C, BrowseInv(R, C), NEW op \in Operation, NEW S, StartNetwork(op)
    PROVE  BrowseInv(R, C)' /\ TaskFrame /\ Sends(op, S)
<1>1. Running(op) /\ Kind(op) # "disconnect" /\ session' = session /\ sessions' = sessions
  BY DEF StartNetwork, Running, Controls
<1>2. op \in 1..Len(operations) /\ Len(operations) \in Nat /\ operations[op] \in OperationsOf(R)
  BY <1>1, ActiveRuns
<1>3. session' \in 0..MaxSessions /\ sessions' \in 0..MaxSessions
  BY <1>1 DEF BrowseInv, Shaped
<1>4. CASE Answered(op, Event(op, "failed", 0, "none", "Preserve", NoContent))
  BY <1>1, <1>3, <1>4, BrowsingBoundsAssumption, Replies DEF Outcomes
<1>5. CASE /\ operations' = [operations EXCEPT ![op].task = "acquiring"]
           /\ UNCHANGED <<active, conn, recipes, failed, events, cycle, adopted>>
  <2> DEFINE r == [operations[op] EXCEPT !.task = "acquiring"]
  <2>1. r \in OperationsOf(R)
    BY <1>1, <1>2 DEF OperationsOf, Tasks, Kind
  <2>2. r.kind = operations[op].kind /\ r.request = operations[op].request /\ r.task = "acquiring"
    BY <1>2 DEF OperationsOf
  <2>3. operations' = [operations EXCEPT ![op] = r]
    BY <1>5
  <2> HIDE DEF r
  <2> QED
    BY <1>1, <1>3, <1>5, <2>1, <2>2, <2>3, GoesOn
<1> QED
  BY <1>4, <1>5 DEF StartNetwork

\* AcquireSession fails, or leases the cached session or a new one.
LEMMA Acquires ==
    ASSUME NEW R, NEW C, NoContent \in C, BrowseInv(R, C), NEW op \in Operation, NEW S, AcquireSession(op)
    PROVE  BrowseInv(R, C)' /\ TaskFrame /\ Sends(op, S)
<1>1. Running(op) /\ operations[op].task = "acquiring"
  BY DEF AcquireSession, Running
<1>2. /\ op \in 1..Len(operations) /\ Len(operations) \in Nat /\ operations[op] \in OperationsOf(R)
      /\ conn.state = "Connected" => session = conn.at /\ session # 0
  BY <1>1, ActiveRuns
<1>3. Kind(op) # "disconnect"
  BY <1>1, <1>2 DEF OperationsOf, Kind
<1>4. session \in 0..MaxSessions /\ sessions \in 0..MaxSessions
  BY DEF BrowseInv, Shaped
<1>5. ASSUME NEW outcome \in Outcomes,
             Answered(op, Event(op, "failed", 0, "none", outcome, NoContent)),
             UNCHANGED <<session, sessions>>
      PROVE  BrowseInv(R, C)' /\ TaskFrame /\ Sends(op, S)
  BY <1>1, <1>3, <1>4, <1>5, BrowsingBoundsAssumption, Replies
<1>6. CASE /\ session = 0 => sessions < MaxSessions
           /\ sessions' = IF session = 0 THEN sessions + 1 ELSE sessions
           /\ session' = IF session = 0 THEN sessions + 1 ELSE session
           /\ operations' = [operations EXCEPT ![op].task = "leased", ![op].lease = session']
           /\ UNCHANGED <<active, conn, recipes, failed, events, cycle, adopted>>
  <2> DEFINE r == [operations[op] EXCEPT !.task = "leased", !.lease = session']
  <2>1. session' \in 0..MaxSessions /\ sessions' \in 0..MaxSessions /\ session' # 0
    BY <1>4, <1>6, BrowsingBoundsAssumption
  <2>2. r \in OperationsOf(R)
    BY <1>2, <1>3, <2>1 DEF OperationsOf, Tasks, Kind
  <2>3. /\ r.kind = operations[op].kind /\ r.request = operations[op].request
        /\ r.task = "leased" /\ r.lease = session'
    BY <1>2 DEF OperationsOf
  <2>4. operations' = [operations EXCEPT ![op] = r]
    BY <1>2, <1>6 DEF BrowseInv, Shaped
  <2> HIDE DEF r
  <2>5. conn.state = "Connected" => session' = session
    BY <1>2, <1>6
  <2> QED
    BY <1>1, <1>6, <2>1, <2>2, <2>3, <2>4, <2>5, GoesOn
<1> QED
  BY <1>5, <1>6 DEF AcquireSession

\* A browse answers with its content and keeps the session, or evicts it.
LEMMA BrowseFinishes ==
    ASSUME NEW R, NEW C, NoContent \in C, BrowseInv(R, C), NEW op \in Operation, NEW S,
           NEW c \in C, c \in S, FinishBrowse(op, c)
    PROVE  BrowseInv(R, C)' /\ TaskFrame /\ Sends(op, S)
<1>1. Running(op) /\ operations[op].task = "leased" /\ Kind(op) # "disconnect"
  BY DEF FinishBrowse, Running, BrowseKinds
<1> DEFINE s == operations[op].lease
<1>2. /\ operations[op] \in OperationsOf(R)
      /\ conn.state = "Connected" => session = conn.at /\ session # 0
      /\ op = active => s = session /\ session # 0
  BY <1>1, ActiveRuns
<1>3. s \in 0..MaxSessions
  BY <1>2 DEF OperationsOf
<1>4. session \in 0..MaxSessions /\ sessions' \in 0..MaxSessions
  BY DEF BrowseInv, Shaped, FinishBrowse
<1>5. \/ session' = session /\ session = s /\ Answered(op, Event(op, "loaded", s, "Keep", "Preserve", c))
      \/ session' = session /\ session = s /\ Answered(op, Event(op, "failed", s, "Keep", "Preserve", NoContent))
      \/ Evict(s) /\ Answered(op, Event(op, "failed", s, "Evict", "Disconnected", NoContent))
  BY DEF FinishBrowse
<1> HIDE DEF s
<1>6. session' \in 0..MaxSessions
  BY <1>4, <1>5, BrowsingBoundsAssumption DEF Evict
<1>7. CASE session' = session /\ session = s /\ Answered(op, Event(op, "loaded", s, "Keep", "Preserve", c))
  BY <1>1, <1>2, <1>3, <1>4, <1>6, <1>7, Replies DEF Outcomes
<1>8. CASE session' = session /\ session = s /\ Answered(op, Event(op, "failed", s, "Keep", "Preserve", NoContent))
  BY <1>1, <1>2, <1>3, <1>4, <1>6, <1>8, Replies DEF Outcomes
<1>9. CASE Evict(s) /\ Answered(op, Event(op, "failed", s, "Evict", "Disconnected", NoContent))
  BY <1>1, <1>2, <1>3, <1>4, <1>6, <1>9, Replies DEF Outcomes
<1> QED
  BY <1>5, <1>7, <1>8, <1>9

\* A connection attempt is ready, or its session is evicted.
LEMMA ConnectFinishes ==
    ASSUME NEW R, NEW C, NoContent \in C, BrowseInv(R, C), NEW op \in Operation, NEW S, FinishConnect(op)
    PROVE  BrowseInv(R, C)' /\ TaskFrame /\ Sends(op, S)
<1>1. Running(op) /\ operations[op].task = "leased" /\ Kind(op) # "disconnect"
  BY DEF FinishConnect, Running
<1> DEFINE s == operations[op].lease
<1>2. /\ operations[op] \in OperationsOf(R)
      /\ conn.state = "Connected" => session = conn.at /\ session # 0
      /\ op = active => s = session /\ session # 0
  BY <1>1, ActiveRuns
<1>3. s \in 0..MaxSessions
  BY <1>2 DEF OperationsOf
<1>4. session \in 0..MaxSessions /\ sessions' \in 0..MaxSessions
  BY DEF BrowseInv, Shaped, FinishConnect
<1>5. \/ session' = session /\ session = s /\ Answered(op, Event(op, "ready", s, "Keep", "Preserve", NoContent))
      \/ Evict(s) /\ \E outcome \in Outcomes : Answered(op, Event(op, "failed", s, "Evict", outcome, NoContent))
  BY DEF FinishConnect
<1> HIDE DEF s
<1>6. session' \in 0..MaxSessions
  BY <1>4, <1>5, BrowsingBoundsAssumption DEF Evict
<1>7. CASE session' = session /\ session = s /\ Answered(op, Event(op, "ready", s, "Keep", "Preserve", NoContent))
  BY <1>1, <1>2, <1>3, <1>4, <1>6, <1>7, Replies DEF Outcomes
<1>8. ASSUME NEW outcome \in Outcomes, Evict(s), Answered(op, Event(op, "failed", s, "Evict", outcome, NoContent))
      PROVE  BrowseInv(R, C)' /\ TaskFrame /\ Sends(op, S)
  BY <1>1, <1>2, <1>3, <1>4, <1>6, <1>8, Replies
<1> QED
  BY <1>5, <1>7, <1>8

\* A control reads the session to evict and cancels the network tasks; a Reconnect may be refused.
LEMMA ControlStarts ==
    ASSUME NEW R, NEW C, NoContent \in C, BrowseInv(R, C), NEW op \in Operation, NEW S, StartControl(op)
    PROVE  BrowseInv(R, C)' /\ TaskFrame /\ Sends(op, S)
<1>1. Running(op) /\ session' = session /\ sessions' = sessions
  BY DEF StartControl, Running
<1>2. session \in 0..MaxSessions /\ sessions \in 0..MaxSessions /\ operations \in Seq(OperationsOf(R))
  BY DEF BrowseInv, Shaped
<1>3. CASE /\ Kind(op) = "reconnect"
           /\ Answered(op, Event(op, "failed", 0, "none", "Preserve", NoContent))
  BY <1>1, <1>2, <1>3, BrowsingBoundsAssumption, Replies DEF Outcomes
<1>4. CASE /\ operations' = [o \in Operation |->
                IF o = op THEN [operations[o] EXCEPT !.task = "waiting", !.lease = session]
                ELSE [operations[o] EXCEPT !.cancelled = @ \/ o \in Started]]
           /\ UNCHANGED <<active, conn, recipes, failed, events, cycle, adopted>>
  <2>1. Operation = 1..Len(operations) /\ Len(operations) \in Nat
    BY <1>2 DEF Operation
  <2>2. ASSUME NEW o \in Operation
        PROVE  /\ operations'[o] \in OperationsOf(R)
               /\ operations'[o].kind = operations[o].kind
               /\ operations'[o].request = operations[o].request
               /\ operations'[o].task = IF o = op THEN "waiting" ELSE operations[o].task
    <3>1. operations[o] \in OperationsOf(R)
      BY <1>2, <2>1, <2>2
    <3>2. CASE o = op
      <4>1. operations'[o] = [operations[o] EXCEPT !.task = "waiting", !.lease = session]
        BY <1>4, <2>2, <3>2
      <4> QED
        BY <1>2, <3>1, <3>2, <4>1 DEF OperationsOf, Tasks
    <3>3. CASE o # op
      <4>1. operations'[o] = [operations[o] EXCEPT !.cancelled = operations[o].cancelled \/ o \in Started]
        BY <1>4, <2>2, <3>3
      <4> DEFINE f == operations[o].cancelled \/ o \in Started
      <4>2. f \in BOOLEAN
        OBVIOUS
      <4> HIDE DEF f
      <4>3. operations'[o] = [operations[o] EXCEPT !.cancelled = f]
        BY <4>1 DEF f
      <4> QED
        BY <3>1, <3>3, <4>2, <4>3 DEF OperationsOf
    <3> QED
      BY <3>2, <3>3
  <2>3. operations' \in [Operation -> OperationsOf(R)]
    <3>1. DOMAIN operations' = Operation /\ operations' = [o \in DOMAIN operations' |-> operations'[o]]
      BY <1>4
    <3> QED
      BY <2>2, <3>1
  <2>4. operations' \in Seq(OperationsOf(R)) /\ Len(operations') = Len(operations)
    BY <2>1, <2>3
  <2>5. NoneFinishes /\ operations'[op].task = "waiting"
    BY <1>1, <2>2, <2>4 DEF Running, NoneFinishes
  <2>6. BrowseInv(R, C)'
    <3>1. session' \in 0..MaxSessions /\ sessions' \in 0..MaxSessions
      BY <1>1, <1>2
    <3>2. op = active => /\ operations'[op].task = "leased" /\ Kind(op) # "disconnect" =>
                              operations'[op].lease = session' /\ session' # 0
                         /\ conn.state = "Connected" => session' = session
      BY <1>1, <2>5
    <3>3. UNCHANGED <<events, active, conn>>
      BY <1>4
    <3> QED
      BY <1>1, <2>4, <2>5, <3>1, <3>2, <3>3, Going
  <2> QED
    BY <1>4, <2>2, <2>4, <2>5, <2>6 DEF TaskFrame, Sends, NoneFinishes
<1> QED
  BY <1>3, <1>4 DEF StartControl

\* A control whose targets are done evicts the session it read, or gives up.
LEMMA Closes ==
    ASSUME NEW R, NEW C, NoContent \in C, BrowseInv(R, C), NEW op \in Operation, NEW S, CloseSession(op)
    PROVE  BrowseInv(R, C)' /\ TaskFrame /\ Sends(op, S)
<1>1. /\ Running(op) /\ operations[op].task = "waiting" /\ sessions' = sessions
      /\ \A o \in 1..(op - 1) : ~Running(o)
  BY DEF CloseSession, Running
<1>2. /\ op \in 1..Len(operations) /\ Len(operations) \in Nat /\ operations[op] \in OperationsOf(R)
      /\ conn.state = "Connected" => Kind(active) \in BrowseKinds
  BY <1>1, ActiveRuns
<1>3. session \in 0..MaxSessions /\ sessions \in 0..MaxSessions
  BY DEF BrowseInv, Shaped
<1>4. session' \in 0..MaxSessions /\ sessions' \in 0..MaxSessions
  BY <1>1, <1>3, BrowsingBoundsAssumption DEF CloseSession, Evict
<1>5. CASE /\ session' = session
           /\ Answered(op, Event(op, "failed", 0, "none", "Disconnected", NoContent))
  BY <1>1, <1>2, <1>3, <1>4, <1>5, BrowsingBoundsAssumption, Replies DEF Outcomes
<1>6. CASE /\ Kind(op) = "disconnect"
           /\ Answered(op, Event(op, "closed", 0, "none", "Disconnected", NoContent))
  <2>1. op = active => conn.state # "Connected"
    BY <1>2, <1>6 DEF BrowseKinds
  <2> QED
    BY <1>1, <1>2, <1>3, <1>4, <1>6, <2>1, BrowsingBoundsAssumption, Replies DEF Outcomes
<1>7. CASE /\ Kind(op) = "reconnect"
           /\ operations' = [operations EXCEPT ![op].task = "acquiring"]
           /\ UNCHANGED <<active, conn, recipes, failed, events, cycle, adopted>>
  <2> DEFINE r == [operations[op] EXCEPT !.task = "acquiring"]
  <2>1. r \in OperationsOf(R)
    BY <1>2, <1>7 DEF OperationsOf, Tasks, Kind
  <2>2. r.kind = operations[op].kind /\ r.request = operations[op].request /\ r.task = "acquiring"
    BY <1>2 DEF OperationsOf
  <2>3. operations' = [operations EXCEPT ![op] = r]
    BY <1>7
  <2> HIDE DEF r
  <2>4. op = active => conn.state # "Connected"
    BY <1>2, <1>7 DEF BrowseKinds
  <2> QED
    BY <1>1, <1>3, <1>4, <1>7, <2>1, <2>2, <2>3, <2>4, GoesOn
<1> QED
  BY <1>5, <1>6, <1>7 DEF CloseSession

\* Every step of a task that brings no content.
LEMMA TaskSteps ==
    ASSUME NEW R, NEW C, NoContent \in C, BrowseInv(R, C), NEW op \in Operation, NEW S, TaskStep(op)
    PROVE  BrowseInv(R, C)' /\ TaskFrame /\ Sends(op, S)
BY NetworkStarts, Acquires, ConnectFinishes, ControlStarts, Closes DEF TaskStep

\* The cancellation of the active browse.
LEMMA BrowseCancels ==
    ASSUME NEW R, NEW C, BrowseInv(R, C), NEW op \in Operation, NEW S, CancelBrowse(op)
    PROVE  BrowseInv(R, C)' /\ TaskFrame /\ Sends(op, S)
<1>1. Running(op) /\ op = active
  BY DEF CancelBrowse
<1>2. /\ operations[op] \in OperationsOf(R)
      /\ operations[op].task = "leased" => operations[op].lease = session /\ session # 0
  BY <1>1, ActiveRuns
<1> DEFINE r == [operations[op] EXCEPT !.cancelled = TRUE]
<1>3. r \in OperationsOf(R)
  BY <1>2 DEF OperationsOf
<1>4. /\ r.kind = operations[op].kind /\ r.request = operations[op].request
      /\ r.task = operations[op].task /\ r.lease = operations[op].lease
  BY <1>2 DEF OperationsOf
<1>5. /\ operations' = [operations EXCEPT ![op] = r]
      /\ UNCHANGED <<active, conn, recipes, failed, events, cycle, adopted, session, sessions>>
  BY DEF CancelBrowse
<1>6. session' \in 0..MaxSessions /\ sessions' \in 0..MaxSessions
  BY <1>5 DEF BrowseInv, Shaped
<1> HIDE DEF r
<1> QED
  BY <1>1, <1>2, <1>3, <1>4, <1>5, <1>6, GoesOn DEF Running

-----------------------------------------------------------------------------
(* The steps of the window.                                                *)

\* What the window keeps of its requests: recipes and shown failures are of operations
\* that were submitted, each failure of its kind.
Recorded ==
    /\ recipes \subseteq Operation
    /\ failed \in [BrowseKinds -> Nat]
    /\ \A k \in BrowseKinds : failed[k] # 0 => failed[k] \in Operation /\ Kind(failed[k]) = k
    /\ cycle \in Nat /\ adopted \in BOOLEAN

\* The invariant gives the shared part of the type invariant.
LEMMA BrowsingTyped ==
    ASSUME NEW R, NEW C, BrowseInv(R, C), Recorded
    PROVE  BrowsingTypeOK
<1>1. Shaped(R, C)
  BY DEF BrowseInv
<1>2. Len(operations) \in Nat /\ Operation = 1..Len(operations) /\ Len(operations) <= MaxOperations
  BY <1>1 DEF Shaped, Operation
<1>3. \A op \in Operation : operations[op] \in OperationsOf(R)
  BY <1>1, <1>2 DEF Shaped
<1>4. \A op \in Operation :
        /\ Kind(op) \in BrowseKinds \cup Controls \cup {"connect"}
        /\ operations[op].task \in Tasks
        /\ operations[op].lease \in 0..MaxSessions /\ operations[op].cancelled \in BOOLEAN
  BY <1>3 DEF OperationsOf, Kind, Kinds
<1>5. \A k \in BrowseKinds : failed[k] \in 0..MaxOperations
  <2>1. SUFFICES ASSUME NEW k \in BrowseKinds PROVE failed[k] \in 0..MaxOperations
    OBVIOUS
  <2>2. failed[k] \in Nat /\ (failed[k] # 0 => failed[k] \in 1..Len(operations))
    BY <1>2 DEF Recorded
  <2> QED
    BY <1>2, <2>2, BrowsingBoundsAssumption
<1>6. failed \in [BrowseKinds -> 0..MaxOperations]
  BY <1>5 DEF Recorded
<1>7. active \in 0..MaxOperations
  BY <1>1, <1>2, BrowsingBoundsAssumption DEF Shaped
<1> QED
  BY <1>1, <1>2, <1>4, <1>6, <1>7 DEF BrowsingTypeOK, Recorded, Shaped, ConnectionStates

LEMMA RecordStarts ==
    ASSUME BrowsingInit
    PROVE  Recorded
BY DEF BrowsingInit, Recorded, Operation

\* A task's step touches none of it.
LEMMA RecordStays ==
    ASSUME Recorded, TaskFrame
    PROVE  Recorded'
<1>1. Operation' = Operation
  BY DEF TaskFrame, Operation
<1>2. \A k \in BrowseKinds : failed[k] # 0 => operations'[failed[k]].kind = k
  BY DEF Recorded, TaskFrame, Kind
<1> QED
  BY <1>1, <1>2 DEF Recorded, TaskFrame, Kind

\* RetryRecipeRegistry keeps recipes it was given.
LEMMA Registered ==
    ASSUME NEW known, NEW op
    PROVE  Register(known, op) \subseteq known \cup {op}
BY DEF Register

\* What a submission leaves to the explorer: the new operation, and nothing else.
Submitted(kind, request) ==
    /\ Len(operations') = Len(operations) + 1 /\ active' = Len(operations')
    /\ \A o \in Operation : operations'[o] = operations[o]
    /\ operations'[Len(operations')].kind = kind
    /\ operations'[Len(operations')].request = request
    /\ operations'[Len(operations')].task = "queued"
    /\ UNCHANGED <<events, failed, cycle, adopted>>

LEMMA SubmitRecords ==
    ASSUME NEW R, NEW C, BrowseInv(R, C), Recorded, NEW kind, NEW request, Submitted(kind, request),
           recipes' \subseteq recipes \cup {Len(operations) + 1}
    PROVE  Recorded'
<1>1. Len(operations) \in Nat /\ Operation' = Operation \cup {Len(operations) + 1}
  BY DEF BrowseInv, Shaped, Submitted, Operation
<1>2. \A k \in BrowseKinds : failed[k] # 0 => failed[k] \in Operation' /\ operations'[failed[k]].kind = k
  BY <1>1 DEF Recorded, Submitted, Kind
<1> QED
  BY <1>1, <1>2 DEF Recorded, Submitted, Kind

LEMMA BrowseSubmits ==
    ASSUME NEW R, NEW C, BrowseInv(R, C), Recorded, NEW kind \in BrowseKinds, NEW request \in R,
           NEW known \in SUBSET recipes, SubmitBrowse(kind, request, known)
    PROVE  BrowseInv(R, C)' /\ Recorded' /\ Submitted(kind, request) /\ active = 0 /\ conn' = conn
<1>1. /\ kind \in Kinds /\ active = 0 /\ Enqueue(kind, request) /\ conn' = conn
      /\ UNCHANGED <<session, sessions, events, failed, cycle, adopted>>
  BY DEF SubmitBrowse, Kinds
<1>2. BrowseInv(R, C)' /\ Submitted(kind, request)
  BY <1>1, Submitting DEF Submitted
<1>3. recipes' \subseteq recipes \cup {Len(operations) + 1}
  BY Registered DEF SubmitBrowse
<1> QED
  BY <1>1, <1>2, <1>3, SubmitRecords

LEMMA ConnectSubmits ==
    ASSUME NEW R, NEW C, BrowseInv(R, C), Recorded, NEW kind, NoContent \in R, SubmitConnect(kind)
    PROVE  BrowseInv(R, C)' /\ Recorded' /\ Submitted(kind, NoContent) /\ active = 0
<1>1. /\ kind \in Kinds /\ kind \notin BrowseKinds /\ active = 0 /\ Enqueue(kind, NoContent)
      /\ conn' = Pending(Len(operations) + 1)
      /\ UNCHANGED <<session, sessions, events, failed, cycle, adopted>>
  BY DEF SubmitConnect, Kinds, Controls, BrowseKinds
<1>2. BrowseInv(R, C)' /\ Submitted(kind, NoContent)
  BY <1>1, Submitting DEF Submitted
<1>3. recipes' \subseteq recipes \cup {Len(operations) + 1}
  BY Registered DEF SubmitConnect
<1> QED
  BY <1>1, <1>2, <1>3, SubmitRecords

LEMMA DisconnectSubmits ==
    ASSUME NEW R, NEW C, BrowseInv(R, C), Recorded, NoContent \in R, SubmitDisconnect
    PROVE  BrowseInv(R, C)' /\ Recorded' /\ Submitted("disconnect", NoContent)
<1>1. /\ "disconnect" \in Kinds /\ "disconnect" \notin BrowseKinds /\ Enqueue("disconnect", NoContent)
      /\ conn' = Pending(Len(operations) + 1) /\ recipes' = recipes
      /\ UNCHANGED <<session, sessions, events, failed, cycle, adopted>>
  BY DEF SubmitDisconnect, Kinds, Controls, BrowseKinds
<1>2. BrowseInv(R, C)' /\ Submitted("disconnect", NoContent)
  BY <1>1, Submitting DEF Submitted
<1> QED
  BY <1>1, <1>2, SubmitRecords

\* The event of a connection work: the card takes the answer of the operation it waits for.
LEMMA ConnectionFolds ==
    ASSUME NEW R, NEW C, BrowseInv(R, C), events # <<>>, NEW e, e = Head(events),
           Kind(e.op) \notin BrowseKinds, conn' = FoldConnection(e)
    PROVE  /\ conn' \in ConnectionStates
           /\ e.op # active => conn' = conn
           /\ e.op = active => \/ conn' = Disconnected
                               \/ conn' = Connected(e.session) /\ e.disposition = "Keep"
<1>1. Shaped(R, C) /\ ActiveAnswersLast /\ PendingIsActive /\ AnswerIsTrue
  BY DEF BrowseInv
<1>2. Len(events) \in Nat \ {0} /\ e = events[1] /\ e \in AnswersOf(C) /\ 1 \in 1..Len(events)
  BY <1>1 DEF Shaped
<1>3. e.op \in Operation /\ e.op # 0
  BY <1>1, <1>2 DEF ActiveAnswersLast, Operation
<1>4. e.op # active => conn # Pending(e.op)
  BY <1>1 DEF PendingIsActive, Pending
<1>5. e.op = active => conn = Pending(e.op)
  BY <1>1, <1>3 DEF PendingIsActive
<1>6. e.op = active /\ e.answer = "ready" => e.disposition = "Keep"
  BY <1>1, <1>2 DEF AnswerIsTrue
<1>7. conn \in ConnectionStates /\ Connected(e.session) \in ConnectionStates /\ Disconnected \in ConnectionStates
  BY <1>1, <1>2 DEF Shaped, ConnectionStates, Connected, Disconnected, AnswersOf
<1> QED
  BY <1>4, <1>5, <1>6, <1>7 DEF FoldConnection

\* The invariant is about the operations, the card, the session and the events only.
LEMMA BrowseStays ==
    ASSUME NEW R, NEW C, BrowseInv(R, C), UNCHANGED <<operations, active, conn, session, sessions, events>>
    PROVE  BrowseInv(R, C)'
<1>1. Operation' = Operation
  BY DEF Operation
<1>2. Shaped(R, C)' /\ OnlyActiveRuns' /\ ActiveAnswersLast'
  BY <1>1 DEF BrowseInv, Shaped, OnlyActiveRuns, ActiveAnswersLast, Running, Kind
<1>3. PendingIsActive' /\ LeaseIsCached' /\ AnswerIsTrue' /\ CardIsLive'
  BY DEF BrowseInv, PendingIsActive, LeaseIsCached, AnswerIsTrue, CardIsLive, Running, Kind, Pending
<1> QED
  BY <1>2, <1>3 DEF BrowseInv

\* Taking an event may drop a recipe, and shows or clears the failure of its kind.
LEMMA RecordTakes ==
    ASSUME Recorded, NEW op \in Operation, op \in Nat, UNCHANGED operations, recipes' \subseteq recipes,
           NEW v \in {0, op}, NEW k \in BrowseKinds, Kind(op) = k,
           failed' = failed \/ failed' = [failed EXCEPT ![k] = v],
           cycle' \in Nat, adopted' \in BOOLEAN
    PROVE  Recorded'
<1>1. Operation' = Operation
  BY DEF Operation
<1>2. failed' \in [BrowseKinds -> Nat] /\ \A j \in BrowseKinds : failed'[j] = failed[j] \/ (j = k /\ failed'[j] = v)
  BY DEF Recorded
<1> QED
  BY <1>1, <1>2 DEF Recorded, Kind

\* What the invariant says of the next event.
LEMMA NextEvent ==
    ASSUME NEW R, NEW C, BrowseInv(R, C), events # <<>>, NEW e, e = Head(events)
    PROVE  /\ Len(events) \in Nat \ {0} /\ e = events[1] /\ e \in AnswersOf(C)
           /\ e.op \in Operation /\ e.op \in Nat \ {0} /\ ~Running(e.op)
           /\ e.op # active => active # 0 /\ Kind(active) = "disconnect"
           /\ e.op = active /\ Kind(e.op) \in BrowseKinds => conn.state # "Pending"
           /\ e.op = active /\ e.disposition = "Evict" /\ conn.state = "Connected" => e.session = conn.at
           /\ conn \in ConnectionStates /\ Connected(e.session) \in ConnectionStates
           /\ Disconnected \in ConnectionStates
           /\ events' = Tail(events) =>
                \A k \in 1..Len(events') : events'[k] = events[k + 1] /\ k + 1 \in 1..Len(events)
<1>1. Shaped(R, C) /\ ActiveAnswersLast /\ PendingIsActive /\ AnswerIsTrue
  BY DEF BrowseInv
<1>2. Len(events) \in Nat \ {0} /\ e = events[1] /\ e \in AnswersOf(C) /\ 1 \in 1..Len(events)
  BY <1>1 DEF Shaped
<1>3. /\ e.op \in Operation /\ e.op \in Nat \ {0} /\ ~Running(e.op)
      /\ e.op # active => active # 0 /\ Kind(active) = "disconnect"
  BY <1>1, <1>2 DEF ActiveAnswersLast, Operation
<1>4. e.op = active /\ Kind(e.op) \in BrowseKinds => conn.state # "Pending"
  BY <1>1 DEF PendingIsActive
<1>5. e.op = active /\ e.disposition = "Evict" /\ conn.state = "Connected" => e.session = conn.at
  BY <1>1, <1>2 DEF AnswerIsTrue
<1>6. /\ conn \in ConnectionStates /\ Connected(e.session) \in ConnectionStates
      /\ Disconnected \in ConnectionStates
  BY <1>1, <1>2 DEF Shaped, ConnectionStates, Connected, Disconnected, AnswersOf
<1>7. events' = Tail(events) =>
        \A k \in 1..Len(events') : events'[k] = events[k + 1] /\ k + 1 \in 1..Len(events)
  BY <1>1, <1>2 DEF Shaped
<1> QED
  BY <1>2, <1>3, <1>4, <1>5, <1>6, <1>7
=============================================================================
