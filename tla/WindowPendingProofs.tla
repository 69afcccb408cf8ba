------------------------ MODULE WindowPendingProofs ------------------------
(***************************************************************************)
(* What the window waits for and what it will know, for any profiles,      *)
(* contents, scenarios and numbers of operations: whatever it shows as     *)
(* pending is answered, and when all is answered it agrees with the        *)
(* service on every generation.                                            *)
(*                                                                         *)
(* On top of WindowInv an invariant (TrackInv) says where every operation  *)
(* that a card, a prompt or a workspace waits for is: in a lane, in a task *)
(* or the mutation, or answered (Under).  It holds over every step because *)
(* an operation that leaves one of these enters the next, and because the  *)
(* answer that is folded clears what waited for it.  The last is delicate  *)
(* for two: an operation displaced by a deletion and put back, which must  *)
(* not have ended in between (PriorLives), and a statement, which is not   *)
(* cleared by a refusal older than the last load: then another refusal,    *)
(* newer than that load, is on the way (Warnings), because mutations are   *)
(* numbered and made in one order (OperationsNumbered).                    *)
(*                                                                         *)
(* A third invariant (AgreeInv) says what the answers in the queue will    *)
(* make of the window's generations once they are folded: what the service *)
(* holds (Agreed), unless a load is still to come or the window is left    *)
(* uncertain (Blind).  None is refused as stale on the way (Buried).       *)
(***************************************************************************)
EXTENDS WindowProofs

-----------------------------------------------------------------------------
(* What the window waits for.  An operation it tracks is in a lane, is     *)
(* running, or its answer is in the event queue (Under); kinds of          *)
(* operations and the events that answer them are those of the code.       *)

\* The operations whose answer the window never ignores, of profile i
Named(kind, i) == kind \in {"connect", "execute", "delete"} \/ (kind = "browse" /\ i \notin Redis)

Answers(kind) ==
    CASE kind = "connect" -> {"ConnectionReady", "OperationFailed"}
      [] kind = "execute" -> {"QueryFinished", "OperationFailed"}
      [] kind = "browse" -> {"CatalogPage", "OperationFailed"}
      [] kind = "delete" -> {"ProfileDeleted", "OperationFailed"}
      [] OTHER -> {"CredentialsStored", "CredentialsStoreFailed", "OperationFailed"}

AnswerOf(e, kind, op, id, gen) ==
    /\ e.op = op
    /\ \/ e.kind = "ConfigUncertain"
       \/ /\ e.kind \in Answers(kind) /\ e.id = id
          /\ e.kind = "OperationFailed" => e.of = kind
          /\ e.kind # "ProfileDeleted" => e.gen = gen

IsOf(c, kind, op, id, gen) == c.kind = kind /\ c.op = op /\ c.id = id /\ c.gen = gen

\* In the lane of mutations or that of work
Queued(p, kind, op, id, gen) ==
    \/ \E k \in 1..Len(p.mutation) : IsOf(p.mutation[k], kind, op, id, gen)
    \/ \E k \in 1..Len(p.work) : IsOf(p.work[k], kind, op, id, gen)

Running(kind, op, id, gen) ==
    \/ \E t \in tasks : IsOf(t, kind, op, id, gen)
    \/ mutation.pc # "none" /\ IsOf(mutation.command, kind, op, id, gen)

Answered(answers, kind, op, id, gen) ==
    \E k \in 1..Len(answers) : AnswerOf(answers[k], kind, op, id, gen)

Under(p, answers, kind, op, id, gen) ==
    Queued(p, kind, op, id, gen) \/ Running(kind, op, id, gen) \/ Answered(answers, kind, op, id, gen)

\* The application's table of operations, its deletions and its prompt
DeleteShaped(d) == d = [op |-> d.op, gen |-> d.gen, prior |-> d.prior, finished |-> d.finished] /\ d.finished \in BOOLEAN
TablesShaped(a) ==
    /\ a.ops = [i \in Ids |-> a.ops[i]] /\ a.deletes = [i \in Ids |-> a.deletes[i]]
    /\ \A i \in Ids : DeleteShaped(a.deletes[i])
    /\ a.prompt = [id |-> a.prompt.id, gen |-> a.prompt.gen, source |-> a.prompt.source,
                   recipe |-> a.prompt.recipe, store |-> a.prompt.store]

Tracked == {"connect", "reconnect", "disconnect", "execute", "browse", "delete"}
KindKnown(x) == x = Idle \/ x.kind \in Tracked

OperationLives(w, answers, i) ==
    LET x == w.a.ops[i] IN KindKnown(x) /\ (Named(x.kind, i) => Under(w.p, answers, x.kind, x.op, i, x.gen))
\* The operation a deletion displaced lives unless the deletion knows that it has ended.
PriorLives(w, answers, i) ==
    LET d == w.a.deletes[i] IN
    KindKnown(d.prior) /\
    (~d.finished /\ Named(d.prior.kind, i) => Under(w.p, answers, d.prior.kind, d.prior.op, i, d.prior.gen))
PromptLives(w, answers) ==
    LET x == w.a.prompt IN x.store # 0 => Under(w.p, answers, "store", x.store, x.id, x.gen)

AppTracks(w, answers) ==
    /\ TablesShaped(w.a) /\ PromptLives(w, answers)
    /\ \A i \in Ids : OperationLives(w, answers, i) /\ PriorLives(w, answers, i)

-----------------------------------------------------------------------------
(* Operations are numbered in the order they are submitted, mutations are  *)
(* made in that order.                                                     *)

Below(c, n) == c.kind # "cancel" => c.op \in Nat /\ c.op < n
LanesNumbered(p, n) ==
    /\ Queue(p.control) /\ Queue(p.mutation) /\ Queue(p.work)
    /\ \A k \in 1..Len(p.control) : Below(p.control[k], n)
    /\ \A k \in 1..Len(p.work) : Below(p.work[k], n) /\ p.work[k].kind # "cancel"
    /\ \A k \in 1..Len(p.mutation) : p.mutation[k].op \in Nat /\ p.mutation[k].op < n
    /\ \A j, k \in 1..Len(p.mutation) : j < k => p.mutation[j].op < p.mutation[k].op

\* Every mutation that is to be answered has a number above n.
MutationsAbove(p, n) ==
    /\ \A k \in 1..Len(p.mutation) : n < p.mutation[k].op
    /\ mutation.pc # "none" => n < mutation.command.op

IsLoad(e) == e.kind \in {"ProfilesLoaded", "ProfilesFailed"}
IsUncertain(e) == e.kind = "ConfigUncertain"

OperationsNumbered(w, answers) ==
    /\ w.m.nextOp \in Nat /\ w.m.lastLoad \in Nat /\ w.m.lastLoad < w.m.nextOp /\ w.m.uncertain \in BOOLEAN
    /\ LanesNumbered(w.p, w.m.nextOp)
    /\ mutation.pc # "none" => /\ mutation.command.op \in Nat /\ mutation.command.op < w.m.nextOp
                               /\ \A k \in 1..Len(w.p.mutation) : mutation.command.op < w.p.mutation[k].op
    /\ \A k \in 1..Len(answers) : IsLoad(answers[k]) \/ IsUncertain(answers[k]) =>
          answers[k].op \in Nat /\ answers[k].op < w.m.nextOp
    /\ ~w.m.uncertain => MutationsAbove(w.p, w.m.lastLoad)
    /\ \A k \in 1..Len(answers) : IsLoad(answers[k]) => MutationsAbove(w.p, answers[k].op)

\* Answer q will make the window hold the configuration for uncertain: no load among the
\* answers before n or before q keeps it from that.
Warning(m, answers, q, n) ==
    /\ q \in 1..Len(answers) /\ IsUncertain(answers[q]) /\ answers[q].op > m.lastLoad
    /\ \A k \in 1..Len(answers) : IsLoad(answers[k]) /\ (k < q \/ k < n) => answers[k].op < answers[q].op
Warned(m, answers, n) == \E q \in 1..Len(answers) : Warning(m, answers, q, n)

\* The window holds it for uncertain, and no load before answer n changes that.
Aware(m, answers, n) ==
    m.uncertain /\ \A k \in 1..Len(answers) : IsLoad(answers[k]) /\ k < n => answers[k].op <= m.lastLoad

Warnings(m, answers) ==
    /\ service.uncertain /\ mutation.pc \in {"none", "run"} =>
          Warned(m, answers, Len(answers) + 1) \/ Aware(m, answers, Len(answers) + 1)
    /\ \A p \in 1..Len(answers) : IsUncertain(answers[p]) =>
          service.uncertain \/ Warned(m, answers, p) \/ Aware(m, answers, p)

-----------------------------------------------------------------------------
(* Statements                                                              *)

ProfilesNamed(profiles) == \A i \in Ids : profiles[i].gen = NoGen => profiles[i] = NoProfile

Executing(w, answers, x) ==
    /\ x = [id |-> x.id, gen |-> x.gen, op |-> x.op] /\ x.id \in Ids
    /\ x.gen \in Nat /\ x.gen # NoGen /\ x.gen <= w.m.active[x.id]
    /\ x.gen = w.m.active[x.id] =>
         Under(w.p, answers, "execute", x.op, x.id, x.gen) \/ service.uncertain \/ Warned(w.m, answers, 0)

ModelTracks(w, answers) ==
    /\ OperationsNumbered(w, answers) /\ Warnings(w.m, answers)
    /\ ProfilesNamed(w.m.profiles)
    /\ \A k \in 1..Len(answers) : IsLoad(answers[k]) => ProfilesNamed(answers[k].profiles)
    /\ mutation.pc \in {"published", "join"} /\ ~service.uncertain /\ job.kind = "refresh" => ProfilesNamed(mutation.profiles)
    /\ w.m.uncertain => w.m.executing = {}
    /\ \A x \in w.m.executing : Executing(w, answers, x)

TrackInv == AppTracks(World, events) /\ ModelTracks(World, events)

-----------------------------------------------------------------------------
(* The application asks for something, or not                              *)

Tracks(w, answers) == AppTracks(w, answers) /\ ModelTracks(w, answers)

ModelStands(m, n) ==
    n.lastLoad = m.lastLoad /\ n.uncertain = m.uncertain /\ n.profiles = m.profiles /\ n.active = m.active

\* From w to v nothing is asked for, and the window waits for nothing else.
Rests(w, v) ==
    /\ v.p = w.p /\ ModelStands(w.m, v.m) /\ v.m.nextOp \in Nat /\ v.m.nextOp >= w.m.nextOp
    /\ v.m.executing \subseteq w.m.executing
    /\ TablesShaped(v.a) /\ (v.a.prompt = w.a.prompt \/ v.a.prompt.store = 0)
    /\ \A i \in Ids : v.a.ops[i] \in {w.a.ops[i], Idle} /\ v.a.deletes[i] \in {w.a.deletes[i], NoDelete}

\* From w to v command c is submitted; what the window waits for now, besides, is that.
Asks(w, c, v) ==
    /\ v.p = Sent(w.p, c) /\ ModelStands(w.m, v.m)
    /\ IF c.kind = "cancel" THEN v.m.nextOp = w.m.nextOp ELSE c.op = w.m.nextOp /\ v.m.nextOp = c.op + 1
    /\ \A x \in v.m.executing : x \in w.m.executing \/
          /\ c.kind = "execute" /\ x = [id |-> c.id, gen |-> c.gen, op |-> c.op] /\ ~w.m.uncertain
          /\ c.id \in Ids /\ c.gen \in Nat /\ c.gen # NoGen /\ c.gen = w.m.active[c.id]
    /\ TablesShaped(v.a)
    /\ \/ v.a.prompt = w.a.prompt \/ v.a.prompt.store = 0
       \/ c.kind = "store" /\ v.a.prompt.store = c.op /\ v.a.prompt.id = c.id /\ v.a.prompt.gen = c.gen
    /\ \A i \in Ids : /\ v.a.ops[i] = w.a.ops[i] \/ (c.id = i /\ v.a.ops[i] = ActiveOperation(c) /\ c.kind \in Tracked)
                      /\ v.a.deletes[i] = w.a.deletes[i] \/ v.a.deletes[i].prior = w.a.ops[i]

LEMMA IdleLives ==
    /\ KindKnown(Idle) /\ KindKnown(NoDelete.prior)
    /\ \A i : ~Named(Idle.kind, i) /\ ~Named(NoDelete.prior.kind, i)
BY DEF Named, Idle, NoDelete, KindKnown

LEMMA LanesStay ==
    ASSUME NEW p, NEW n \in Nat, NEW m \in Nat, n <= m, LanesNumbered(p, n)
    PROVE  LanesNumbered(p, m)
<1>1. \A c : Below(c, n) => Below(c, m)
  BY DEF Below
<1>2. \A k \in 1..Len(p.mutation) : p.mutation[k].op \in Nat /\ p.mutation[k].op < m
  BY DEF LanesNumbered
<1> QED
  BY <1>1, <1>2 DEF LanesNumbered

LEMMA RestsNumbered ==
    ASSUME NEW w, NEW v, NEW answers, OperationsNumbered(w, answers), Rests(w, v)
    PROVE  OperationsNumbered(v, answers)
<1>1. v.p = w.p /\ v.m.lastLoad = w.m.lastLoad /\ v.m.uncertain = w.m.uncertain
  BY DEF Rests, ModelStands
<1>2. v.m.nextOp \in Nat /\ w.m.nextOp \in Nat /\ v.m.nextOp >= w.m.nextOp
  BY DEF Rests, OperationsNumbered
<1>3. LanesNumbered(v.p, v.m.nextOp)
  <2>1. LanesNumbered(w.p, w.m.nextOp)
    BY DEF OperationsNumbered
  <2> QED
    BY <1>1, <1>2, <2>1, LanesStay
<1>4. /\ v.m.lastLoad \in Nat /\ v.m.lastLoad < v.m.nextOp /\ v.m.uncertain \in BOOLEAN
  BY <1>1, <1>2 DEF OperationsNumbered
<1>5. mutation.pc # "none" => /\ mutation.command.op \in Nat /\ mutation.command.op < v.m.nextOp
                              /\ \A k \in 1..Len(v.p.mutation) : mutation.command.op < v.p.mutation[k].op
  BY <1>1, <1>2 DEF OperationsNumbered
<1>6. \A k \in 1..Len(answers) : IsLoad(answers[k]) \/ IsUncertain(answers[k]) =>
          answers[k].op \in Nat /\ answers[k].op < v.m.nextOp
  BY <1>2 DEF OperationsNumbered
<1>7. /\ ~v.m.uncertain => MutationsAbove(v.p, v.m.lastLoad)
      /\ \A k \in 1..Len(answers) : IsLoad(answers[k]) => MutationsAbove(v.p, answers[k].op)
  BY <1>1 DEF OperationsNumbered
<1> QED
  BY <1>2, <1>3, <1>4, <1>5, <1>6, <1>7 DEF OperationsNumbered

LEMMA WarningsStand ==
    ASSUME NEW m, NEW n, NEW answers, Warnings(m, answers), n.lastLoad = m.lastLoad, n.uncertain = m.uncertain
    PROVE  Warnings(n, answers) /\ \A k : Warned(m, answers, k) => Warned(n, answers, k)
BY DEF Warnings, Warned, Warning, Aware

LEMMA RestsTracks ==
    ASSUME NEW w, NEW v, NEW answers, Tracks(w, answers), Rests(w, v)
    PROVE  Tracks(v, answers)
<1>1. v.p = w.p /\ ModelStands(w.m, v.m)
  BY DEF Rests
<1>2. AppTracks(v, answers)
  <2>1. ASSUME NEW i \in Ids PROVE OperationLives(v, answers, i)
    <3>1. v.a.ops[i] = w.a.ops[i] \/ v.a.ops[i] = Idle
      BY <2>1 DEF Rests
    <3> QED
      BY <1>1, <2>1, <3>1, IdleLives DEF Tracks, AppTracks, OperationLives
  <2>2. ASSUME NEW i \in Ids PROVE PriorLives(v, answers, i)
    <3>1. v.a.deletes[i] = w.a.deletes[i] \/ v.a.deletes[i] = NoDelete
      BY <2>2 DEF Rests
    <3> QED
      BY <1>1, <2>2, <3>1, IdleLives DEF Tracks, AppTracks, PriorLives
  <2>3. PromptLives(v, answers)
    BY <1>1 DEF Rests, Tracks, AppTracks, PromptLives
  <2> QED
    BY <2>1, <2>2, <2>3 DEF Rests, AppTracks
<1>3. OperationsNumbered(v, answers)
  BY RestsNumbered DEF Tracks, ModelTracks
<1>4. Warnings(v.m, answers) /\ \A k : Warned(w.m, answers, k) => Warned(v.m, answers, k)
  <2>1. Warnings(w.m, answers)
    BY DEF Tracks, ModelTracks
  <2> QED
    BY <1>1, <2>1, WarningsStand DEF ModelStands
<1>5. ASSUME NEW x \in v.m.executing PROVE Executing(v, answers, x)
  <2>1. Executing(w, answers, x)
    BY <1>5 DEF Rests, Tracks, ModelTracks
  <2> QED
    BY <1>1, <1>4, <2>1 DEF Executing, ModelStands
<1>6. v.m.uncertain => v.m.executing = {}
  BY <1>1 DEF Rests, Tracks, ModelTracks, ModelStands
<1> QED
  BY <1>1, <1>2, <1>3, <1>4, <1>5, <1>6 DEF Tracks, ModelTracks, ModelStands

\* A command that is sent comes last in its lane.
LEMMA SentLanes ==
    ASSUME NEW p, PortShaped(p), NEW c, NEW q, q = Sent(p, c)
    PROVE  /\ q.control = p.control \/ (q.control = Append(p.control, c) /\ Lane(c.kind) = "control")
           /\ q.mutation = IF Lane(c.kind) = "mutation" THEN Append(p.mutation, c) ELSE p.mutation
           /\ q.work = IF Lane(c.kind) = "work" THEN Append(p.work, c) ELSE p.work
<1>1. CASE Coalesced(p, c)
  BY <1>1 DEF Sent, Coalesced
<1>2. CASE ~Coalesced(p, c)
  <2>1. Lane(c.kind) \in {"control", "mutation", "work"}
    BY DEF Lane
  <2>2. PICK keys : keys = IF Lane(c.kind) = "control" THEN p.keys \cup {ControlKey(c)} ELSE p.keys
    OBVIOUS
  <2>3. q = [p EXCEPT ![Lane(c.kind)] = Append(@, c), !.keys = keys]
    BY <1>2, <2>1, <2>2 DEF Sent, PortShaped
  <2> QED
    BY <2>1, <2>3 DEF PortShaped
<1> QED
  BY <1>1, <1>2

\* A queue that may have grown by c
Grows(s, t, c) ==
    /\ Queue(t) /\ Len(t) \in {Len(s), Len(s) + 1} /\ (Len(t) = Len(s) + 1 => t[Len(s) + 1] = c)
    /\ \A k \in 1..Len(s) : t[k] = s[k]

LEMMA GrowsOrNot ==
    ASSUME NEW s, Queue(s), NEW c, NEW t, t = s \/ t = Append(s, c)
    PROVE  Grows(s, t, c)
<1>1. CASE t = s
  <2>1. Len(s) \in Nat
    BY DEF Queue
  <2> QED
    BY <1>1, <2>1 DEF Grows
<1>2. CASE t = Append(s, c)
  <2>1. Queue(t) /\ Len(t) = Len(s) + 1 /\ t[Len(s) + 1] = c /\ \A k \in 1..Len(s) : t[k] = s[k]
    BY <1>2, QueueGrows
  <2> QED
    BY <2>1 DEF Grows
<1> QED
  BY <1>1, <1>2

LEMMA GrownBelow ==
    ASSUME NEW s, NEW t, NEW c, Queue(s), Grows(s, t, c), NEW n \in Nat, \A k \in 1..Len(s) : Below(s[k], n), Below(c, n)
    PROVE  Queue(t) /\ \A k \in 1..Len(t) : Below(t[k], n)
<1>1. Len(s) \in Nat /\ Len(t) \in Nat
  BY DEF Queue, Grows
<1>2. \A k \in 1..Len(t) : k \in 1..Len(s) \/ (k = Len(s) + 1 /\ t[k] = c)
  BY <1>1 DEF Grows
<1> QED
  BY <1>2 DEF Grows

LEMMA SentNumbered ==
    ASSUME NEW p, PortShaped(p), NEW n \in Nat, LanesNumbered(p, n), NEW c,
           c.kind # "cancel" => c.op = n, NEW q, q = Sent(p, c), NEW m \in Nat, n <= m, c.kind # "cancel" => m = n + 1
    PROVE  /\ LanesNumbered(q, m)
           /\ \A kind, op, id, gen : Queued(p, kind, op, id, gen) => Queued(q, kind, op, id, gen)
           /\ Lane(c.kind) # "control" => Queued(q, c.kind, c.op, c.id, c.gen)
           /\ \A k \in 1..Len(q.mutation) : (k \in 1..Len(p.mutation) /\ q.mutation[k] = p.mutation[k]) \/ q.mutation[k].op = n
<1>1. LanesNumbered(p, m)
  BY LanesStay
<1>2. Queue(p.control) /\ Queue(p.mutation) /\ Queue(p.work)
  BY DEF LanesNumbered
<1>3. Grows(p.control, q.control, c) /\ Grows(p.mutation, q.mutation, c) /\ Grows(p.work, q.work, c)
  BY ZenonT(60), <1>2, SentLanes, GrowsOrNot
<1>4. Below(c, m)
  BY DEF Below
<1>5. /\ Queue(q.control) /\ \A k \in 1..Len(q.control) : Below(q.control[k], m)
  <2>1. \A k \in 1..Len(p.control) : Below(p.control[k], m)
    BY <1>1 DEF LanesNumbered
  <2> QED
    BY <1>2, <1>3, <1>4, <2>1, GrownBelow
<1>6. /\ Queue(q.work) /\ \A k \in 1..Len(q.work) : Below(q.work[k], m)
  <2>1. \A k \in 1..Len(p.work) : Below(p.work[k], m)
    BY <1>1 DEF LanesNumbered
  <2> QED
    BY <1>2, <1>3, <1>4, <2>1, GrownBelow
<1>13. \A k \in 1..Len(q.work) : q.work[k].kind # "cancel"
  <2>1. Len(p.work) \in Nat /\ Len(q.work) \in Nat
    BY <1>2, <1>3 DEF Queue, Grows
  <2>2. CASE Lane(c.kind) = "work"
    <3>1. c.kind # "cancel"
      BY <2>2 DEF Lane
    <3>2. \A k \in 1..Len(q.work) : (k \in 1..Len(p.work) /\ q.work[k] = p.work[k]) \/ q.work[k] = c
      BY <1>3, <2>1 DEF Grows
    <3> QED
      BY <3>1, <3>2 DEF LanesNumbered
  <2>3. CASE Lane(c.kind) # "work"
    BY <2>3, SentLanes DEF LanesNumbered
  <2> QED
    BY <2>2, <2>3
<1>7. \A k \in 1..Len(q.mutation) : \/ k \in 1..Len(p.mutation) /\ q.mutation[k] = p.mutation[k]
                                    \/ k = Len(p.mutation) + 1 /\ q.mutation[k].op = n /\ m = n + 1
  <2>1. Len(p.mutation) \in Nat /\ Len(q.mutation) \in Nat
    BY <1>2, <1>3 DEF Queue, Grows
  <2>2. CASE Lane(c.kind) = "mutation"
    <3>1. c.kind # "cancel"
      BY <2>2 DEF Lane
    <3> QED
      BY SMTT(60), <1>3, <2>1, <3>1 DEF Grows
  <2>3. CASE Lane(c.kind) # "mutation"
    BY <2>3, SentLanes
  <2> QED
    BY <2>2, <2>3
<1>8. /\ Queue(q.mutation) /\ \A k \in 1..Len(q.mutation) : q.mutation[k].op \in Nat /\ q.mutation[k].op < m
  <2>1. \A k \in 1..Len(p.mutation) : p.mutation[k].op \in Nat /\ p.mutation[k].op < m
    BY <1>1 DEF LanesNumbered
  <2> QED
    BY SMTT(40), <1>3, <1>7, <2>1 DEF Grows
<1>9. \A j, k \in 1..Len(q.mutation) : j < k => q.mutation[j].op < q.mutation[k].op
  <2>1. Len(p.mutation) \in Nat /\ \A k \in 1..Len(p.mutation) : p.mutation[k].op \in Nat /\ p.mutation[k].op < n
    BY <1>2 DEF Queue, LanesNumbered
  <2>2. \A j, k \in 1..Len(p.mutation) : j < k => p.mutation[j].op < p.mutation[k].op
    BY DEF LanesNumbered
  <2>3. SUFFICES ASSUME NEW j \in 1..Len(q.mutation), NEW k \in 1..Len(q.mutation), j < k
                 PROVE  q.mutation[j].op < q.mutation[k].op
    OBVIOUS
  <2>4. j \in 1..Len(p.mutation) /\ q.mutation[j] = p.mutation[j]
    BY <1>7, <1>3, <2>1, <2>3 DEF Grows, Queue
  <2> QED
    BY <1>7, <2>1, <2>2, <2>3, <2>4
<1>10. LanesNumbered(q, m)
  BY <1>5, <1>6, <1>8, <1>9, <1>13 DEF LanesNumbered
<1>11. ASSUME NEW kind, NEW op, NEW id, NEW gen, Queued(p, kind, op, id, gen)
       PROVE  Queued(q, kind, op, id, gen)
  <2>1. /\ Len(p.mutation) \in Nat /\ Len(p.work) \in Nat
        /\ \A k \in 1..Len(p.mutation) : k \in 1..Len(q.mutation) /\ q.mutation[k] = p.mutation[k]
        /\ \A k \in 1..Len(p.work) : k \in 1..Len(q.work) /\ q.work[k] = p.work[k]
    BY SMTT(60), <1>2, <1>3 DEF Grows, Queue
  <2> QED
    BY <1>11, <2>1 DEF Queued
<1>12. Lane(c.kind) # "control" => Queued(q, c.kind, c.op, c.id, c.gen)
  <2>1. CASE Lane(c.kind) = "mutation"
    <3>1. PICK k : k = Len(p.mutation) + 1
      OBVIOUS
    <3>2. k \in 1..Len(q.mutation) /\ q.mutation[k] = c
      <4>1. q.mutation = Append(p.mutation, c)
        BY <2>1, SentLanes
      <4>2. Len(q.mutation) = Len(p.mutation) + 1 /\ q.mutation[Len(p.mutation) + 1] = c
        BY <1>2, <4>1, QueueGrows
      <4> QED
        BY <1>2, <3>1, <4>2 DEF Queue
    <3> QED
      BY <3>2 DEF Queued, IsOf
  <2>2. CASE Lane(c.kind) = "work"
    <3>1. PICK k : k = Len(p.work) + 1
      OBVIOUS
    <3>2. k \in 1..Len(q.work) /\ q.work[k] = c
      <4>1. q.work = Append(p.work, c)
        BY <2>2, SentLanes
      <4>2. Len(q.work) = Len(p.work) + 1 /\ q.work[Len(p.work) + 1] = c
        BY <1>2, <4>1, QueueGrows
      <4> QED
        BY <1>2, <3>1, <4>2 DEF Queue
    <3> QED
      BY <3>2 DEF Queued, IsOf
  <2> QED
    BY <2>1, <2>2 DEF Lane
<1> QED
  BY <1>7, <1>10, <1>11, <1>12

LEMMA AsksNumbered ==
    ASSUME NEW w, NEW v, NEW c, NEW answers, PortShaped(w.p), OperationsNumbered(w, answers), Asks(w, c, v)
    PROVE  OperationsNumbered(v, answers)
<1>1. v.p = Sent(w.p, c) /\ v.m.lastLoad = w.m.lastLoad /\ v.m.uncertain = w.m.uncertain
  BY DEF Asks, ModelStands
<1>2. /\ w.m.nextOp \in Nat /\ v.m.nextOp \in Nat /\ v.m.nextOp >= w.m.nextOp
      /\ c.kind # "cancel" => c.op = w.m.nextOp /\ v.m.nextOp = w.m.nextOp + 1
  BY DEF Asks, OperationsNumbered
<1>3. LanesNumbered(w.p, w.m.nextOp)
  BY DEF OperationsNumbered
<1>4. /\ LanesNumbered(v.p, v.m.nextOp)
      /\ \A k \in 1..Len(v.p.mutation) :
            (k \in 1..Len(w.p.mutation) /\ v.p.mutation[k] = w.p.mutation[k]) \/ v.p.mutation[k].op = w.m.nextOp
  BY <1>1, <1>2, <1>3, SentNumbered
<1>5. /\ v.m.lastLoad \in Nat /\ v.m.lastLoad < v.m.nextOp /\ v.m.uncertain \in BOOLEAN
  BY <1>1, <1>2 DEF OperationsNumbered
<1>6. mutation.pc # "none" => /\ mutation.command.op \in Nat /\ mutation.command.op < v.m.nextOp
                              /\ \A k \in 1..Len(v.p.mutation) : mutation.command.op < v.p.mutation[k].op
  BY SMTT(40), <1>2, <1>4 DEF OperationsNumbered
<1>7. \A k \in 1..Len(answers) : IsLoad(answers[k]) \/ IsUncertain(answers[k]) =>
          answers[k].op \in Nat /\ answers[k].op < v.m.nextOp
  BY <1>2 DEF OperationsNumbered
<1>8. ASSUME NEW n \in Nat, n < w.m.nextOp, MutationsAbove(w.p, n) PROVE MutationsAbove(v.p, n)
  BY <1>4, <1>8 DEF MutationsAbove
<1>9. ~v.m.uncertain => MutationsAbove(v.p, v.m.lastLoad)
  BY <1>1, <1>8 DEF OperationsNumbered
<1>10. \A k \in 1..Len(answers) : IsLoad(answers[k]) => MutationsAbove(v.p, answers[k].op)
  BY <1>8 DEF OperationsNumbered
<1> QED
  BY <1>2, <1>4, <1>5, <1>6, <1>7, <1>9, <1>10 DEF OperationsNumbered

LEMMA AsksTracks ==
    ASSUME NEW w, NEW v, NEW c, NEW answers, PortShaped(w.p), Tracks(w, answers), Asks(w, c, v)
    PROVE  Tracks(v, answers)
<1>1. v.p = Sent(w.p, c) /\ ModelStands(w.m, v.m)
  BY DEF Asks
<1>2. OperationsNumbered(w, answers)
  BY DEF Tracks, ModelTracks
<1>3. OperationsNumbered(v, answers)
  BY <1>2, AsksNumbered
<1>4. /\ \A kind, op, id, gen : Queued(w.p, kind, op, id, gen) => Queued(v.p, kind, op, id, gen)
      /\ Lane(c.kind) # "control" => Queued(v.p, c.kind, c.op, c.id, c.gen)
  <2>1. /\ w.m.nextOp \in Nat /\ v.m.nextOp \in Nat /\ v.m.nextOp >= w.m.nextOp
        /\ c.kind # "cancel" => c.op = w.m.nextOp /\ v.m.nextOp = w.m.nextOp + 1
    BY <1>2 DEF Asks, OperationsNumbered
  <2>2. LanesNumbered(w.p, w.m.nextOp)
    BY <1>2 DEF OperationsNumbered
  <2> QED
    BY <1>1, <2>1, <2>2, SentNumbered
<1>5. \A kind, op, id, gen : Under(w.p, answers, kind, op, id, gen) => Under(v.p, answers, kind, op, id, gen)
  BY <1>4 DEF Under
<1>6. Lane(c.kind) # "control" => Under(v.p, answers, c.kind, c.op, c.id, c.gen)
  BY <1>4 DEF Under
<1>7. ASSUME NEW i \in Ids PROVE OperationLives(v, answers, i)
  <2>1. CASE v.a.ops[i] = w.a.ops[i]
    BY <1>5, <1>7, <2>1 DEF Tracks, AppTracks, OperationLives
  <2>2. CASE c.id = i /\ v.a.ops[i] = ActiveOperation(c) /\ c.kind \in Tracked
    <3>1. v.a.ops[i].kind = c.kind /\ v.a.ops[i].op = c.op /\ v.a.ops[i].gen = c.gen
      BY <2>2 DEF ActiveOperation
    <3>2. Named(c.kind, i) => Lane(c.kind) # "control"
      BY DEF Named, Lane
    <3> QED
      BY <1>6, <2>2, <3>1, <3>2 DEF OperationLives, KindKnown
  <2> QED
    BY <1>7, <2>1, <2>2 DEF Asks
<1>8. ASSUME NEW i \in Ids PROVE PriorLives(v, answers, i)
  <2>1. CASE v.a.deletes[i] = w.a.deletes[i]
    BY <1>5, <1>8, <2>1 DEF Tracks, AppTracks, PriorLives
  <2>2. CASE v.a.deletes[i].prior = w.a.ops[i]
    <3>1. OperationLives(w, answers, i)
      BY <1>8 DEF Tracks, AppTracks
    <3> QED
      BY <1>5, <2>2, <3>1 DEF OperationLives, PriorLives
  <2> QED
    BY <1>8, <2>1, <2>2 DEF Asks
<1>9. PromptLives(v, answers)
  <2>1. CASE v.a.prompt = w.a.prompt \/ v.a.prompt.store = 0
    BY <1>5, <2>1 DEF Tracks, AppTracks, PromptLives
  <2>2. CASE c.kind = "store" /\ v.a.prompt.store = c.op /\ v.a.prompt.id = c.id /\ v.a.prompt.gen = c.gen
    <3>1. Lane(c.kind) # "control"
      BY <2>2 DEF Lane
    <3> QED
      BY <1>6, <2>2, <3>1 DEF PromptLives
  <2> QED
    BY <2>1, <2>2 DEF Asks
<1>10. Warnings(v.m, answers) /\ \A k : Warned(w.m, answers, k) => Warned(v.m, answers, k)
  <2>1. Warnings(w.m, answers)
    BY DEF Tracks, ModelTracks
  <2> QED
    BY <1>1, <2>1, WarningsStand DEF ModelStands
<1>11. ASSUME NEW x \in v.m.executing PROVE Executing(v, answers, x)
  <2>1. CASE x \in w.m.executing
    <3>1. Executing(w, answers, x)
      BY <2>1 DEF Tracks, ModelTracks
    <3> QED
      BY <1>1, <1>5, <1>10, <3>1 DEF Executing, ModelStands
  <2>2. CASE /\ c.kind = "execute" /\ x = [id |-> c.id, gen |-> c.gen, op |-> c.op]
             /\ c.id \in Ids /\ c.gen \in Nat /\ c.gen # NoGen /\ c.gen = w.m.active[c.id]
    <3>1. Under(v.p, answers, "execute", x.op, x.id, x.gen)
      <4>1. Lane(c.kind) # "control"
        BY <2>2 DEF Lane
      <4> QED
        BY <1>6, <2>2, <4>1
    <3>2. /\ x = [id |-> x.id, gen |-> x.gen, op |-> x.op] /\ x.id \in Ids
          /\ x.gen \in Nat /\ x.gen # NoGen /\ x.gen <= v.m.active[x.id]
      BY <1>1, <2>2 DEF ModelStands
    <3> QED
      BY <3>1, <3>2 DEF Executing
  <2> QED
    BY <1>11, <2>1, <2>2 DEF Asks
<1>12. v.m.uncertain => v.m.executing = {}
  BY <1>1 DEF Asks, Tracks, ModelTracks, ModelStands
<1>13. AppTracks(v, answers)
  BY <1>7, <1>8, <1>9 DEF Asks, AppTracks
<1> QED
  BY <1>1, <1>3, <1>10, <1>11, <1>12, <1>13 DEF Tracks, ModelTracks, ModelStands

-----------------------------------------------------------------------------
(* What the application submits                                            *)

PromptShaped(x) ==
    x = [id |-> x.id, gen |-> x.gen, source |-> x.source, recipe |-> x.recipe, store |-> x.store]

LEMMA TracksRest ==
    ASSUME NEW w, NEW v, NEW answers, Tracks(w, answers), v.p = w.p, ModelStands(w.m, v.m),
           v.m.nextOp \in {w.m.nextOp, w.m.nextOp + 1}, v.m.executing = w.m.executing,
           v.a.ops = w.a.ops, v.a.deletes = w.a.deletes,
           v.a.prompt = w.a.prompt \/ (PromptShaped(v.a.prompt) /\ v.a.prompt.store = 0)
    PROVE  Tracks(v, answers)
<1>1. w.m.nextOp \in Nat
  BY DEF Tracks, ModelTracks, OperationsNumbered
<1>2. v.m.nextOp \in Nat /\ v.m.nextOp >= w.m.nextOp
  BY <1>1
<1>3. TablesShaped(w.a)
  BY DEF Tracks, AppTracks
<1>4. TablesShaped(v.a)
  BY <1>3 DEF TablesShaped, PromptShaped
<1>5. Rests(w, v)
  BY <1>2, <1>4 DEF Rests
<1> QED
  BY <1>5, RestsTracks

LEMMA TracksCancelPrompt ==
    ASSUME NEW w, NEW answers, Shaped(w), Tracks(w, answers)
    PROVE  Tracks(CancelPrompt(w), answers)
<1>1. PICK v : v = CancelPrompt(w)
  OBVIOUS
<1>2. /\ v.m = w.m /\ v.p = w.p /\ v.a.ops = w.a.ops /\ v.a.deletes = w.a.deletes
      /\ v.a.prompt = w.a.prompt \/ v.a.prompt = NoPrompt
  BY <1>1 DEF CancelPrompt, Shaped, AppShaped
<1>3. PromptShaped(NoPrompt) /\ NoPrompt.store = 0
  BY DEF PromptShaped, NoPrompt
<1>4. Tracks(v, answers)
  BY <1>2, <1>3, TracksRest DEF ModelStands
<1> QED
  BY <1>1, <1>4

LEMMA TracksOpenPrompt ==
    ASSUME NEW w, NEW answers, Shaped(w), Tracks(w, answers), NEW id, NEW gen, NEW source, NEW recipe
    PROVE  Tracks(OpenPrompt(w, id, gen, source, recipe), answers)
<1>1. PICK v : v = OpenPrompt(w, id, gen, source, recipe)
  OBVIOUS
<1>2. PICK u : u = CancelPrompt(w)
  OBVIOUS
<1>3. PICK x : x = [id |-> id, gen |-> gen, source |-> source, recipe |-> recipe, store |-> 0]
  OBVIOUS
<1>4. PromptShaped(x) /\ x.store = 0
  BY <1>3 DEF PromptShaped
<1>5. /\ u = [m |-> w.m, a |-> u.a, p |-> w.p] /\ u.a.ops = w.a.ops /\ u.a.deletes = w.a.deletes
      /\ u.a = [ops |-> u.a.ops, deletes |-> u.a.deletes, recipes |-> u.a.recipes, prompt |-> u.a.prompt, error |-> u.a.error,
                confirm |-> u.a.confirm, editor |-> u.a.editor, followUp |-> u.a.followUp]
  BY <1>2 DEF CancelPrompt, Shaped, AppShaped
<1>6. v = [u EXCEPT !.a.prompt = x] \/ v = [w EXCEPT !.a.recipes = Without(@, recipe)]
  BY <1>1, <1>2, <1>3 DEF OpenPrompt
<1>7. /\ v.m = w.m /\ v.p = w.p /\ v.a.ops = w.a.ops /\ v.a.deletes = w.a.deletes
      /\ v.a.prompt = w.a.prompt \/ v.a.prompt = x
  BY <1>5, <1>6 DEF Shaped, AppShaped
<1>8. Tracks(v, answers)
  BY <1>4, <1>7, TracksRest DEF ModelStands
<1> QED
  BY <1>1, <1>8

LEMMA TracksOpenSessionPrompt ==
    ASSUME NEW w, NEW answers, Shaped(w), Tracks(w, answers), NEW id
    PROVE  Tracks(OpenSessionPrompt(w, id), answers)
<1>1. PICK seed : seed = Command(w.m, "connect", id, w.m.profiles[id].gen)
  OBVIOUS
<1>2. PICK u : u = [w EXCEPT !.m.nextOp = @ + 1, !.a.recipes = @ \cup {Recipe(seed)}]
  OBVIOUS
<1>3. PICK v : v = OpenPrompt(u, id, w.m.profiles[id].gen, "connect", seed.op)
  OBVIOUS
<1>4. OpenSessionPrompt(w, id) \in {w, v}
  BY <1>1, <1>2, <1>3 DEF OpenSessionPrompt
<1>5. PICK n : n = w.m.nextOp + 1
  OBVIOUS
<1>6. PICK r : r = w.a.recipes \cup {Recipe(seed)}
  OBVIOUS
<1>7. /\ u.m = [w.m EXCEPT !.nextOp = n] /\ u.a = [w.a EXCEPT !.recipes = r] /\ u = [m |-> u.m, a |-> u.a, p |-> w.p]
  BY <1>2, <1>5, <1>6 DEF Shaped
<1>8. Shaped(u)
  <2>1. Recipe(seed).kind = "connect"
    BY <1>1 DEF Recipe, Command
  <2>2. AppShaped(u.a)
    <3>1. AppShaped(w.a)
      BY DEF Shaped
    <3>2. \A q \in r : q.kind \in {"connect", "reconnect", "browse"}
      BY <1>6, <2>1, <3>1 DEF AppShaped
    <3>3. u.a.recipes = r
      BY <1>7, <3>1 DEF AppShaped
    <3> QED
      BY <1>7, <3>1, <3>2, <3>3 DEF AppShaped
  <2>3. ModelShaped(u.m)
    BY <1>7 DEF Shaped, ModelShaped
  <2> QED
    BY <1>7, <2>2, <2>3 DEF Shaped
<1>9. Tracks(u, answers)
  <2>1. /\ u.p = w.p /\ ModelStands(w.m, u.m) /\ u.m.nextOp = n /\ u.m.executing = w.m.executing
        /\ u.a.ops = w.a.ops /\ u.a.deletes = w.a.deletes /\ u.a.prompt = w.a.prompt
    BY <1>7 DEF Shaped, ModelShaped, AppShaped, ModelStands
  <2> QED
    BY <1>5, <2>1, TracksRest
<1>10. Tracks(v, answers)
  BY <1>3, <1>8, <1>9, TracksOpenPrompt
<1> QED
  BY <1>4, <1>10

\* try_submit: the command is sent, and its number spent
Sends(w, c, v) ==
    /\ v = [m |-> v.m, a |-> w.a, p |-> Sent(w.p, c)] /\ v.m = [w.m EXCEPT !.nextOp = v.m.nextOp]
    /\ v.m.nextOp = c.op + 1 /\ ModelStands(w.m, v.m) /\ v.m.executing = w.m.executing

LEMMA TracksSpent ==
    ASSUME NEW w, NEW answers, Shaped(w), Tracks(w, answers), NEW c, c.op = w.m.nextOp,
           NEW u, u = [w EXCEPT !.m.nextOp = c.op + 1]
    PROVE  Tracks(u, answers)
<1>1. PICK n : n = c.op + 1
  OBVIOUS
<1>2. u = [m |-> [w.m EXCEPT !.nextOp = n], a |-> w.a, p |-> w.p]
  BY <1>1 DEF Shaped
<1>3. /\ u.m.nextOp = n /\ ModelStands(w.m, u.m) /\ u.m.executing = w.m.executing
  BY <1>2 DEF Shaped, ModelShaped, ModelStands
<1> QED
  BY <1>1, <1>2, <1>3, TracksRest

LEMMA Sending ==
    ASSUME NEW w, Shaped(w), NEW c, NEW u, u = [w EXCEPT !.m.nextOp = c.op + 1], NEW v, v = [u EXCEPT !.p = Sent(@, c)]
    PROVE  Sends(w, c, v)
<1>1. PICK n : n = c.op + 1
  OBVIOUS
<1>2. u = [m |-> [w.m EXCEPT !.nextOp = n], a |-> w.a, p |-> w.p]
  BY <1>1 DEF Shaped
<1>3. /\ u.m.nextOp = n /\ ModelStands(w.m, u.m) /\ u.m.executing = w.m.executing
  BY <1>2 DEF Shaped, ModelShaped, ModelStands
<1>4. v = [m |-> u.m, a |-> w.a, p |-> Sent(w.p, c)]
  BY <1>2
<1> QED
  BY ZenonT(60), <1>1, <1>2, <1>3, <1>4 DEF Sends

LEMMA TablesTrack ==
    ASSUME NEW a, TablesShaped(a), NEW b, b.deletes = a.deletes, b.prompt = a.prompt, NEW id, NEW x,
           b.ops = [a.ops EXCEPT ![id] = x]
    PROVE  /\ TablesShaped(b)
           /\ \A i \in Ids : b.ops[i] = a.ops[i] \/ (i = id /\ b.ops[i] = x)
<1>1. b.ops = [i \in Ids |-> b.ops[i]]
  BY DEF TablesShaped
<1>2. \A i \in Ids : b.ops[i] = a.ops[i] \/ (i = id /\ b.ops[i] = x)
  BY DEF TablesShaped
<1> QED
  BY <1>1, <1>2 DEF TablesShaped

LEMMA TracksSubmitPrompt ==
    ASSUME NEW w, NEW answers, Shaped(w), Tracks(w, answers)
    PROVE  Tracks(SubmitPrompt(w), answers)
<1>1. PICK c : c = Command(w.m, "store", w.a.prompt.id, w.a.prompt.gen)
  OBVIOUS
<1>2. PICK u : u = [w EXCEPT !.m.nextOp = c.op + 1]
  OBVIOUS
<1>3. PICK v : v = [u EXCEPT !.p = Sent(@, c)]
  OBVIOUS
<1>4. c.kind = "store" /\ c.op = w.m.nextOp /\ c.id = w.a.prompt.id /\ c.gen = w.a.prompt.gen
  BY <1>1 DEF Command
<1>5. Tracks(u, answers)
  BY <1>2, <1>4, TracksSpent
<1>0. Sends(w, c, v)
  BY <1>2, <1>3, Sending
<1>6. PICK x : x = [v EXCEPT !.a.prompt.store = c.op]
  OBVIOUS
<1>7. x.m = v.m /\ x.p = Sent(w.p, c) /\ x.a = [w.a EXCEPT !.prompt.store = c.op]
  BY <1>0, <1>6 DEF Sends
<1>8. TablesShaped(w.a)
  BY DEF Tracks, AppTracks
<1>9. /\ x.a.ops = w.a.ops /\ x.a.deletes = w.a.deletes /\ PromptShaped(x.a.prompt)
      /\ x.a.prompt.store = c.op /\ x.a.prompt.id = c.id /\ x.a.prompt.gen = c.gen
  BY <1>4, <1>7, <1>8 DEF Shaped, AppShaped, TablesShaped, PromptShaped
<1>10. TablesShaped(x.a)
  BY <1>8, <1>9 DEF TablesShaped, PromptShaped
<1>11. Tracks(x, answers)
  <2>1. Asks(w, c, x)
    BY <1>0, <1>4, <1>7, <1>9, <1>10 DEF Asks, Sends
  <2> QED
    BY <2>1, AsksTracks DEF Shaped
<1>12. SubmitPrompt(w) \in {w, CancelPrompt(w), u, x}
  BY <1>1, <1>2, <1>3, <1>6 DEF SubmitPrompt, TrySubmit
<1> QED
  BY <1>5, <1>11, <1>12, TracksCancelPrompt

LEMMA TracksSubmitRefresh ==
    ASSUME NEW w, NEW answers, Shaped(w), Tracks(w, answers)
    PROVE  Tracks(SubmitRefresh(w), answers)
<1>1. PICK c : c = Command(w.m, "refresh", NoId, NoGen)
  OBVIOUS
<1>2. PICK u : u = [w EXCEPT !.m.nextOp = c.op + 1]
  OBVIOUS
<1>3. PICK v : v = [u EXCEPT !.p = Sent(@, c)]
  OBVIOUS
<1>4. c.kind = "refresh" /\ c.op = w.m.nextOp
  BY <1>1 DEF Command
<1>5. Tracks(u, answers)
  BY <1>2, <1>4, TracksSpent
<1>0. Sends(w, c, v)
  BY <1>2, <1>3, Sending
<1>6. TablesShaped(v.a) /\ v.a = w.a
  BY <1>0 DEF Tracks, AppTracks, Sends
<1>7. Tracks(v, answers)
  <2>1. Asks(w, c, v)
    BY <1>0, <1>4, <1>6 DEF Asks, Sends
  <2> QED
    BY <2>1, AsksTracks DEF Shaped
<1>8. SubmitRefresh(w) \in {u, v}
  BY <1>1, <1>2, <1>3 DEF SubmitRefresh, TrySubmit
<1> QED
  BY <1>5, <1>7, <1>8

LEMMA TracksSubmitAttempt ==
    ASSUME NEW w, NEW answers, Shaped(w), Tracks(w, answers), NEW kind \in {"connect", "reconnect"}, NEW id, NEW gen
    PROVE  Tracks(SubmitAttempt(w, kind, id, gen), answers)
<1>1. PICK c : c = Command(w.m, kind, id, gen)
  OBVIOUS
<1>2. PICK u : u = [w EXCEPT !.m.nextOp = c.op + 1]
  OBVIOUS
<1>3. PICK v : v = [u EXCEPT !.p = Sent(@, c)]
  OBVIOUS
<1>4. c.kind = kind /\ kind # "cancel" /\ c.op = w.m.nextOp /\ c.id = id
  BY <1>1 DEF Command
<1>5. Tracks(u, answers)
  BY <1>2, <1>4, TracksSpent
<1>6. Sends(w, c, v)
  BY <1>2, <1>3, Sending
<1>7. PICK x : x = [v EXCEPT !.a.recipes = @ \cup {Recipe(c)}, !.m.conn[id] = Pending(c.op),
                             !.a.ops[id] = ActiveOperation(c)]
  OBVIOUS
<1>8. Tracks(x, answers)
  <2>1. v.m = [w.m EXCEPT !.nextOp = v.m.nextOp] /\ v.a = w.a /\ v = [m |-> v.m, a |-> v.a, p |-> v.p]
    BY <1>6 DEF Sends
  <2>2. x.m = [v.m EXCEPT !.conn[id] = Pending(c.op)] /\ x.p = v.p
    BY <1>7, <2>1
  <2>3. ModelStands(w.m, x.m) /\ x.m.nextOp = v.m.nextOp /\ x.m.executing = w.m.executing
    BY <2>1, <2>2 DEF Shaped, ModelShaped, ModelStands
  <2>9. PICK r, o : r = w.a.recipes \cup {Recipe(c)} /\ o = ActiveOperation(c)
    OBVIOUS
  <2>10. PICK a : a = x.a
    OBVIOUS
  <2>11. a = [w.a EXCEPT !.recipes = r, !.ops[id] = o] \/ a = [w.a EXCEPT !.ops[id] = o]
    BY <1>7, <2>1, <2>9, <2>10
  <2>4. a.ops = [w.a.ops EXCEPT ![id] = o] /\ a.deletes = w.a.deletes /\ a.prompt = w.a.prompt
    BY <2>11 DEF Shaped, AppShaped
  <2>5. TablesShaped(w.a)
    BY DEF Tracks, AppTracks
  <2>6. TablesShaped(a) /\ \A i \in Ids : a.ops[i] = w.a.ops[i] \/ (i = id /\ a.ops[i] = o)
    BY <2>4, <2>5, TablesTrack
  <2>12. /\ TablesShaped(x.a) /\ x.a.prompt = w.a.prompt
         /\ \A i \in Ids : /\ x.a.ops[i] = w.a.ops[i] \/ (c.id = i /\ x.a.ops[i] = ActiveOperation(c))
                         /\ x.a.deletes[i] = w.a.deletes[i]
    BY <1>4, <2>4, <2>6, <2>9, <2>10
  <2>13. x.p = Sent(w.p, c) /\ x.m.nextOp = c.op + 1 /\ v.m.executing = w.m.executing
    BY <1>6, <2>2, <2>3 DEF Sends
  <2>14. c.kind \in Tracked
    BY <1>4 DEF Tracked
  <2>7. Asks(w, c, x)
    BY <1>4, <2>3, <2>12, <2>13, <2>14 DEF Asks
  <2> QED
    BY <2>7, AsksTracks DEF Shaped
<1>9. SubmitAttempt(w, kind, id, gen) \in {w, u, x}
  BY <1>1, <1>2, <1>3, <1>7 DEF SubmitAttempt, TrySubmit
<1> QED
  BY <1>5, <1>8, <1>9

LEMMA TracksSubmitTest ==
    ASSUME NEW w, NEW answers, Shaped(w), Tracks(w, answers), NEW id
    PROVE  Tracks(SubmitTest(w, id), answers)
<1>1. SubmitTest(w, id) \in {w, OpenSessionPrompt(w, id), SubmitAttempt(w, "connect", id, w.m.profiles[id].gen)}
  BY DEF SubmitTest
<1> QED
  BY <1>1, TracksOpenSessionPrompt, TracksSubmitAttempt

LEMMA TracksSubmitDisconnect ==
    ASSUME NEW w, NEW answers, Shaped(w), Tracks(w, answers), NEW id
    PROVE  Tracks(SubmitDisconnect(w, id), answers)
<1>1. PICK c : c = Command(w.m, "disconnect", id, w.m.active[id])
  OBVIOUS
<1>2. PICK u : u = [w EXCEPT !.m.nextOp = c.op + 1]
  OBVIOUS
<1>3. PICK v : v = [u EXCEPT !.p = Sent(@, c)]
  OBVIOUS
<1>4. c.kind = "disconnect" /\ c.op = w.m.nextOp /\ c.id = id
  BY <1>1 DEF Command
<1>5. Tracks(u, answers)
  BY <1>2, <1>4, TracksSpent
<1>6. Sends(w, c, v)
  BY <1>2, <1>3, Sending
<1>7. PICK x : x = [v EXCEPT !.m.conn[id] = Pending(c.op), !.a.ops[id] = ActiveOperation(c)]
  OBVIOUS
<1>8. Tracks(x, answers)
  <2>1. v.m = [w.m EXCEPT !.nextOp = v.m.nextOp] /\ v.a = w.a /\ v = [m |-> v.m, a |-> v.a, p |-> v.p]
    BY <1>6 DEF Sends
  <2>2. x.m = [v.m EXCEPT !.conn[id] = Pending(c.op)] /\ x.p = v.p
    BY <1>7, <2>1
  <2>3. ModelStands(w.m, x.m) /\ x.m.nextOp = v.m.nextOp /\ x.m.executing = w.m.executing
    BY <2>1, <2>2 DEF Shaped, ModelShaped, ModelStands
  <2>9. PICK r, o : r = w.a.recipes \cup {Recipe(c)} /\ o = ActiveOperation(c)
    OBVIOUS
  <2>10. PICK a : a = x.a
    OBVIOUS
  <2>11. a = [w.a EXCEPT !.recipes = r, !.ops[id] = o] \/ a = [w.a EXCEPT !.ops[id] = o]
    BY <1>7, <2>1, <2>9, <2>10
  <2>4. a.ops = [w.a.ops EXCEPT ![id] = o] /\ a.deletes = w.a.deletes /\ a.prompt = w.a.prompt
    BY <2>11 DEF Shaped, AppShaped
  <2>5. TablesShaped(w.a)
    BY DEF Tracks, AppTracks
  <2>6. TablesShaped(a) /\ \A i \in Ids : a.ops[i] = w.a.ops[i] \/ (i = id /\ a.ops[i] = o)
    BY SMTT(40), <2>4, <2>5, TablesTrack
  <2>12. /\ TablesShaped(x.a) /\ x.a.prompt = w.a.prompt
         /\ \A i \in Ids : /\ x.a.ops[i] = w.a.ops[i] \/ (c.id = i /\ x.a.ops[i] = ActiveOperation(c))
                         /\ x.a.deletes[i] = w.a.deletes[i]
    BY <1>4, <2>4, <2>6, <2>9, <2>10
  <2>13. x.p = Sent(w.p, c) /\ x.m.nextOp = c.op + 1 /\ v.m.executing = w.m.executing
    BY <1>6, <2>2, <2>3 DEF Sends
  <2>14. c.kind \in Tracked
    BY <1>4 DEF Tracked
  <2>7. Asks(w, c, x)
    BY <1>4, <2>3, <2>12, <2>13, <2>14 DEF Asks
  <2> QED
    BY <2>7, AsksTracks DEF Shaped
<1>9. SubmitDisconnect(w, id) \in {w, u, x}
  BY <1>1, <1>2, <1>3, <1>7 DEF SubmitDisconnect, TrySubmit
<1> QED
  BY <1>5, <1>8, <1>9

LEMMA TracksSubmitReconnect ==
    ASSUME NEW w, NEW answers, Shaped(w), Tracks(w, answers), NEW id
    PROVE  Tracks(SubmitReconnect(w, id), answers)
<1>1. SubmitReconnect(w, id) \in {w, SubmitAttempt(w, "reconnect", id, w.m.active[id])}
  BY DEF SubmitReconnect
<1> QED
  BY <1>1, TracksSubmitAttempt

\* A statement is of a profile that is shown and current.
LEMMA TracksSubmitExecute ==
    ASSUME NEW w, NEW answers, Shaped(w), Tracks(w, answers), NEW id \in Ids, w.m.profiles[id] # NoProfile
    PROVE  Tracks(SubmitExecute(w, id), answers)
<1>1. PICK c : c = Command(w.m, "execute", id, w.m.profiles[id].gen)
  OBVIOUS
<1>2. PICK u : u = [w EXCEPT !.m.nextOp = c.op + 1]
  OBVIOUS
<1>3. PICK v : v = [u EXCEPT !.p = Sent(@, c)]
  OBVIOUS
<1>4. c.kind = "execute" /\ c.gen = w.m.profiles[id].gen /\ c.op = w.m.nextOp /\ c.id = id
  BY <1>1 DEF Command
<1>5. Tracks(u, answers)
  BY <1>2, <1>4, TracksSpent
<1>6. Sends(w, c, v)
  BY <1>2, <1>3, Sending
<1>7. PICK x : x = [v EXCEPT !.m.executing = @ \cup {[id |-> id, gen |-> w.m.profiles[id].gen, op |-> c.op]},
                             !.a.ops[id] = ActiveOperation(c)]
  OBVIOUS
<1>8. ASSUME ~w.m.uncertain, w.m.active[id] = c.gen
      PROVE  Tracks(x, answers)
  <2>1. v.m = [w.m EXCEPT !.nextOp = v.m.nextOp] /\ v.a = w.a /\ v = [m |-> v.m, a |-> v.a, p |-> v.p]
    BY <1>6 DEF Sends
  <2>2. /\ x.m = [v.m EXCEPT !.executing = v.m.executing \cup {[id |-> id, gen |-> c.gen, op |-> c.op]}]
        /\ x.p = v.p
    BY <1>4, <1>7, <2>1
  <2>3. /\ ModelStands(w.m, x.m) /\ x.m.nextOp = v.m.nextOp
        /\ x.m.executing = w.m.executing \cup {[id |-> id, gen |-> c.gen, op |-> c.op]}
    BY <2>1, <2>2 DEF Shaped, ModelShaped, ModelStands
  <2>0. c.gen \in Nat /\ c.gen # NoGen
    BY <1>4 DEF Tracks, ModelTracks, ProfilesNamed, Shaped, ModelShaped, SnapshotsShaped, SnapshotShaped
  <2>8. \A y \in x.m.executing : y \in w.m.executing \/
          /\ c.kind = "execute" /\ y = [id |-> c.id, gen |-> c.gen, op |-> c.op] /\ ~w.m.uncertain
          /\ c.id \in Ids /\ c.gen \in Nat /\ c.gen # NoGen /\ c.gen = w.m.active[c.id]
    BY <1>4, <1>8, <2>0, <2>3
  <2>9. PICK r, o : r = w.a.recipes \cup {Recipe(c)} /\ o = ActiveOperation(c)
    OBVIOUS
  <2>10. PICK a : a = x.a
    OBVIOUS
  <2>11. a = [w.a EXCEPT !.recipes = r, !.ops[id] = o] \/ a = [w.a EXCEPT !.ops[id] = o]
    BY <1>7, <2>1, <2>9, <2>10
  <2>4. a.ops = [w.a.ops EXCEPT ![id] = o] /\ a.deletes = w.a.deletes /\ a.prompt = w.a.prompt
    BY <2>11 DEF Shaped, AppShaped
  <2>5. TablesShaped(w.a)
    BY DEF Tracks, AppTracks
  <2>6. TablesShaped(a) /\ \A i \in Ids : a.ops[i] = w.a.ops[i] \/ (i = id /\ a.ops[i] = o)
    BY SMTT(40), <2>4, <2>5, TablesTrack
  <2>12. /\ TablesShaped(x.a) /\ x.a.prompt = w.a.prompt
         /\ \A i \in Ids : /\ x.a.ops[i] = w.a.ops[i] \/ (c.id = i /\ x.a.ops[i] = ActiveOperation(c))
                         /\ x.a.deletes[i] = w.a.deletes[i]
    BY <1>4, <2>4, <2>6, <2>9, <2>10
  <2>13. x.p = Sent(w.p, c) /\ x.m.nextOp = c.op + 1 /\ v.m.executing = w.m.executing
    BY <1>6, <2>2, <2>3 DEF Sends
  <2>14. c.kind \in Tracked
    BY <1>4 DEF Tracked
  <2>7. Asks(w, c, x)
    BY <1>4, <2>3, <2>8, <2>12, <2>13, <2>14 DEF Asks
  <2> QED
    BY <2>7, AsksTracks DEF Shaped
<1>9. SubmitExecute(w, id) \in {w, u} \/ (SubmitExecute(w, id) = x /\ ~w.m.uncertain /\ w.m.active[id] = c.gen)
  BY <1>1, <1>2, <1>3, <1>4, <1>7 DEF SubmitExecute, TrySubmit
<1> QED
  BY <1>5, <1>8, <1>9

LEMMA TracksSubmitCancel ==
    ASSUME NEW w, NEW answers, Shaped(w), Tracks(w, answers), NEW op
    PROVE  Tracks(SubmitCancel(w, op), answers)
<1>1. PICK c : c = [Command(w.m, "cancel", NoId, NoGen) EXCEPT !.op = op]
  OBVIOUS
<1>2. PICK v : v = [w EXCEPT !.p = Sent(@, c)]
  OBVIOUS
<1>3. c.kind = "cancel"
  BY <1>1 DEF Command
<1>4. v.m = w.m /\ v.a = w.a /\ v.p = Sent(w.p, c)
  BY <1>2 DEF Shaped
<1>5. TablesShaped(w.a)
  BY DEF Tracks, AppTracks
<1>6. Asks(w, c, v)
  BY <1>3, <1>4, <1>5 DEF Asks, ModelStands
<1>7. Tracks(v, answers)
  BY <1>6, AsksTracks DEF Shaped
<1>8. SubmitCancel(w, op) \in {w, v}
  BY <1>1, <1>2 DEF SubmitCancel
<1> QED
  BY <1>7, <1>8

LEMMA TracksSubmitBrowseExact ==
    ASSUME NEW w, NEW answers, Shaped(w), Tracks(w, answers), NEW id, NEW gen
    PROVE  Tracks(SubmitBrowseExact(w, id, gen), answers)
<1>1. PICK c : c = Command(w.m, "browse", id, gen)
  OBVIOUS
<1>2. PICK u : u = [w EXCEPT !.m.nextOp = c.op + 1]
  OBVIOUS
<1>3. PICK v : v = [u EXCEPT !.p = Sent(@, c)]
  OBVIOUS
<1>4. c.kind = "browse" /\ c.op = w.m.nextOp /\ c.id = id
  BY <1>1 DEF Command
<1>5. Tracks(u, answers)
  BY <1>2, <1>4, TracksSpent
<1>6. Sends(w, c, v)
  BY <1>2, <1>3, Sending
<1>7. PICK x : x = [v EXCEPT !.a.recipes = @ \cup {Recipe(c)}, !.a.ops[id] = ActiveOperation(c)]
  OBVIOUS
<1>8. Tracks(x, answers)
  <2>1. v.m = [w.m EXCEPT !.nextOp = v.m.nextOp] /\ v.a = w.a /\ v = [m |-> v.m, a |-> v.a, p |-> v.p]
    BY <1>6 DEF Sends
  <2>2. x.m = v.m /\ x.p = v.p
    BY <1>7, <2>1
  <2>3. ModelStands(w.m, x.m) /\ x.m.nextOp = v.m.nextOp /\ x.m.executing = w.m.executing
    BY <1>6, <2>2 DEF Sends
  <2>9. PICK r, o : r = w.a.recipes \cup {Recipe(c)} /\ o = ActiveOperation(c)
    OBVIOUS
  <2>10. PICK a : a = x.a
    OBVIOUS
  <2>11. a = [w.a EXCEPT !.recipes = r, !.ops[id] = o] \/ a = [w.a EXCEPT !.ops[id] = o]
    BY <1>7, <2>1, <2>9, <2>10
  <2>4. a.ops = [w.a.ops EXCEPT ![id] = o] /\ a.deletes = w.a.deletes /\ a.prompt = w.a.prompt
    BY <2>11 DEF Shaped, AppShaped
  <2>5. TablesShaped(w.a)
    BY DEF Tracks, AppTracks
  <2>6. TablesShaped(a) /\ \A i \in Ids : a.ops[i] = w.a.ops[i] \/ (i = id /\ a.ops[i] = o)
    BY SMTT(40), <2>4, <2>5, TablesTrack
  <2>12. /\ TablesShaped(x.a) /\ x.a.prompt = w.a.prompt
         /\ \A i \in Ids : /\ x.a.ops[i] = w.a.ops[i] \/ (c.id = i /\ x.a.ops[i] = ActiveOperation(c))
                         /\ x.a.deletes[i] = w.a.deletes[i]
    BY <1>4, <2>4, <2>6, <2>9, <2>10
  <2>13. x.p = Sent(w.p, c) /\ x.m.nextOp = c.op + 1 /\ v.m.executing = w.m.executing
    BY <1>6, <2>2, <2>3 DEF Sends
  <2>14. c.kind \in Tracked
    BY <1>4 DEF Tracked
  <2>7. Asks(w, c, x)
    BY <1>4, <2>3, <2>12, <2>13, <2>14 DEF Asks
  <2> QED
    BY <2>7, AsksTracks DEF Shaped
<1>9. SubmitBrowseExact(w, id, gen) \in {w, u, x}
  BY <1>1, <1>2, <1>3, <1>7 DEF SubmitBrowseExact, TrySubmit
<1> QED
  BY <1>5, <1>8, <1>9

LEMMA TracksSubmitBrowse ==
    ASSUME NEW w, NEW answers, Shaped(w), Tracks(w, answers), NEW id
    PROVE  Tracks(SubmitBrowse(w, id), answers)
<1>1. SubmitBrowse(w, id) \in {w, SubmitBrowseExact(w, id, w.m.profiles[id].gen)}
  BY DEF SubmitBrowse
<1> QED
  BY <1>1, TracksSubmitBrowseExact

LEMMA TracksRetryRecipe ==
    ASSUME NEW w, NEW answers, Shaped(w), Tracks(w, answers), NEW op, NEW kind
    PROVE  Tracks(RetryRecipe(w, op, kind), answers)
<1>1. PICK v : v = [w EXCEPT !.a.recipes = Without(@, op)]
  OBVIOUS
<1>2. v = [m |-> w.m, a |-> v.a, p |-> w.p] /\ AppShaped(v.a)
  BY <1>1 DEF Shaped, AppShaped, Without
<1>3. Shaped(v)
  BY <1>2 DEF Shaped
<1>4. Tracks(v, answers)
  <2>1. v.a.ops = w.a.ops /\ v.a.deletes = w.a.deletes /\ v.a.prompt = w.a.prompt
    BY <1>1 DEF Shaped, AppShaped
  <2> QED
    BY <1>2, <2>1, TracksRest DEF ModelStands
<1> DEFINE current(r) == r.op = op /\ r.kind = kind /\ ~w.m.uncertain /\ w.m.active[r.id] = r.gen
<1>5. CASE ~\E r \in w.a.recipes : current(r)
  <2>1. RetryRecipe(w, op, kind) = v
    BY <1>1, <1>5 DEF RetryRecipe
  <2> QED
    BY <1>4, <2>1
<1>6. CASE \E r \in w.a.recipes : current(r)
  <2>1. PICK r : r = CHOOSE x \in w.a.recipes : current(x)
    OBVIOUS
  <2>2. r \in w.a.recipes /\ r.kind = kind
    BY <1>6, <2>1
  <2>3. kind \in {"connect", "reconnect", "browse"}
    BY <2>2 DEF Shaped, AppShaped
  <2>4. RetryRecipe(w, op, kind) = IF kind = "browse" THEN SubmitBrowseExact(v, r.id, r.gen)
                                   ELSE SubmitAttempt(v, kind, r.id, r.gen)
    BY <1>1, <1>6, <2>1 DEF RetryRecipe
  <2>5. CASE kind = "browse"
    BY <1>3, <1>4, <2>4, <2>5, TracksSubmitBrowseExact
  <2>6. CASE kind # "browse"
    BY <1>3, <1>4, <2>3, <2>4, <2>6, TracksSubmitAttempt
  <2> QED
    BY <2>5, <2>6
<1> QED
  BY <1>5, <1>6

LEMMA TracksDismiss ==
    ASSUME NEW w, NEW answers, Shaped(w), Tracks(w, answers), NEW f
    PROVE  Tracks(Dismiss(w, f), answers)
<1>1. PICK v : v = Dismiss(w, f)
  OBVIOUS
<1>2. PICK failures : failures = {x \in w.m.failures : x.op # f.op}
  OBVIOUS
<1>3. v.m = [w.m EXCEPT !.failures = failures] /\ v.p = w.p
  BY <1>1, <1>2 DEF Dismiss, Shaped
<1>4. ModelStands(w.m, v.m) /\ v.m.nextOp = w.m.nextOp /\ v.m.executing = w.m.executing
  BY <1>3 DEF Shaped, ModelShaped, ModelStands
<1>5. v.a.ops = w.a.ops /\ v.a.deletes = w.a.deletes /\ v.a.prompt = w.a.prompt
  BY <1>1 DEF Dismiss, Shaped, AppShaped
<1>6. Tracks(v, answers)
  BY <1>3, <1>4, <1>5, TracksRest
<1> QED
  BY <1>1, <1>6

LEMMA TracksRecoverCredential ==
    ASSUME NEW w, NEW answers, Shaped(w), Tracks(w, answers), NEW f
    PROVE  Tracks(RecoverCredential(w, f), answers)
<1>1. \E recipe : RecoverCredential(w, f) \in {w, OpenPrompt(w, f.id, w.m.active[f.id], f.of, recipe)}
  BY DEF RecoverCredential
<1> QED
  BY <1>1, TracksOpenPrompt

\* Only what is neither an operation, a deletion nor a prompt changes.
LEMMA TracksBeside ==
    ASSUME NEW w, NEW answers, Tracks(w, answers), NEW v, v.m = w.m, v.p = w.p,
           v.a.ops = w.a.ops, v.a.deletes = w.a.deletes, v.a.prompt = w.a.prompt
    PROVE  Tracks(v, answers)
BY TracksRest DEF ModelStands

LEMMA TracksEditor ==
    ASSUME NEW w, NEW answers, Shaped(w), Tracks(w, answers), NEW x
    PROVE  Tracks([w EXCEPT !.a.editor = x], answers) /\ Tracks([w EXCEPT !.a.confirm = x], answers)
<1>1. PICK u : u = [w EXCEPT !.a.editor = x]
  OBVIOUS
<1>2. u.m = w.m /\ u.p = w.p /\ u.a.ops = w.a.ops /\ u.a.deletes = w.a.deletes /\ u.a.prompt = w.a.prompt
  BY <1>1 DEF Shaped, AppShaped
<1>3. Tracks(u, answers)
  BY <1>2, TracksBeside
<1>4. PICK v : v = [w EXCEPT !.a.confirm = x]
  OBVIOUS
<1>5. v.m = w.m /\ v.p = w.p /\ v.a.ops = w.a.ops /\ v.a.deletes = w.a.deletes /\ v.a.prompt = w.a.prompt
  BY <1>4 DEF Shaped, AppShaped
<1>6. Tracks(v, answers)
  BY <1>5, TracksBeside
<1> QED
  BY <1>1, <1>3, <1>4, <1>6

LEMMA TracksSubmitSave ==
    ASSUME NEW w, NEW answers, Shaped(w), Tracks(w, answers), NEW body, NEW secret, NEW connect
    PROVE  Tracks(SubmitSave(w, body, secret, connect), answers)
<1>0. PICK kind : kind = IF w.a.editor.mode = "add" THEN "create" ELSE "update"
  OBVIOUS
<1>1. PICK c : c = [Command(w.m, kind, w.a.editor.id, w.a.editor.gen) EXCEPT !.body = body, !.secret = secret]
  OBVIOUS
<1>2. PICK u : u = [w EXCEPT !.m.nextOp = c.op + 1]
  OBVIOUS
<1>3. PICK v : v = [u EXCEPT !.p = Sent(@, c)]
  OBVIOUS
<1>4. c.kind = kind /\ kind # "cancel" /\ c.op = w.m.nextOp
  BY <1>0, <1>1 DEF Command
<1>5. Tracks(u, answers)
  BY <1>2, <1>4, TracksSpent
<1>6. Sends(w, c, v)
  BY <1>2, <1>3, Sending
<1>7. PICK x : x = [v EXCEPT !.a.editor.save = c.op, !.a.editor.connect = connect]
  OBVIOUS
<1>8. v = [m |-> v.m, a |-> w.a, p |-> Sent(w.p, c)] /\ AppShaped(w.a)
  BY <1>6 DEF Sends, Shaped
<1>9. /\ x.m = v.m /\ x.p = Sent(w.p, c)
      /\ x.a.ops = w.a.ops /\ x.a.deletes = w.a.deletes /\ x.a.prompt = w.a.prompt
  <2>1. PICK y : y = [v EXCEPT !.a.editor.save = c.op]
    OBVIOUS
  <2>2. y = [m |-> v.m, a |-> y.a, p |-> Sent(w.p, c)] /\ AppShaped(y.a)
    <3>1. PICK editor : editor = [v.a.editor EXCEPT !.save = c.op]
      OBVIOUS
    <3>0. v.a = w.a /\ EditorShaped(w.a.editor)
      BY <1>8 DEF AppShaped
    <3>2. EditorShaped(editor)
      BY <3>0, <3>1, EditorStays
    <3>3. y = [v EXCEPT !.a.editor = editor]
      BY <1>8, <2>1, <3>1 DEF AppShaped
    <3> QED
      BY <1>8, <3>2, <3>3 DEF AppShaped
  <2>3. y.a.ops = w.a.ops /\ y.a.deletes = w.a.deletes /\ y.a.prompt = w.a.prompt
    BY <1>8, <2>1 DEF AppShaped
  <2>4. x = [y EXCEPT !.a.editor.connect = connect]
    BY <1>7, <2>1
  <2> QED
    BY <2>2, <2>3, <2>4 DEF AppShaped
<1>10. TablesShaped(x.a)
  BY <1>9 DEF Tracks, AppTracks, TablesShaped
<1>11. ModelStands(w.m, x.m) /\ x.m.nextOp = c.op + 1 /\ x.m.executing = w.m.executing
  BY <1>6, <1>9 DEF Sends
<1>12. Asks(w, c, x)
  BY <1>4, <1>9, <1>10, <1>11 DEF Asks
<1>13. Tracks(x, answers)
  BY <1>12, AsksTracks DEF Shaped
<1>14. SubmitSave(w, body, secret, connect) \in {u, x}
  BY <1>0, <1>1, <1>2, <1>3, <1>7 DEF SubmitSave, TrySubmit
<1> QED
  BY <1>5, <1>13, <1>14

\* A deletion keeps the operation it displaces.
LEMMA TablesDelete ==
    ASSUME NEW a, TablesShaped(a), NEW b, b.prompt = a.prompt, NEW id, NEW x,
           b.ops = [a.ops EXCEPT ![id] = x], NEW d, DeleteShaped(d), b.deletes = [a.deletes EXCEPT ![id] = d]
    PROVE  /\ TablesShaped(b)
           /\ \A i \in Ids : b.ops[i] = a.ops[i] \/ (i = id /\ b.ops[i] = x)
           /\ \A i \in Ids : b.deletes[i] = a.deletes[i] \/ (i = id /\ b.deletes[i] = d)
<1>1. b.ops = [i \in Ids |-> b.ops[i]] /\ b.deletes = [i \in Ids |-> b.deletes[i]]
  BY DEF TablesShaped
<1>2. \A i \in Ids : b.ops[i] = a.ops[i] \/ (i = id /\ b.ops[i] = x)
  BY DEF TablesShaped
<1>3. \A i \in Ids : b.deletes[i] = a.deletes[i] \/ (i = id /\ b.deletes[i] = d)
  BY DEF TablesShaped
<1>4. \A i \in Ids : DeleteShaped(b.deletes[i])
  BY <1>3 DEF TablesShaped
<1> QED
  BY <1>1, <1>2, <1>3, <1>4 DEF TablesShaped

LEMMA TracksConfirmDelete ==
    ASSUME NEW w, NEW answers, Shaped(w), Tracks(w, answers)
    PROVE  Tracks(ConfirmDelete(w), answers)
<1>0. PICK id : id = w.a.confirm.id
  OBVIOUS
<1>1. PICK c : c = Command(w.m, "delete", id, w.a.confirm.gen)
  OBVIOUS
<1>2. PICK u : u = [w EXCEPT !.m.nextOp = c.op + 1]
  OBVIOUS
<1>3. PICK v : v = [u EXCEPT !.p = Sent(@, c)]
  OBVIOUS
<1>4. c.kind = "delete" /\ c.op = w.m.nextOp /\ c.id = id
  BY <1>1 DEF Command
<1>5. Tracks(u, answers)
  BY <1>2, <1>4, TracksSpent
<1>6. Sends(w, c, v)
  BY <1>2, <1>3, Sending
<1>7. PICK x : x = [v EXCEPT !.a.confirm = NoConfirmation,
                             !.m.conn[id] = Closing,
                             !.a.ops[id] = ActiveOperation(c),
                             !.a.deletes[id] = [op |-> c.op, gen |-> c.gen, prior |-> w.a.ops[id],
                                                finished |-> FALSE]]
  OBVIOUS
<1>8. Tracks(x, answers)
  <2>1. v.m = [w.m EXCEPT !.nextOp = v.m.nextOp] /\ v.a = w.a /\ v = [m |-> v.m, a |-> v.a, p |-> v.p]
    BY <1>6 DEF Sends
  <2>2. x.m = [v.m EXCEPT !.conn[id] = Closing] /\ x.p = v.p
    BY <1>7, <2>1
  <2>3. ModelStands(w.m, x.m) /\ x.m.nextOp = v.m.nextOp /\ x.m.executing = w.m.executing
    BY <2>1, <2>2 DEF Shaped, ModelShaped, ModelStands
  <2>4. PICK d, o : /\ d = [op |-> c.op, gen |-> c.gen, prior |-> w.a.ops[id], finished |-> FALSE]
                    /\ o = ActiveOperation(c)
    OBVIOUS
  <2>5. PICK a : a = x.a
    OBVIOUS
  <2>6. a = [w.a EXCEPT !.confirm = NoConfirmation, !.ops[id] = o, !.deletes[id] = d]
    BY <1>7, <2>1, <2>4, <2>5
  <2>7. a.ops = [w.a.ops EXCEPT ![id] = o] /\ a.deletes = [w.a.deletes EXCEPT ![id] = d] /\ a.prompt = w.a.prompt
    BY <2>6 DEF Shaped, AppShaped
  <2>8. TablesShaped(w.a) /\ DeleteShaped(d) /\ d.prior = w.a.ops[id]
    BY <2>4 DEF Tracks, AppTracks, DeleteShaped
  <2>9. /\ TablesShaped(a)
        /\ \A i \in Ids : a.ops[i] = w.a.ops[i] \/ (i = id /\ a.ops[i] = o)
        /\ \A i \in Ids : a.deletes[i] = w.a.deletes[i] \/ (i = id /\ a.deletes[i] = d)
    BY <2>7, <2>8, TablesDelete
  <2>10. /\ TablesShaped(x.a) /\ x.a.prompt = w.a.prompt
         /\ \A i \in Ids : /\ x.a.ops[i] = w.a.ops[i] \/ (c.id = i /\ x.a.ops[i] = ActiveOperation(c))
                           /\ x.a.deletes[i] = w.a.deletes[i] \/ x.a.deletes[i].prior = w.a.ops[i]
    BY <1>4, <2>4, <2>5, <2>7, <2>8, <2>9
  <2>11. x.p = Sent(w.p, c) /\ x.m.nextOp = c.op + 1
    BY <1>6, <2>2, <2>3 DEF Sends
  <2>12. Asks(w, c, x)
    BY <1>4, <2>3, <2>10, <2>11 DEF Asks, Tracked
  <2> QED
    BY <2>12, AsksTracks DEF Shaped
<1>9. PICK y : y = [w EXCEPT !.a.confirm = NoConfirmation]
  OBVIOUS
<1>10. Tracks(y, answers)
  BY <1>9, TracksEditor
<1>11. ConfirmDelete(w) \in {y, u, x}
  BY <1>0, <1>1, <1>2, <1>3, <1>7, <1>9 DEF ConfirmDelete, TrySubmit
<1> QED
  BY <1>5, <1>8, <1>10, <1>11

LEMMA TracksEndFrame ==
    ASSUME NEW w, NEW answers, Shaped(w), Tracks(w, answers)
    PROVE  Tracks(EndFrame(w), answers)
<1> DEFINE current(x, i) == w.m.active[i] # NoGen /\ x.gen = w.m.active[i]
<1>1. PICK a : a = [w.a EXCEPT
                !.ops = [i \in Ids |-> IF current(@[i], i) THEN @[i] ELSE Idle],
                !.deletes = [i \in Ids |-> IF current(@[i], i) THEN @[i] ELSE NoDelete],
                !.recipes = {r \in @ : current(r, r.id)},
                !.editor = IF @ = NoEditor THEN @ ELSE [@ EXCEPT !.uncertain = w.m.uncertain]]
  OBVIOUS
<1>2. PICK v : v = [w EXCEPT !.a = a]
  OBVIOUS
<1>3. v = [m |-> w.m, a |-> a, p |-> w.p]
  BY <1>2 DEF Shaped
<1>4. AppShaped(a)
  <2>1. PICK editor : editor = IF w.a.editor = NoEditor THEN w.a.editor
                               ELSE [w.a.editor EXCEPT !.uncertain = w.m.uncertain]
    OBVIOUS
  <2>2. EditorShaped(editor)
    BY <2>1, EditorStays DEF Shaped, AppShaped
  <2>3. a.editor = editor /\ \A r \in a.recipes : r \in w.a.recipes
    BY <1>1, <2>1 DEF Shaped, AppShaped
  <2>4. a = [ops |-> a.ops, deletes |-> a.deletes, recipes |-> a.recipes, prompt |-> a.prompt, error |-> a.error,
             confirm |-> a.confirm, editor |-> a.editor, followUp |-> a.followUp]
    BY <1>1 DEF Shaped, AppShaped
  <2> QED
    BY <2>2, <2>3, <2>4 DEF Shaped, AppShaped
<1>5. Shaped(v)
  BY <1>3, <1>4 DEF Shaped
<1>6. /\ a.ops = [i \in Ids |-> IF current(w.a.ops[i], i) THEN w.a.ops[i] ELSE Idle]
      /\ a.deletes = [i \in Ids |-> IF current(w.a.deletes[i], i) THEN w.a.deletes[i] ELSE NoDelete]
      /\ a.prompt = w.a.prompt
  BY <1>1 DEF Shaped, AppShaped
<1>7. \A i \in Ids : a.ops[i] \in {w.a.ops[i], Idle} /\ a.deletes[i] \in {w.a.deletes[i], NoDelete}
  BY <1>6
<1>8. TablesShaped(w.a) /\ DeleteShaped(NoDelete)
  BY DEF Tracks, AppTracks, DeleteShaped, NoDelete
<1>9. TablesShaped(a)
  <2>1. a.ops = [i \in Ids |-> a.ops[i]] /\ a.deletes = [i \in Ids |-> a.deletes[i]]
    BY <1>6
  <2>2. \A i \in Ids : DeleteShaped(a.deletes[i])
    BY <1>7, <1>8 DEF TablesShaped
  <2> QED
    BY <1>6, <1>8, <2>1, <2>2 DEF TablesShaped
<1>10. w.m.nextOp \in Nat
  BY DEF Tracks, ModelTracks, OperationsNumbered
<1>11. Rests(w, v)
  BY <1>3, <1>6, <1>7, <1>9, <1>10 DEF Rests, ModelStands
<1>12. Tracks(v, answers)
  BY <1>11, RestsTracks
<1>13. EndFrame(w) \in {v, CancelPrompt(v)}
  BY <1>1, <1>2 DEF EndFrame
<1> QED
  BY <1>5, <1>12, <1>13, TracksCancelPrompt

-----------------------------------------------------------------------------
(* Steps of the window                                                     *)

\* Behind the port all stays as it is.
LEMMA TracksStill ==
    ASSUME NEW w, NEW answers, Tracks(w, answers), UNCHANGED <<tasks, mutation, service>>
    PROVE  AppTracks(w, answers)' /\ ModelTracks(w, answers)'
<1>1. \A kind, op, id, gen : Running(kind, op, id, gen)' <=> Running(kind, op, id, gen)
  BY DEF Running
<1>2. \A p, kind, op, id, gen : Under(p, answers, kind, op, id, gen)' <=> Under(p, answers, kind, op, id, gen)
  BY <1>1 DEF Under
<1>3. AppTracks(w, answers)'
  BY <1>2 DEF Tracks, AppTracks, PromptLives, OperationLives, PriorLives
<1>4. OperationsNumbered(w, answers)'
  BY DEF Tracks, ModelTracks, OperationsNumbered, MutationsAbove
<1>5. Warnings(w.m, answers)'
  BY DEF Tracks, ModelTracks, Warnings
<1>6. ASSUME NEW x \in w.m.executing PROVE Executing(w, answers, x)'
  <2>1. Executing(w, answers, x)
    BY <1>6 DEF Tracks, ModelTracks
  <2> QED
    BY <1>2, <2>1 DEF Executing
<1>7. ModelTracks(w, answers)'
  BY <1>4, <1>5, <1>6 DEF Tracks, ModelTracks, job
<1> QED
  BY <1>3, <1>7

LEMMA WorldTracks ==
    ASSUME TrackInv
    PROVE  Tracks(World, events)
BY DEF TrackInv, Tracks

LEMMA TrackBecomes ==
    ASSUME NEW v, Shaped(v), Become(v), NEW answers, answers = events', Tracks(v, answers),
           UNCHANGED <<tasks, mutation, service>>
    PROVE  TrackInv'
<1>1. World' = v
  BY DEF Become, World, Shaped
<1>2. AppTracks(v, answers)' /\ ModelTracks(v, answers)'
  BY TracksStill
<1> QED
  BY <1>1, <1>2 DEF TrackInv

LEMMA PressTracks ==
    ASSUME WindowInv, NEW button, NEW v, Press(button, v), Tracks(v, events), Shaped(v)
    PROVE  TrackInv'
<1>1. PICK answers : answers = events
  OBVIOUS
<1>2. Become(v) /\ answers = events' /\ UNCHANGED <<tasks, mutation, service>>
  BY <1>1 DEF Press, behind
<1> QED
  BY <1>1, <1>2, TrackBecomes

LEMMA FinishFrameTracks ==
    ASSUME WindowInv, TrackInv, FinishFrame
    PROVE  TrackInv'
<1>1. PICK v : v = EndFrame(World)
  OBVIOUS
<1>2. Shaped(v)
  BY <1>1, WorldOf, CalmEndFrame DEF Calm
<1>3. PICK answers : answers = events
  OBVIOUS
<1>4. Tracks(v, answers)
  BY <1>1, <1>3, WorldOf, WorldTracks, TracksEndFrame
<1>5. Become(v) /\ answers = events' /\ UNCHANGED <<tasks, mutation, service>>
  BY <1>1, <1>3 DEF FinishFrame, behind
<1> QED
  BY <1>2, <1>4, <1>5, TrackBecomes

\* Calm and tracked
Follows(w, v, answers) == Calm(w, v) /\ Tracks(v, answers)

LEMMA FollowsTracks ==
    ASSUME WindowInv, NEW button, NEW v, Press(button, v), Follows(World, v, events)
    PROVE  TrackInv'
BY PressTracks DEF Follows, Calm

LEMMA RecoverTracks ==
    ASSUME WindowInv, TrackInv, NEW f, Recover(f)
    PROVE  TrackInv'
<1>0. PICK w : w = World
  OBVIOUS
<1>1. Shaped(w) /\ Tracks(w, events)
  BY <1>0, WorldOf, WorldTracks
<1>2. Follows(w, RetryRecipe(w, f.op, f.of), events)
  BY <1>1, CalmRetryRecipe, TracksRetryRecipe DEF Follows
<1>3. Follows(w, RecoverCredential(w, f), events)
  BY <1>1, CalmRecoverCredential, TracksRecoverCredential DEF Follows
<1>4. Follows(w, SubmitReconnect(w, f.id), events)
  BY <1>1, CalmSubmitReconnect, TracksSubmitReconnect DEF Follows
<1>5. Follows(w, Dismiss(w, f), events)
  BY <1>1, CalmDismiss, TracksDismiss DEF Follows
<1>6. PICK button, v : Press(button, v) /\ v \in {RetryRecipe(w, f.op, f.of), RecoverCredential(w, f),
                                                   SubmitReconnect(w, f.id), Dismiss(w, f)}
  BY <1>0 DEF Recover
<1>7. Follows(World, v, events)
  BY <1>0, <1>2, <1>3, <1>4, <1>5, <1>6
<1> QED
  BY <1>6, <1>7, FollowsTracks

LEMMA UserTracks ==
    ASSUME WindowInv, TrackInv, User
    PROVE  TrackInv'
<1>0. PICK w : w = World
  OBVIOUS
<1>00. Shaped(w) /\ Tracks(w, events) /\ w.m = model
  BY <1>0, WorldOf, WorldTracks DEF World
<1>1. ASSUME NEW id \in Ids, CardAction(id)
      PROVE  TrackInv'
  <2>1. Follows(w, OpenEditor(w, id), events)
    BY <1>00, CalmOpenEditor, TracksEditor DEF OpenEditor, Follows
  <2>2. Follows(w, OpenDelete(w, id), events)
    BY <1>00, CalmConfirm, CalmStays, TracksEditor DEF OpenDelete, Follows
  <2>3. Follows(w, SubmitTest(w, id), events)
    BY <1>00, CalmSubmitTest, TracksSubmitTest DEF Follows
  <2>4. Follows(w, OpenSessionPrompt(w, id), events)
    BY <1>00, CalmOpenSessionPrompt, TracksOpenSessionPrompt DEF Follows
  <2>5. Follows(w, SubmitDisconnect(w, id), events)
    BY <1>00, CalmSubmitDisconnect, TracksSubmitDisconnect DEF Follows
  <2>6. Follows(w, SubmitReconnect(w, id), events)
    BY <1>00, CalmSubmitReconnect, TracksSubmitReconnect DEF Follows
  <2>7. PICK button, v : Press(button, v) /\ v \in {OpenEditor(w, id), OpenDelete(w, id), SubmitTest(w, id),
            OpenSessionPrompt(w, id), SubmitDisconnect(w, id), SubmitReconnect(w, id)}
    BY <1>0, <1>1 DEF CardAction
  <2>8. Follows(World, v, events)
    BY <1>0, <2>1, <2>2, <2>3, <2>4, <2>5, <2>6, <2>7
  <2> QED
    BY <2>7, <2>8, FollowsTracks
<1>2. ASSUME NEW id \in Ids, WorkAction(id)
      PROVE  TrackInv'
  <2>1. Follows(w, SubmitExecute(w, id), events)
    <3>1. w.m.profiles[id] # NoProfile
      BY <1>00, <1>2 DEF WorkAction
    <3> QED
      BY <1>00, <3>1, CalmSubmitExecute, TracksSubmitExecute DEF Follows
  <2>2. \A op : Follows(w, SubmitCancel(w, op), events)
    BY <1>00, CalmSubmitCancel, TracksSubmitCancel DEF Follows
  <2>3. Follows(w, SubmitBrowse(w, id), events)
    BY <1>00, CalmSubmitBrowse, TracksSubmitBrowse DEF Follows
  <2>4. PICK button, v : /\ Press(button, v)
                         /\ v \in {SubmitExecute(w, id), SubmitBrowse(w, id)} \/ \E op : v = SubmitCancel(w, op)
    BY <1>0, <1>2 DEF WorkAction
  <2>5. Follows(World, v, events)
    BY <1>0, <2>1, <2>2, <2>3, <2>4
  <2> QED
    BY <2>4, <2>5, FollowsTracks
<1>3. CASE EditorAction
  <2>1. CASE Press("Add", NewEditor(World))
    <3>1. Follows(w, NewEditor(w), events)
      BY <1>00, CalmNewEditor, TracksEditor DEF NewEditor, Follows
    <3> QED
      BY <1>0, <2>1, <3>1, FollowsTracks
  <2>2. ASSUME NEW body \in scenario.bodies, NEW connect \in BOOLEAN, NEW secret, NEW button,
               Press(button, SubmitSave(World, body, secret, connect))
        PROVE  TrackInv'
    <3>1. body # NoBody
      BY WindowAssumption DEF WindowInv, Backstage
    <3>2. Follows(w, SubmitSave(w, body, secret, connect), events)
      BY <1>00, <3>1, CalmSubmitSave, TracksSubmitSave DEF Follows
    <3> QED
      BY <1>0, <2>2, <3>2, FollowsTracks
  <2>3. CASE Press("CancelEdit", CancelEditor(World))
    <3>1. Follows(w, CancelEditor(w), events)
      BY <1>00, CalmCancelEditor, CalmStays, TracksEditor DEF CancelEditor, Follows
    <3> QED
      BY <1>0, <2>3, <3>1, FollowsTracks
  <2> QED
    BY <1>3, <2>1, <2>2, <2>3 DEF EditorAction
<1>4. CASE DialogAction
  <2>1. Follows(w, ConfirmDelete(w), events)
    BY <1>00, CalmConfirmDelete, TracksConfirmDelete DEF Follows
  <2>2. Follows(w, [w EXCEPT !.a.confirm = NoConfirmation], events)
    BY <1>00, CalmConfirm, TracksEditor DEF Follows
  <2>3. Follows(w, SubmitPrompt(w), events)
    BY <1>00, CalmSubmitPrompt, TracksSubmitPrompt DEF Follows
  <2>4. Follows(w, CancelPrompt(w), events)
    BY <1>00, CalmCancelPrompt, TracksCancelPrompt DEF Follows
  <2>5. PICK button, v : Press(button, v) /\ v \in {ConfirmDelete(w), [w EXCEPT !.a.confirm = NoConfirmation],
                                                     SubmitPrompt(w), CancelPrompt(w)}
    BY <1>0, <1>4 DEF DialogAction
  <2>6. Follows(World, v, events)
    BY <1>0, <2>1, <2>2, <2>3, <2>4, <2>5
  <2> QED
    BY <2>5, <2>6, FollowsTracks
<1>5. CASE RecoveryAction
  <2>1. CASE Press("Reload", SubmitRefresh(World))
    <3>1. Follows(w, SubmitRefresh(w), events)
      BY <1>00, CalmSubmitRefresh, TracksSubmitRefresh DEF Follows
    <3> QED
      BY <1>0, <2>1, <3>1, FollowsTracks
  <2> QED
    BY <1>5, <2>1, RecoverTracks DEF RecoveryAction
<1> QED
  BY <1>1, <1>2, <1>3, <1>4, <1>5 DEF User

-----------------------------------------------------------------------------
(* Behind the port.  What is asked for is carried on: it stays queued,     *)
(* runs, or is answered.                                                   *)

Carried ==
    \A kind, op, id, gen : Named(kind, id) \/ kind = "store" =>
        (Under(port, events, kind, op, id, gen) => Under(port, events, kind, op, id, gen)')

LEMMA CarriedApp ==
    ASSUME TrackInv, UNCHANGED <<model, app>>, Carried
    PROVE  AppTracks(World, events)'
<1>0. AppTracks(World, events) /\ World.p = port /\ World.a = app /\ World'.a = app /\ World'.p = port'
  BY DEF TrackInv, World
<1>1. ASSUME NEW i \in Ids PROVE OperationLives(World, events, i)'
  <2>1. PICK x : x = app.ops[i]
    OBVIOUS
  <2>2. KindKnown(x) /\ (Named(x.kind, i) => Under(port, events, x.kind, x.op, i, x.gen))
    BY <1>0, <1>1, <2>1 DEF AppTracks, OperationLives
  <2>3. Named(x.kind, i) => Under(port, events, x.kind, x.op, i, x.gen)'
    BY <2>2 DEF Carried
  <2> QED
    BY <1>0, <2>1, <2>2, <2>3 DEF OperationLives, KindKnown
<1>2. ASSUME NEW i \in Ids PROVE PriorLives(World, events, i)'
  <2>1. PICK d : d = app.deletes[i]
    OBVIOUS
  <2>2. /\ KindKnown(d.prior)
        /\ ~d.finished /\ Named(d.prior.kind, i) => Under(port, events, d.prior.kind, d.prior.op, i, d.prior.gen)
    BY <1>0, <1>2, <2>1 DEF AppTracks, PriorLives
  <2>3. ~d.finished /\ Named(d.prior.kind, i) => Under(port, events, d.prior.kind, d.prior.op, i, d.prior.gen)'
    BY <2>2 DEF Carried
  <2> QED
    BY <1>0, <2>1, <2>2, <2>3 DEF PriorLives, KindKnown
<1>3. PromptLives(World, events)'
  <2>1. PICK x : x = app.prompt
    OBVIOUS
  <2>2. x.store # 0 => Under(port, events, "store", x.store, x.id, x.gen)
    BY <1>0, <2>1 DEF AppTracks, PromptLives
  <2>3. x.store # 0 => Under(port, events, "store", x.store, x.id, x.gen)'
    BY <2>2 DEF Carried
  <2> QED
    BY <1>0, <2>1, <2>3 DEF PromptLives
<1>4. TablesShaped(World.a)'
  BY <1>0 DEF AppTracks
<1> QED
  BY <1>1, <1>2, <1>3, <1>4 DEF AppTracks

\* The window will hear of an uncertain configuration, or has.
Settles == service.uncertain \/ Warned(model, events, 0)

LEMMA CarriedExecuting ==
    ASSUME TrackInv, UNCHANGED <<model, app>>, Carried, Settles => Settles' \/ model.executing = {}
    PROVE  \A x \in model.executing : Executing(World, events, x)'
<1>0. World.p = port /\ World.m = model /\ World'.m = model /\ World'.p = port'
  BY DEF World
<1>1. SUFFICES ASSUME NEW x \in model.executing PROVE Executing(World, events, x)'
  OBVIOUS
<1>2. Executing(World, events, x)
  BY <1>0 DEF TrackInv, ModelTracks
<1>3. x.gen = model.active[x.id] => Under(port, events, "execute", x.op, x.id, x.gen) \/ Settles
  BY <1>0, <1>2 DEF Executing, Settles
<1>4. Under(port, events, "execute", x.op, x.id, x.gen) => Under(port, events, "execute", x.op, x.id, x.gen)'
  BY DEF Carried, Named
<1>5. x.gen = model.active[x.id] => Under(port, events, "execute", x.op, x.id, x.gen)' \/ Settles'
  BY <1>3, <1>4
<1> QED
  BY <1>0, <1>2, <1>5 DEF Executing, Settles

ProfilesTold ==
    /\ \A k \in 1..Len(events) : IsLoad(events[k]) => ProfilesNamed(events[k].profiles)
    /\ mutation.pc \in {"published", "join"} /\ ~service.uncertain /\ job.kind = "refresh" => ProfilesNamed(mutation.profiles)

LEMMA BehindTracks ==
    ASSUME TrackInv, UNCHANGED <<model, app>>, Carried, Settles => Settles' \/ model.executing = {},
           OperationsNumbered(World, events)', Warnings(model, events)', ProfilesTold'
    PROVE  TrackInv'
<1>1. AppTracks(World, events)'
  BY CarriedApp
<1>2. \A x \in model.executing : Executing(World, events, x)'
  BY CarriedExecuting
<1>3. World.m = model /\ World'.m = model
  BY DEF World
<1>4. ProfilesNamed(model.profiles) /\ (model.uncertain => model.executing = {})
  BY <1>3 DEF TrackInv, ModelTracks
<1>5. ModelTracks(World, events)'
  BY <1>2, <1>3, <1>4 DEF ModelTracks, ProfilesTold
<1> QED
  BY <1>1, <1>5 DEF TrackInv

-----------------------------------------------------------------------------
(* Warnings when the queue of answers grows                                *)

LEMMA WarnedGrows ==
    ASSUME NEW m, NEW answers, Queue(answers), NEW e, NEW more, more = Append(answers, e),
           NEW n \in Nat, n <= Len(answers) + 1
    PROVE  /\ Warned(m, answers, n) => Warned(m, more, n)
           /\ Aware(m, answers, n) => Aware(m, more, n)
           /\ ~IsLoad(e) /\ Warned(m, answers, Len(answers) + 1) => Warned(m, more, Len(more) + 1)
           /\ ~IsLoad(e) /\ Aware(m, answers, Len(answers) + 1) => Aware(m, more, Len(more) + 1)
<1>1. /\ Len(answers) \in Nat /\ Len(more) = Len(answers) + 1 /\ more[Len(answers) + 1] = e
      /\ \A k \in 1..Len(answers) : more[k] = answers[k] /\ k \in 1..Len(more)
  BY QueueGrows DEF Queue
<1>2. PICK L \in Nat : L = Len(answers) /\ Len(more) = L + 1 /\ more[L + 1] = e
  BY <1>1
<1>3. \A k \in 1..(L + 1) : k \in 1..L \/ k = L + 1
  BY <1>2
<1>4. ASSUME Warned(m, answers, n) PROVE Warned(m, more, n)
  <2>1. PICK q \in 1..Len(answers) : Warning(m, answers, q, n)
    BY <1>4 DEF Warned
  <2>2. Warning(m, more, q, n)
    <3>1. \A k \in 1..Len(more) : k < q \/ k < n => k \in 1..Len(answers) /\ more[k] = answers[k]
      BY <1>1, <1>2, <1>3
    <3>2. q \in 1..Len(more) /\ more[q] = answers[q]
      BY <1>1
    <3> QED
      BY <2>1, <3>1, <3>2 DEF Warning
  <2> QED
    BY <1>1, <2>2 DEF Warned
<1>5. ASSUME Aware(m, answers, n) PROVE Aware(m, more, n)
  <2>1. \A k \in 1..Len(more) : k < n => k \in 1..Len(answers) /\ more[k] = answers[k]
    BY <1>1, <1>2, <1>3
  <2> QED
    BY <1>5, <2>1 DEF Aware
<1>6. ASSUME ~IsLoad(e), Warned(m, answers, Len(answers) + 1) PROVE Warned(m, more, Len(more) + 1)
  <2>1. PICK q \in 1..Len(answers) : Warning(m, answers, q, Len(answers) + 1)
    BY <1>6 DEF Warned
  <2>2. \A k \in 1..Len(more) : IsLoad(more[k]) => k \in 1..Len(answers) /\ more[k] = answers[k] /\ k < Len(answers) + 1
    BY <1>1, <1>2, <1>3, <1>6
  <2>3. q \in 1..Len(more) /\ more[q] = answers[q]
    BY <1>1
  <2>4. Warning(m, more, q, Len(more) + 1)
    BY <2>1, <2>2, <2>3 DEF Warning
  <2> QED
    BY <2>3, <2>4 DEF Warned
<1>7. ASSUME ~IsLoad(e), Aware(m, answers, Len(answers) + 1) PROVE Aware(m, more, Len(more) + 1)
  <2>1. \A k \in 1..Len(more) : IsLoad(more[k]) => k \in 1..Len(answers) /\ more[k] = answers[k] /\ k < Len(answers) + 1
    BY <1>1, <1>2, <1>3, <1>7
  <2> QED
    BY <1>7, <2>1 DEF Aware
<1> QED
  BY <1>4, <1>5, <1>6, <1>7

\* Knowing more than is needed
LEMMA WarnedEarlier ==
    ASSUME NEW m, NEW answers, Queue(answers)
    PROVE  /\ Warned(m, answers, Len(answers) + 1) => Warned(m, answers, 0)
           /\ \A p \in 1..Len(answers) : Warned(m, answers, Len(answers) + 1) => Warned(m, answers, p)
           /\ \A p \in 1..Len(answers) : Aware(m, answers, Len(answers) + 1) => Aware(m, answers, p)
<1>1. Len(answers) \in Nat
  BY DEF Queue
<1>2. \A k \in 1..Len(answers) : k < Len(answers) + 1
  BY <1>1
<1>3. ASSUME NEW n, NEW q \in 1..Len(answers), Warning(m, answers, q, Len(answers) + 1) PROVE Warning(m, answers, q, n)
  BY <1>2, <1>3 DEF Warning
<1>4. \A p \in 1..Len(answers) : Aware(m, answers, Len(answers) + 1) => Aware(m, answers, p)
  BY <1>2 DEF Aware
<1> QED
  BY <1>3, <1>4 DEF Warned

-----------------------------------------------------------------------------
(* A step that makes no change to the configuration: it is silent, or it   *)
(* answers.                                                                *)

LanesShrink ==
    /\ LanesNumbered(port', model.nextOp)
    /\ \A k \in 1..Len(port'.mutation) : \E j \in 1..Len(port.mutation) : port'.mutation[k] = port.mutation[j]

\* An answer that brings no configuration; that it is uncertain is true.
Mild(e) == ~IsLoad(e) /\ (IsUncertain(e) => service.uncertain /\ e.op \in Nat /\ e.op < model.nextOp)

Silent == events' = events
Replying(e) == Mild(e) /\ events' = Append(events, e)

LEMMA NumberedStays ==
    ASSUME WindowInv, TrackInv, UNCHANGED model, LanesShrink,
           mutation'.pc # "none" => mutation.pc # "none" /\ mutation'.command.op = mutation.command.op,
           Silent \/ \E e : Replying(e)
    PROVE  OperationsNumbered(World, events)'
<1>0. World.m = model /\ World'.m = model /\ World.p = port /\ World'.p = port'
  BY DEF World
<1>1. OperationsNumbered(World, events)
  BY DEF TrackInv, ModelTracks
<1>2. model.nextOp \in Nat /\ model.lastLoad \in Nat /\ model.lastLoad < model.nextOp /\ model.uncertain \in BOOLEAN
  BY <1>0, <1>1 DEF OperationsNumbered
<1>3. mutation'.pc # "none" => /\ mutation'.command.op \in Nat /\ mutation'.command.op < model.nextOp
                               /\ \A k \in 1..Len(port'.mutation) : mutation'.command.op < port'.mutation[k].op
  <2>1. mutation.pc # "none" => /\ mutation.command.op \in Nat /\ mutation.command.op < model.nextOp
                                /\ \A k \in 1..Len(port.mutation) : mutation.command.op < port.mutation[k].op
    BY <1>0, <1>1 DEF OperationsNumbered
  <2> QED
    BY <2>1 DEF LanesShrink
<1>4. ASSUME NEW n, MutationsAbove(port, n) PROVE MutationsAbove(port, n)'
  BY <1>4 DEF MutationsAbove, LanesShrink
<1>5. ASSUME NEW k \in 1..Len(events')
      PROVE  \/ k \in 1..Len(events) /\ events'[k] = events[k]
             \/ Mild(events'[k])
  <2>1. CASE Silent
    BY <1>5, <2>1 DEF Silent
  <2>2. ASSUME NEW e, Replying(e) PROVE (k \in 1..Len(events) /\ events'[k] = events[k]) \/ Mild(events'[k])
    <3>1. /\ Len(events) \in Nat /\ Len(events') = Len(events) + 1 /\ events'[Len(events) + 1] = e
          /\ \A j \in 1..Len(events) : events'[j] = events[j]
      BY <2>2, QueueGrows DEF WindowInv, Answering, Queue, Replying
    <3>2. k \in 1..Len(events) \/ k = Len(events) + 1
      BY <1>5, <3>1
    <3> QED
      BY <2>2, <3>1, <3>2 DEF Replying
  <2> QED
    BY <2>1, <2>2
<1>6. \A k \in 1..Len(events') : IsLoad(events'[k]) \/ IsUncertain(events'[k]) =>
          events'[k].op \in Nat /\ events'[k].op < model.nextOp
  BY <1>0, <1>1, <1>5 DEF OperationsNumbered, Mild
<1>7. ASSUME NEW k \in 1..Len(events'), IsLoad(events'[k]) PROVE MutationsAbove(port, events[k].op)'
  <2>1. k \in 1..Len(events) /\ events'[k] = events[k]
    BY <1>5, <1>7 DEF Mild
  <2>2. PICK n : n = events[k].op
    OBVIOUS
  <2>3. MutationsAbove(port, n)
    BY <1>0, <1>1, <1>7, <2>1, <2>2 DEF OperationsNumbered
  <2>4. MutationsAbove(port, n)'
    BY <1>4, <2>3
  <2> QED
    BY <2>1, <2>2, <2>4
<1>8. ~model.uncertain => MutationsAbove(port, model.lastLoad)'
  <2>1. PICK n : n = model.lastLoad
    OBVIOUS
  <2>2. ~model.uncertain => MutationsAbove(port, n)
    BY <1>0, <1>1, <2>1 DEF OperationsNumbered
  <2>3. ~model.uncertain => MutationsAbove(port, n)'
    BY <1>4, <2>2
  <2> QED
    BY <2>1, <2>3
<1>9. LanesNumbered(port', model.nextOp)
  BY DEF LanesShrink
<1> QED
  BY <1>0, <1>2, <1>3, <1>6, <1>7, <1>8, <1>9 DEF OperationsNumbered, IsLoad, IsUncertain

LEMMA WarningsStay ==
    ASSUME WindowInv, TrackInv, UNCHANGED model, service'.uncertain = service.uncertain,
           service.uncertain /\ mutation'.pc \in {"none", "run"} => mutation.pc \in {"none", "run"},
           Silent \/ \E e : Replying(e)
    PROVE  Warnings(model, events)' /\ (Settles => Settles')
<1>0. Warnings(model, events) /\ Queue(events)
  BY DEF TrackInv, ModelTracks, World, WindowInv, Answering
<1>1. CASE Silent
  BY <1>0, <1>1 DEF Silent, Warnings, Settles
<1>2. ASSUME NEW e, Replying(e) PROVE Warnings(model, events)' /\ (Settles => Settles')
  <2>1. PICK more : more = events'
    OBVIOUS
  <2>2. /\ Len(events) \in Nat /\ Len(more) = Len(events) + 1 /\ more[Len(events) + 1] = e
        /\ \A k \in 1..Len(events) : more[k] = events[k]
    BY <1>0, <1>2, <2>1, QueueGrows DEF Queue, Replying
  <2>3. more = Append(events, e) /\ Mild(e)
    BY <1>2, <2>1 DEF Replying
  <2>5. /\ Warned(model, events, Len(events) + 1) => Warned(model, more, Len(more) + 1)
        /\ Aware(model, events, Len(events) + 1) => Aware(model, more, Len(more) + 1)
    <3>1. 0 \in Nat /\ 0 <= Len(events) + 1
      BY <2>2
    <3> QED
      BY <1>0, <2>3, <3>1, WarnedGrows DEF Mild
  <2>6. service.uncertain /\ mutation'.pc \in {"none", "run"} =>
          Warned(model, more, Len(more) + 1) \/ Aware(model, more, Len(more) + 1)
    BY <1>0, <2>5 DEF Warnings
  <2>7. ASSUME NEW p \in 1..Len(more), IsUncertain(more[p])
        PROVE  service.uncertain \/ Warned(model, more, p) \/ Aware(model, more, p)
    <3>1. CASE p \in 1..Len(events)
      <4>1. more[p] = events[p] /\ p \in Nat /\ p <= Len(events) + 1
        BY <2>2, <3>1
      <4>2. service.uncertain \/ Warned(model, events, p) \/ Aware(model, events, p)
        BY <1>0, <2>7, <3>1, <4>1 DEF Warnings
      <4>3. /\ Warned(model, events, p) => Warned(model, more, p)
            /\ Aware(model, events, p) => Aware(model, more, p)
        BY <1>0, <2>3, <4>1, WarnedGrows
      <4> QED
        BY <4>2, <4>3
    <3>2. CASE p = Len(events) + 1
      BY <2>2, <2>3, <2>7, <3>2 DEF Mild
    <3> QED
      BY <2>2, <2>7, <3>1, <3>2
  <2>8. Warnings(model, events)'
    BY <2>1, <2>6, <2>7 DEF Warnings, IsUncertain
  <2>9. Settles => Settles'
    <3>1. 0 \in Nat /\ 0 <= Len(events) + 1
      BY <2>2
    <3>2. Warned(model, events, 0) => Warned(model, more, 0)
      BY <1>0, <2>3, <3>1, WarnedGrows
    <3> QED
      BY <2>1, <3>2 DEF Settles
  <2> QED
    BY <2>8, <2>9
<1> QED
  BY <1>1, <1>2

LEMMA ToldStays ==
    ASSUME WindowInv, TrackInv, service'.uncertain = service.uncertain,
           mutation'.pc \in {"published", "join"} =>
               /\ mutation.pc \in {"published", "join"} /\ mutation'.command = mutation.command
               /\ mutation'.profiles = mutation.profiles,
           Silent \/ \E e : Replying(e)
    PROVE  ProfilesTold'
<1>1. ProfilesTold
  BY DEF TrackInv, ModelTracks, ProfilesTold
<1>2. ASSUME NEW k \in 1..Len(events'), IsLoad(events'[k])
      PROVE  k \in 1..Len(events) /\ events'[k] = events[k]
  <2>1. CASE Silent
    BY <1>2, <2>1 DEF Silent
  <2>2. ASSUME NEW e, Replying(e) PROVE k \in 1..Len(events) /\ events'[k] = events[k]
    <3>1. /\ Len(events) \in Nat /\ Len(events') = Len(events) + 1 /\ events'[Len(events) + 1] = e
          /\ \A j \in 1..Len(events) : events'[j] = events[j]
      BY <2>2, QueueGrows DEF WindowInv, Answering, Queue, Replying
    <3>2. k \in 1..Len(events) \/ k = Len(events) + 1
      BY <1>2, <3>1
    <3> QED
      BY <1>2, <2>2, <3>1, <3>2 DEF Replying, Mild
  <2> QED
    BY <2>1, <2>2
<1>3. \A k \in 1..Len(events') : IsLoad(events'[k]) => ProfilesNamed(events'[k].profiles)
  BY <1>1, <1>2 DEF ProfilesTold
<1>4. (mutation.pc \in {"published", "join"} /\ ~service.uncertain /\ job.kind = "refresh" => ProfilesNamed(mutation.profiles))'
  BY <1>1 DEF ProfilesTold, job, ProfilesNamed
<1> QED
  BY <1>3, <1>4 DEF ProfilesTold, IsLoad, ProfilesNamed

\* Nothing but the lanes, the tasks and the answers changes.
LEMMA WorkTracks ==
    ASSUME WindowInv, TrackInv, UNCHANGED <<window, mutation>>, service'.uncertain = service.uncertain,
           LanesShrink, Carried, Silent \/ \E e : Replying(e)
    PROVE  TrackInv'
<1>1. UNCHANGED <<model, app>>
  BY DEF window
<1>2. OperationsNumbered(World, events)'
  BY <1>1, NumberedStays
<1>3. Warnings(model, events)' /\ (Settles => Settles')
  BY <1>1, WarningsStay
<1>4. ProfilesTold'
  BY ToldStays
<1> QED
  BY <1>1, <1>2, <1>3, <1>4, BehindTracks

\* A mutation that has not begun ends.
LEMMA MutationTracks ==
    ASSUME WindowInv, TrackInv, UNCHANGED window, mutation.pc = "run", mutation'.pc = "none",
           service'.uncertain = service.uncertain, LanesShrink, Carried, Silent \/ \E e : Replying(e)
    PROVE  TrackInv'
<1>1. UNCHANGED <<model, app>>
  BY DEF window
<1>2. OperationsNumbered(World, events)'
  BY <1>1, NumberedStays
<1>3. Warnings(model, events)' /\ (Settles => Settles')
  BY <1>1, WarningsStay
<1>4. ProfilesTold'
  BY ToldStays
<1> QED
  BY <1>1, <1>2, <1>3, <1>4, BehindTracks

-----------------------------------------------------------------------------
(* The controller takes a command.  At most c leaves the lanes, or what    *)
(* runs; it is then answered, or runs.                                     *)

Matters(kind, id) == Named(kind, id) \/ kind = "store"
QueuedBut(c) ==
    \A kind, op, id, gen : Queued(port, kind, op, id, gen) => Queued(port, kind, op, id, gen)' \/ IsOf(c, kind, op, id, gen)
RunningBut(c) ==
    \A kind, op, id, gen : Running(kind, op, id, gen) => Running(kind, op, id, gen)' \/ IsOf(c, kind, op, id, gen)
AnswersIt(e, c) ==
    \A kind, op, id, gen : IsOf(c, kind, op, id, gen) /\ Matters(kind, id) => AnswerOf(e, kind, op, id, gen)
RunsNow(c) ==
    \A kind, op, id, gen : IsOf(c, kind, op, id, gen) /\ Matters(kind, id) => Running(kind, op, id, gen)'

LEMMA AnsweredStays ==
    ASSUME WindowInv, NEW e, events' = events \/ events' = Append(events, e),
           NEW kind, NEW op, NEW id, NEW gen, Answered(events, kind, op, id, gen)
    PROVE  Answered(events, kind, op, id, gen)'
<1>1. CASE events' = events
  BY <1>1 DEF Answered
<1>2. CASE events' = Append(events, e)
  <2>1. /\ Len(events) \in Nat /\ Len(events') = Len(events) + 1 /\ \A k \in 1..Len(events) : events'[k] = events[k]
    BY <1>2, QueueGrows DEF WindowInv, Answering, Queue
  <2>2. PICK k \in 1..Len(events) : AnswerOf(events[k], kind, op, id, gen)
    BY DEF Answered
  <2>3. k \in 1..Len(events') /\ AnswerOf(events'[k], kind, op, id, gen)
    BY <2>1, <2>2
  <2>4. \E j \in 1..Len(events') : AnswerOf(events'[j], kind, op, id, gen)
    BY <2>3
  <2> QED
    BY <2>4 DEF Answered, AnswerOf
<1> QED
  BY <1>1, <1>2

LEMMA AnsweredNow ==
    ASSUME WindowInv, NEW e, events' = Append(events, e),
           NEW kind, NEW op, NEW id, NEW gen, AnswerOf(e, kind, op, id, gen)
    PROVE  Answered(events, kind, op, id, gen)'
<1>1. Len(events) \in Nat /\ Len(events') = Len(events) + 1 /\ events'[Len(events) + 1] = e
  BY QueueGrows DEF WindowInv, Answering, Queue
<1>2. PICK k : k = Len(events) + 1
  OBVIOUS
<1>3. k \in 1..Len(events') /\ AnswerOf(events'[k], kind, op, id, gen)
  BY <1>1, <1>2
<1>4. \E j \in 1..Len(events') : AnswerOf(events'[j], kind, op, id, gen)
  BY <1>3
<1> QED
  BY <1>4 DEF Answered, AnswerOf

LEMMA CarriedReply ==
    ASSUME WindowInv, NEW c, QueuedBut(c), RunningBut(c), NEW e, events' = Append(events, e), AnswersIt(e, c)
    PROVE  Carried
<1>1. SUFFICES ASSUME NEW kind, NEW op, NEW id, NEW gen, Matters(kind, id), Under(port, events, kind, op, id, gen)
               PROVE  Under(port, events, kind, op, id, gen)'
  BY DEF Carried, Matters
<1>2. \/ Queued(port, kind, op, id, gen)' \/ Running(kind, op, id, gen)'
      \/ IsOf(c, kind, op, id, gen) \/ Answered(events, kind, op, id, gen)
  BY <1>1 DEF QueuedBut, RunningBut, Under
<1>3. IsOf(c, kind, op, id, gen) => AnswerOf(e, kind, op, id, gen)
  BY <1>1 DEF AnswersIt
<1>4. \/ Queued(port, kind, op, id, gen)' \/ Running(kind, op, id, gen)' \/ Answered(events, kind, op, id, gen)'
  BY <1>2, <1>3, AnsweredNow, AnsweredStays
<1> QED
  BY <1>4 DEF Under

LEMMA CarriedOn ==
    ASSUME WindowInv, NEW c, QueuedBut(c), RunningBut(c), events' = events, RunsNow(c)
    PROVE  Carried
<1>1. SUFFICES ASSUME NEW kind, NEW op, NEW id, NEW gen, Matters(kind, id), Under(port, events, kind, op, id, gen)
               PROVE  Under(port, events, kind, op, id, gen)'
  BY DEF Carried, Matters
<1>2. \/ Queued(port, kind, op, id, gen)' \/ Running(kind, op, id, gen)'
      \/ IsOf(c, kind, op, id, gen) \/ Answered(events, kind, op, id, gen)
  BY <1>1 DEF QueuedBut, RunningBut, Under
<1>3. IsOf(c, kind, op, id, gen) => Running(kind, op, id, gen)'
  BY <1>1 DEF RunsNow
<1>4. \/ Queued(port, kind, op, id, gen)' \/ Running(kind, op, id, gen)' \/ Answered(events, kind, op, id, gen)'
  BY <1>2, <1>3, AnsweredStays
<1> QED
  BY <1>4 DEF Under

-----------------------------------------------------------------------------
(* Lanes                                                                   *)

SameLanes == port'.control = port.control /\ port'.mutation = port.mutation /\ port'.work = port.work

Takes(lane, c) ==
    /\ port'.control = IF lane = "control" THEN Tail(port.control) ELSE port.control
    /\ port'.mutation = IF lane = "mutation" THEN Tail(port.mutation) ELSE port.mutation
    /\ port'.work = IF lane = "work" THEN Tail(port.work) ELSE port.work
    /\ lane = "control" => port.control # <<>> /\ c = Head(port.control)
    /\ lane = "mutation" => port.mutation # <<>> /\ c = Head(port.mutation)
    /\ lane = "work" => port.work # <<>> /\ c = Head(port.work)

LEMMA LanesSame ==
    ASSUME TrackInv, SameLanes, NEW c
    PROVE  LanesShrink /\ QueuedBut(c)
<1>1. LanesNumbered(port, model.nextOp)
  BY DEF TrackInv, ModelTracks, OperationsNumbered, World
<1>2. LanesNumbered(port', model.nextOp)
  BY <1>1 DEF LanesNumbered, SameLanes
<1>3. LanesShrink
  BY <1>2 DEF LanesShrink, SameLanes
<1>4. QueuedBut(c)
  BY DEF QueuedBut, Queued, SameLanes, IsOf
<1> QED
  BY <1>3, <1>4

\* A lane without its head, or as it was
Behead(s, t, c) ==
    /\ Queue(t) /\ \A k \in 1..Len(t) : \E j \in 1..Len(s) : t[k] = s[j]
    /\ \A j, k \in 1..Len(t) : j < k => \E a, b \in 1..Len(s) : a < b /\ t[j] = s[a] /\ t[k] = s[b]
    /\ \A k \in 1..Len(s) : s[k] = c \/ \E j \in 1..Len(t) : s[k] = t[j]

LEMMA BeheadTail ==
    ASSUME NEW s, Queue(s), s # <<>>, NEW t, t = Tail(s), NEW c, c = Head(s)
    PROVE  Behead(s, t, c) /\ 1 \in 1..Len(s) /\ c = s[1]
<1>1. /\ Queue(t) /\ Len(s) \in Nat \ {0} /\ Len(t) = Len(s) - 1 /\ c = s[1]
      /\ \A k \in 1..Len(t) : t[k] = s[k + 1] /\ k + 1 \in 1..Len(s)
  BY QueueShrinks
<1>2. \A j, k \in 1..Len(t) : j < k => j + 1 \in 1..Len(s) /\ k + 1 \in 1..Len(s) /\ j + 1 < k + 1
  BY <1>1
<1>3. \A j, k \in 1..Len(t) : j < k => \E a, b \in 1..Len(s) : a < b /\ t[j] = s[a] /\ t[k] = s[b]
  BY <1>1, <1>2
<1>4. ASSUME NEW k \in 1..Len(s) PROVE s[k] = c \/ \E j \in 1..Len(t) : s[k] = t[j]
  <2>1. CASE k = 1
    BY <1>1, <2>1
  <2>2. CASE k # 1
    <3>1. PICK j : j = k - 1
      OBVIOUS
    <3>2. j \in 1..Len(t) /\ k = j + 1
      BY <1>1, <1>4, <2>2, <3>1
    <3> QED
      BY <1>1, <3>2
  <2> QED
    BY <2>1, <2>2
<1> QED
  BY <1>1, <1>3, <1>4 DEF Behead

LEMMA BeheadSame ==
    ASSUME NEW s, Queue(s), NEW c
    PROVE  Behead(s, s, c)
BY DEF Behead

LEMMA TakesLanes ==
    ASSUME TrackInv, NEW lane \in {"control", "mutation", "work"}, NEW c, Takes(lane, c)
    PROVE  /\ LanesShrink /\ QueuedBut(c)
           /\ lane = "mutation" \/ c.kind # "cancel" => c.op \in Nat /\ c.op < model.nextOp
           /\ lane = "work" => c.kind # "cancel"
<1>1. LanesNumbered(port, model.nextOp)
  BY DEF TrackInv, ModelTracks, OperationsNumbered, World
<1>2. Queue(port.control) /\ Queue(port.mutation) /\ Queue(port.work)
  BY <1>1 DEF LanesNumbered
<1>3. Behead(port.control, port'.control, c) /\ Behead(port.mutation, port'.mutation, c) /\ Behead(port.work, port'.work, c)
  BY <1>2, BeheadTail, BeheadSame DEF Takes
<1>4. LanesNumbered(port', model.nextOp)
  <2>1. Queue(port'.control) /\ Queue(port'.mutation) /\ Queue(port'.work)
    BY <1>3 DEF Behead
  <2>2. \A k \in 1..Len(port'.control) : Below(port'.control[k], model.nextOp)
    BY <1>1, <1>3 DEF Behead, LanesNumbered
  <2>3. \A k \in 1..Len(port'.work) : Below(port'.work[k], model.nextOp) /\ port'.work[k].kind # "cancel"
    BY ZenonT(60), <1>1, <1>3 DEF Behead, LanesNumbered
  <2>4. \A k \in 1..Len(port'.mutation) : port'.mutation[k].op \in Nat /\ port'.mutation[k].op < model.nextOp
    BY <1>1, <1>3 DEF Behead, LanesNumbered
  <2>5. \A j, k \in 1..Len(port'.mutation) : j < k => port'.mutation[j].op < port'.mutation[k].op
    BY ZenonT(60), <1>1, <1>3 DEF Behead, LanesNumbered
  <2> QED
    BY <2>1, <2>2, <2>3, <2>4, <2>5 DEF LanesNumbered
<1>5. LanesShrink
  BY <1>3, <1>4 DEF LanesShrink, Behead
<1>6. QueuedBut(c)
  <2>1. SUFFICES ASSUME NEW kind, NEW op, NEW id, NEW gen, Queued(port, kind, op, id, gen)
                 PROVE  Queued(port, kind, op, id, gen)' \/ IsOf(c, kind, op, id, gen)
    BY DEF QueuedBut
  <2>2. ASSUME NEW k \in 1..Len(port.mutation), IsOf(port.mutation[k], kind, op, id, gen)
        PROVE  Queued(port, kind, op, id, gen)' \/ IsOf(c, kind, op, id, gen)
    <3>1. port.mutation[k] = c \/ \E j \in 1..Len(port'.mutation) : port.mutation[k] = port'.mutation[j]
      BY <1>3, <2>2 DEF Behead
    <3>2. IsOf(c, kind, op, id, gen) \/ \E j \in 1..Len(port'.mutation) : IsOf(port'.mutation[j], kind, op, id, gen)
      BY <2>2, <3>1
    <3> QED
      BY <3>2 DEF Queued, IsOf
  <2>3. ASSUME NEW k \in 1..Len(port.work), IsOf(port.work[k], kind, op, id, gen)
        PROVE  Queued(port, kind, op, id, gen)' \/ IsOf(c, kind, op, id, gen)
    <3>1. port.work[k] = c \/ \E j \in 1..Len(port'.work) : port.work[k] = port'.work[j]
      BY <1>3, <2>3 DEF Behead
    <3>2. IsOf(c, kind, op, id, gen) \/ \E j \in 1..Len(port'.work) : IsOf(port'.work[j], kind, op, id, gen)
      BY <2>3, <3>1
    <3> QED
      BY <3>2 DEF Queued, IsOf
  <2> QED
    BY <2>1, <2>2, <2>3 DEF Queued
<1>7. /\ lane = "mutation" \/ c.kind # "cancel" => c.op \in Nat /\ c.op < model.nextOp
      /\ lane = "work" => c.kind # "cancel"
  <2>1. CASE lane = "control"
    <3>1. 1 \in 1..Len(port.control) /\ c = port.control[1]
      BY <1>2, <2>1, BeheadTail DEF Takes
    <3> QED
      BY <1>1, <2>1, <3>1 DEF LanesNumbered, Below
  <2>2. CASE lane = "mutation"
    <3>1. 1 \in 1..Len(port.mutation) /\ c = port.mutation[1]
      BY <1>2, <2>2, BeheadTail DEF Takes
    <3> QED
      BY <1>1, <2>2, <3>1 DEF LanesNumbered
  <2>3. CASE lane = "work"
    <3>1. 1 \in 1..Len(port.work) /\ c = port.work[1]
      BY <1>2, <2>3, BeheadTail DEF Takes
    <3> QED
      BY <1>1, <2>3, <3>1 DEF LanesNumbered, Below
  <2> QED
    BY <2>1, <2>2, <2>3
<1> QED
  BY <1>5, <1>6, <1>7

LEMMA PoppedLanes ==
    ASSUME PortShaped(port), NEW lane \in {"control", "mutation", "work"}, NEW q,
           q = Popped(lane) \/ \E keys : q = [Popped(lane) EXCEPT !.keys = keys]
    PROVE  /\ q.control = IF lane = "control" THEN Tail(port.control) ELSE port.control
           /\ q.mutation = IF lane = "mutation" THEN Tail(port.mutation) ELSE port.mutation
           /\ q.work = IF lane = "work" THEN Tail(port.work) ELSE port.work
<1>1. PICK r : r = Popped(lane)
  OBVIOUS
<1>2. /\ r = [control |-> r.control, mutation |-> r.mutation, work |-> r.work, keys |-> r.keys]
      /\ r.control = IF lane = "control" THEN Tail(port.control) ELSE port.control
      /\ r.mutation = IF lane = "mutation" THEN Tail(port.mutation) ELSE port.mutation
      /\ r.work = IF lane = "work" THEN Tail(port.work) ELSE port.work
  BY <1>1 DEF Popped, PortShaped
<1>3. q.control = r.control /\ q.mutation = r.mutation /\ q.work = r.work
  BY <1>1, <1>2
<1> QED
  BY <1>2, <1>3

LEMMA EmittedLanes ==
    ASSUME NEW p, PortShaped(p), NEW e, Emit(p, e)
    PROVE  port'.control = p.control /\ port'.mutation = p.mutation /\ port'.work = p.work /\ events' = Append(events, e)
<1>1. PICK keys : keys = p.keys \ ReleasedKeys(e)
  OBVIOUS
<1>2. port' = [p EXCEPT !.keys = keys]
  BY <1>1 DEF Emit, PortShaped
<1> QED
  BY <1>2 DEF PortShaped, Emit

\* Answers
LEMMA AnswersUncertain ==
    ASSUME NEW c
    PROVE  AnswersIt(Uncertain(c.op), c)
BY DEF AnswersIt, IsOf, AnswerOf, Uncertain

LEMMA AnswersFailure ==
    ASSUME NEW c, NEW outcome
    PROVE  AnswersIt(Failure(c, outcome), c) /\ Mild(Failure(c, outcome))
<1>1. \A kind : "OperationFailed" \in Answers(kind)
  BY DEF Answers
<1> QED
  BY <1>1 DEF AnswersIt, IsOf, AnswerOf, Failure, Mild, IsLoad, IsUncertain

LEMMA AnswersAnswer ==
    ASSUME NEW t, NEW ok \in BOOLEAN, NEW session, NEW disposition, NEW outcome, NEW e,
           e = Answer(t, ok, session, disposition, outcome)
    PROVE  AnswersIt(e, t) /\ Mild(e)
<1>1. CASE e = Failure(t, outcome)
  BY <1>1, AnswersFailure
<1>2. CASE e # Failure(t, outcome)
  <2>1. /\ e.op = t.op /\ e.id = t.id /\ e.gen = t.gen
        /\ \/ t.kind = "browse" /\ e.kind = IF t.id \in Redis THEN "RedisKeys" ELSE "CatalogPage"
           \/ t.kind = "execute" /\ e.kind = "QueryFinished"
           \/ t.kind \in {"connect", "reconnect"} /\ e.kind = "ConnectionReady"
    BY <1>2 DEF Answer
  <2>2. Mild(e)
    BY <2>1 DEF Mild, IsLoad, IsUncertain
  <2>3. AnswersIt(e, t)
    BY <2>1 DEF AnswersIt, IsOf, AnswerOf, Matters, Named, Answers
  <2> QED
    BY <2>2, <2>3
<1> QED
  BY <1>1, <1>2

\* What runs
MutationRuns == mutation.pc # "none" => mutation'.pc # "none" /\ mutation'.command = mutation.command

LEMMA CancelledRuns ==
    ASSUME TasksFit, NEW targets, Cancelled(targets) \subseteq tasks', MutationRuns, NEW c
    PROVE  RunningBut(c)
<1>1. SUFFICES ASSUME NEW kind, NEW op, NEW id, NEW gen, Running(kind, op, id, gen)
               PROVE  Running(kind, op, id, gen)'
  BY DEF RunningBut
<1>2. ASSUME NEW t \in tasks, IsOf(t, kind, op, id, gen)
      PROVE  Running(kind, op, id, gen)'
  <2>1. PICK u : u = [t EXCEPT !.cancel = TRUE]
    OBVIOUS
  <2>2. IsOf(u, kind, op, id, gen)
    BY <1>2, <2>1 DEF TasksFit, TaskShaped, IsOf
  <2>3. t \in tasks' \/ u \in tasks'
    BY <1>2, <2>1 DEF Cancelled
  <2>4. \E s \in tasks' : IsOf(s, kind, op, id, gen)
    BY <1>2, <2>2, <2>3
  <2> QED
    BY <2>4 DEF Running, IsOf
<1>3. CASE mutation.pc # "none" /\ IsOf(mutation.command, kind, op, id, gen)
  BY <1>3 DEF Running, MutationRuns, IsOf
<1> QED
  BY <1>1, <1>2, <1>3 DEF Running

LEMMA TasksRun ==
    ASSUME NEW c, \A t \in tasks : t \in tasks' \/ t = c \/ \E u \in tasks' : IsOf(u, t.kind, t.op, t.id, t.gen), MutationRuns
    PROVE  RunningBut(c)
<1>1. SUFFICES ASSUME NEW kind, NEW op, NEW id, NEW gen, Running(kind, op, id, gen)
               PROVE  Running(kind, op, id, gen)' \/ IsOf(c, kind, op, id, gen)
  BY DEF RunningBut
<1>2. ASSUME NEW t \in tasks, IsOf(t, kind, op, id, gen)
      PROVE  Running(kind, op, id, gen)' \/ IsOf(c, kind, op, id, gen)
  <2>1. CASE t \in tasks'
    <3>1. \E s \in tasks' : IsOf(s, kind, op, id, gen)
      BY <1>2, <2>1
    <3> QED
      BY <3>1 DEF Running, IsOf
  <2>2. CASE t = c
    BY <1>2, <2>2
  <2>3. CASE \E u \in tasks' : IsOf(u, t.kind, t.op, t.id, t.gen)
    <3>1. \E s \in tasks' : IsOf(s, kind, op, id, gen)
      BY <1>2, <2>3 DEF IsOf
    <3> QED
      BY <3>1 DEF Running, IsOf
  <2> QED
    BY <1>2, <2>1, <2>2, <2>3
<1>3. CASE mutation.pc # "none" /\ IsOf(mutation.command, kind, op, id, gen)
  BY <1>3 DEF Running, MutationRuns, IsOf
<1> QED
  BY <1>1, <1>2, <1>3 DEF Running

LEMMA TaskRuns ==
    ASSUME NEW c, NEW pc, NEW session, NEW waits, Task(c, pc, session, waits) \in tasks'
    PROVE  RunsNow(c)
<1>1. SUFFICES ASSUME NEW kind, NEW op, NEW id, NEW gen, IsOf(c, kind, op, id, gen)
               PROVE  Running(kind, op, id, gen)'
  BY DEF RunsNow
<1>2. PICK t : t = Task(c, pc, session, waits)
  OBVIOUS
<1>3. IsOf(t, kind, op, id, gen)
  BY <1>1, <1>2 DEF Task, IsOf
<1>4. \E s \in tasks' : IsOf(s, kind, op, id, gen)
  BY <1>2, <1>3
<1> QED
  BY <1>4 DEF Running, IsOf

\* A command is answered at once.
LEMMA RefusedTracks ==
    ASSUME WindowInv, TrackInv, UNCHANGED <<window, mutation, service, tasks>>, NEW lane \in {"control", "mutation", "work"},
           NEW c, Takes(lane, c), NEW e, events' = Append(events, e), AnswersIt(e, c), Mild(e)
    PROVE  TrackInv'
<1>1. LanesShrink /\ QueuedBut(c)
  BY TakesLanes
<1>2. RunningBut(c)
  BY TasksRun DEF MutationRuns
<1>3. Carried
  BY <1>1, <1>2, CarriedReply
<1> QED
  BY <1>1, <1>3, WorkTracks DEF Replying

LEMMA PollControlTracks ==
    ASSUME WindowInv, TrackInv, PollControl
    PROVE  TrackInv'
<1>0. PortShaped(port) /\ TasksFit
  BY DEF WindowInv, Backstage
<1>1. PICK c : c = Head(port.control)
  OBVIOUS
<1>2. PICK p : p = Popped("control")
  OBVIOUS
<1>3. PortShaped(p)
  BY <1>0, <1>2, PortPops DEF Popped
<1>4. UNCHANGED <<window, mutation, service, disk, outside>> /\ port.control # <<>>
  BY DEF PollControl
<1>5. CASE c.kind = "cancel" /\ Cancel(c)
  <2>1. PICK targets : targets = {t \in tasks : t.op = c.op}
    OBVIOUS
  <2>2. tasks' = Cancelled(targets) /\ events' = events
    BY <1>5, <2>1 DEF Cancel
  <2>3. \E keys : port' = [Popped("control") EXCEPT !.keys = keys]
    <3>1. PICK keys : keys = IF targets = {} /\ mutation.command.op # c.op THEN p.keys \ {ControlKey(c)} ELSE p.keys
      OBVIOUS
    <3>2. port' = [p EXCEPT !.keys = keys]
      BY <1>2, <1>3, <1>5, <2>1, <3>1 DEF Cancel, PortShaped
    <3> QED
      BY <1>2, <3>2
  <2>4. Takes("control", c)
    BY <1>0, <1>1, <1>4, <2>3, PoppedLanes DEF Takes
  <2>5. LanesShrink /\ QueuedBut(c)
    BY <2>4, TakesLanes
  <2>6. RunningBut(c)
    BY <1>0, <1>4, <2>2, CancelledRuns DEF MutationRuns
  <2>7. RunsNow(c)
    BY <1>5 DEF RunsNow, IsOf, Matters, Named
  <2>8. Carried
    BY <2>2, <2>5, <2>6, <2>7, CarriedOn
  <2> QED
    BY <1>4, <2>2, <2>5, <2>8, WorkTracks DEF Silent
<1>6. CASE /\ c.kind # "cancel" /\ service.uncertain
           /\ Emit([Popped("control") EXCEPT !.keys = @ \ {ControlKey(c)}], Uncertain(c.op))
           /\ UNCHANGED tasks
  <2>1. PICK q : q = [Popped("control") EXCEPT !.keys = @ \ {ControlKey(c)}]
    OBVIOUS
  <2>2. \E keys : q = [Popped("control") EXCEPT !.keys = keys]
    <3>1. PICK keys : keys = p.keys \ {ControlKey(c)}
      OBVIOUS
    <3>2. q = [p EXCEPT !.keys = keys]
      BY <1>2, <1>3, <2>1, <3>1 DEF PortShaped
    <3> QED
      BY <1>2, <3>2
  <2>3. PortShaped(q)
    BY <1>2, <1>3, <2>2, PortReleases
  <2>4. Takes("control", c) /\ events' = Append(events, Uncertain(c.op))
    BY SMTT(40), <1>0, <1>1, <1>4, <1>6, <2>1, <2>2, <2>3, PoppedLanes, EmittedLanes DEF Takes
  <2>5. Mild(Uncertain(c.op))
    <3>1. c.op \in Nat /\ c.op < model.nextOp
      BY <1>6, <2>4, TakesLanes
    <3> QED
      BY <1>6, <3>1 DEF Mild, IsLoad, IsUncertain, Uncertain
  <2> QED
    BY <1>4, <1>6, <2>4, <2>5, RefusedTracks, AnswersUncertain
<1>7. CASE StartControl(c)
  <2>0. PICK targets : targets = {t \in tasks : t.id = c.id /\ t.gen = c.gen}
    OBVIOUS
  <2>1. CASE Emit(p, Failure(c, "preserve")) /\ UNCHANGED tasks
    <3>1. Takes("control", c) /\ events' = Append(events, Failure(c, "preserve"))
      BY <1>0, <1>1, <1>2, <1>3, <1>4, <2>1, PoppedLanes, EmittedLanes DEF Takes
    <3> QED
      BY <1>4, <2>1, <3>1, RefusedTracks, AnswersFailure
  <2>2. CASE /\ \E session, waits : tasks' = Cancelled(targets) \cup {Task(c, "wait", session, waits)}
             /\ port' = p /\ events' = events
    <3>1. Takes("control", c)
      BY <1>0, <1>1, <1>2, <1>4, <2>2, PoppedLanes DEF Takes
    <3>2. LanesShrink /\ QueuedBut(c)
      BY <3>1, TakesLanes
    <3>3. RunningBut(c)
      BY <1>0, <1>4, <2>2, CancelledRuns DEF MutationRuns
    <3>4. RunsNow(c)
      BY <2>2, TaskRuns
    <3>5. Carried
      BY <2>2, <3>2, <3>3, <3>4, CarriedOn
    <3> QED
      BY <1>4, <2>2, <3>2, <3>5, WorkTracks DEF Silent
  <2> QED
    BY <1>2, <1>7, <2>0, <2>1, <2>2 DEF StartControl
<1> QED
  BY <1>1, <1>5, <1>6, <1>7 DEF PollControl

LEMMA PollWorkTracks ==
    ASSUME WindowInv, TrackInv, PollWork
    PROVE  TrackInv'
<1>0. PortShaped(port)
  BY DEF WindowInv
<1>1. PICK c : c = Head(port.work)
  OBVIOUS
<1>2. PICK p : p = Popped("work")
  OBVIOUS
<1>3. PortShaped(p)
  BY <1>0, <1>2, PortPops DEF Popped
<1>4. UNCHANGED <<window, mutation, service, disk, outside>> /\ port.work # <<>>
  BY DEF PollWork
<1>5. CASE service.uncertain /\ Emit(p, Uncertain(c.op)) /\ UNCHANGED tasks
  <2>1. Takes("work", c) /\ events' = Append(events, Uncertain(c.op))
    BY <1>0, <1>1, <1>2, <1>3, <1>4, <1>5, PoppedLanes, EmittedLanes DEF Takes
  <2>2. c.op \in Nat /\ c.op < model.nextOp
    BY <2>1, TakesLanes
  <2>3. Mild(Uncertain(c.op))
    BY <1>5, <2>2 DEF Mild, IsLoad, IsUncertain, Uncertain
  <2> QED
    BY <1>4, <1>5, <2>1, <2>3, RefusedTracks, AnswersUncertain
<1>6. CASE Emit(p, Failure(c, "preserve")) /\ UNCHANGED tasks
  <2>1. Takes("work", c) /\ events' = Append(events, Failure(c, "preserve"))
    BY <1>0, <1>1, <1>2, <1>3, <1>4, <1>6, PoppedLanes, EmittedLanes DEF Takes
  <2> QED
    BY <1>4, <1>6, <2>1, RefusedTracks, AnswersFailure
<1>7. CASE tasks' = tasks \cup {Task(c, "acquire", 0, {})} /\ port' = p /\ events' = events
  <2>1. Takes("work", c)
    BY <1>0, <1>1, <1>2, <1>4, <1>7, PoppedLanes DEF Takes
  <2>2. LanesShrink /\ QueuedBut(c)
    BY <2>1, TakesLanes
  <2>3. RunningBut(c)
    BY <1>4, <1>7, TasksRun DEF MutationRuns
  <2>4. RunsNow(c)
    BY <1>7, TaskRuns
  <2>5. Carried
    BY <1>7, <2>2, <2>3, <2>4, CarriedOn
  <2> QED
    BY <1>4, <1>7, <2>2, <2>5, WorkTracks DEF Silent
<1> QED
  BY <1>1, <1>2, <1>5, <1>6, <1>7 DEF PollWork

-----------------------------------------------------------------------------
(* Network operations                                                      *)

LEMMA FinishTracks ==
    ASSUME WindowInv, TrackInv, UNCHANGED <<window, mutation>>, service'.uncertain = service.uncertain,
           NEW t, NEW e, Finish(t, e), AnswersIt(e, t), Mild(e)
    PROVE  TrackInv'
<1>1. SameLanes /\ events' = Append(events, e)
  BY EmittedLanes DEF WindowInv, Finish, SameLanes
<1>2. LanesShrink /\ QueuedBut(t)
  BY <1>1, LanesSame
<1>3. RunningBut(t)
  BY TasksRun DEF Finish, MutationRuns
<1>4. Carried
  BY <1>1, <1>2, <1>3, CarriedReply
<1> QED
  BY <1>1, <1>2, <1>4, WorkTracks DEF Replying

LEMMA ReplaceTracks ==
    ASSUME WindowInv, TrackInv, UNCHANGED <<window, mutation, port, events>>, service'.uncertain = service.uncertain,
           NEW t \in tasks, NEW u, Replace(t, u), IsOf(u, t.kind, t.op, t.id, t.gen)
    PROVE  TrackInv'
<1>0. PICK c : c.kind = "cancel"
  <2>1. [kind |-> "cancel"].kind = "cancel"
    OBVIOUS
  <2> QED
    BY <2>1
<1>1. LanesShrink /\ QueuedBut(c)
  BY LanesSame DEF SameLanes
<1>2. u \in tasks'
  BY DEF Replace
<1>3. RunningBut(c)
  BY <1>2, TasksRun DEF Replace, MutationRuns
<1>4. RunsNow(c)
  BY <1>0 DEF RunsNow, IsOf, Matters, Named
<1>5. Carried
  BY <1>1, <1>3, <1>4, CarriedOn
<1> QED
  BY <1>1, <1>5, WorkTracks DEF Silent

LEMMA SessionsAside ==
    ASSUME ServiceShaped(service), NEW sessions, service' = [service EXCEPT !.sessions = sessions]
    PROVE  service'.uncertain = service.uncertain
BY DEF ServiceShaped

LEMMA DisconnectTracks ==
    ASSUME WindowInv, TrackInv, NEW t \in tasks, Disconnect(t)
    PROVE  TrackInv'
<1>0. UNCHANGED <<window, mutation>> /\ t.kind = "disconnect" /\ ServiceShaped(service)
  BY DEF Disconnect, taskFrame, WindowInv, Backstage
<1>1. ASSUME NEW outcome, Finish(t, Failure(t, outcome)), UNCHANGED service PROVE TrackInv'
  BY <1>0, <1>1, FinishTracks, AnswersFailure
<1>2. ASSUME NEW sessions, service' = [service EXCEPT !.sessions = sessions], NEW post,
             Finish(t, [kind |-> "ConnectionClosed", op |-> t.op, id |-> t.id, gen |-> t.gen, post |-> post])
      PROVE  TrackInv'
  <2>1. PICK e : e = [kind |-> "ConnectionClosed", op |-> t.op, id |-> t.id, gen |-> t.gen, post |-> post]
    OBVIOUS
  <2>2. Mild(e)
    BY <2>1 DEF Mild, IsLoad, IsUncertain
  <2>3. AnswersIt(e, t)
    BY <1>0 DEF AnswersIt, IsOf, Matters, Named
  <2>4. service'.uncertain = service.uncertain
    BY <1>0, <1>2, SessionsAside
  <2> QED
    BY <1>0, <1>2, <2>1, <2>2, <2>3, <2>4, FinishTracks
<1>3. PICK sessions : sessions = Evicted(service.sessions, {<<t.id, [n |-> t.session, gen |-> t.gen]>>})
  OBVIOUS
<1>4. \/ \E outcome : Finish(t, Failure(t, outcome)) /\ UNCHANGED service
      \/ /\ service' = [service EXCEPT !.sessions = sessions]
         /\ \E post : Finish(t, [kind |-> "ConnectionClosed", op |-> t.op, id |-> t.id, gen |-> t.gen, post |-> post])
  BY <1>0, <1>3 DEF Disconnect, ServiceShaped
<1> QED
  BY <1>1, <1>2, <1>4

LEMMA ReconnectTracks ==
    ASSUME WindowInv, TrackInv, NEW t \in tasks, Reconnect(t)
    PROVE  TrackInv'
<1>0. UNCHANGED <<window, mutation>> /\ ServiceShaped(service) /\ TaskShaped(t)
  BY DEF Reconnect, taskFrame, WindowInv, Backstage, TasksFit
<1>1. CASE Finish(t, Failure(t, "unknown")) /\ UNCHANGED service
  BY <1>0, <1>1, FinishTracks, AnswersFailure
<1>2. PICK sessions : sessions = Evicted(service.sessions, {<<t.id, [n |-> t.session, gen |-> t.gen]>>})
  OBVIOUS
<1>3. PICK u : u = [t EXCEPT !.pc = "acquire", !.session = 0]
  OBVIOUS
<1>4. CASE service' = [service EXCEPT !.sessions = sessions] /\ Replace(t, u) /\ UNCHANGED <<port, events>>
  <2>1. IsOf(u, t.kind, t.op, t.id, t.gen)
    BY <1>0, <1>3 DEF TaskShaped, IsOf
  <2>2. service'.uncertain = service.uncertain
    BY <1>0, <1>4, SessionsAside
  <2> QED
    BY <1>0, <1>4, <2>1, <2>2, ReplaceTracks
<1>5. \/ Finish(t, Failure(t, "unknown")) /\ UNCHANGED service
      \/ service' = [service EXCEPT !.sessions = sessions] /\ Replace(t, u) /\ UNCHANGED <<port, events>>
  BY <1>0, <1>2, <1>3 DEF Reconnect, ServiceShaped
<1> QED
  BY <1>1, <1>4, <1>5

LEMMA AcquireTracks ==
    ASSUME WindowInv, TrackInv, NEW t \in tasks, Acquire(t)
    PROVE  TrackInv'
<1>0. UNCHANGED <<window, mutation, port, events>> /\ ServiceShaped(service) /\ TaskShaped(t)
  BY DEF Acquire, taskFrame, WindowInv, Backstage, TasksFit
<1> DEFINE cached == service.sessions[t.id].gen = t.gen
           n == IF cached THEN service.sessions[t.id].n ELSE Len(service.opened) + 1
           more == [service EXCEPT !.sessions[t.id] = [n |-> n, gen |-> t.gen],
                                   !.opened = Append(@, service.profiles[t.id])]
<1>1. Replace(t, [t EXCEPT !.pc = "operate", !.session = n]) /\ service' \in {service, more}
  BY DEF Acquire
<1>2. more.uncertain = service.uncertain
  BY <1>0 DEF ServiceShaped
<1>3. service'.uncertain = service.uncertain
  BY <1>1, <1>2
<1> HIDE DEF n, more
<1>4. PICK u : u = [t EXCEPT !.pc = "operate", !.session = n]
  OBVIOUS
<1>5. IsOf(u, t.kind, t.op, t.id, t.gen)
  BY <1>0, <1>4 DEF TaskShaped, IsOf
<1> QED
  BY <1>0, <1>1, <1>3, <1>4, <1>5, ReplaceTracks

LEMMA AcquireFailsTracks ==
    ASSUME WindowInv, TrackInv, NEW t \in tasks, AcquireFails(t)
    PROVE  TrackInv'
<1>1. UNCHANGED <<window, mutation, service>> /\ \E outcome : Finish(t, Answer(t, FALSE, 0, "none", outcome))
  BY DEF AcquireFails, taskFrame
<1>2. PICK outcome : Finish(t, Answer(t, FALSE, 0, "none", outcome))
  BY <1>1
<1>3. PICK e : e = Answer(t, FALSE, 0, "none", outcome)
  OBVIOUS
<1>4. AnswersIt(e, t) /\ Mild(e)
  BY <1>3, AnswersAnswer
<1> QED
  BY <1>1, <1>2, <1>3, <1>4, FinishTracks

LEMMA OperateEndsTracks ==
    ASSUME WindowInv, TrackInv, NEW t \in tasks, OperateEnds(t)
    PROVE  TrackInv'
<1>0. UNCHANGED <<window, mutation>> /\ ServiceShaped(service)
  BY DEF OperateEnds, taskFrame, WindowInv, Backstage
<1>1. PICK ok \in BOOLEAN :
         /\ Finish(t, Answer(t, ok, t.session, "keep", "preserve"))
         /\ service' = [service EXCEPT !.sessions =
                IF ok \/ t.kind \in {"execute", "browse"} THEN @
                ELSE Evicted(@, {<<t.id, [n |-> t.session, gen |-> t.gen]>>})]
  BY DEF OperateEnds
<1>2. service'.uncertain = service.uncertain
  BY <1>0, <1>1 DEF ServiceShaped
<1>3. PICK e : e = Answer(t, ok, t.session, "keep", "preserve")
  OBVIOUS
<1>4. AnswersIt(e, t) /\ Mild(e)
  BY <1>3, AnswersAnswer
<1> QED
  BY <1>0, <1>1, <1>2, <1>3, <1>4, FinishTracks

LEMMA OperateEvictsTracks ==
    ASSUME WindowInv, TrackInv, NEW t \in tasks, OperateEvicts(t)
    PROVE  TrackInv'
<1>0. UNCHANGED <<window, mutation>> /\ ServiceShaped(service)
  BY DEF OperateEvicts, taskFrame, WindowInv, Backstage
<1>1. PICK outcome : Finish(t, Answer(t, FALSE, t.session, "evict", outcome))
  BY DEF OperateEvicts
<1>2. service'.uncertain = service.uncertain
  BY <1>0 DEF OperateEvicts, ServiceShaped
<1>3. PICK e : e = Answer(t, FALSE, t.session, "evict", outcome)
  OBVIOUS
<1>4. AnswersIt(e, t) /\ Mild(e)
  BY <1>3, AnswersAnswer
<1> QED
  BY <1>0, <1>1, <1>2, <1>3, <1>4, FinishTracks

-----------------------------------------------------------------------------
(* Mutations                                                               *)

LEMMA MutationAlone ==
    ASSUME UNCHANGED tasks
    PROVE  RunningBut(mutation.command)
<1>1. SUFFICES ASSUME NEW kind, NEW op, NEW id, NEW gen, Running(kind, op, id, gen)
               PROVE  Running(kind, op, id, gen)' \/ IsOf(mutation.command, kind, op, id, gen)
  BY DEF RunningBut
<1>2. (\E t \in tasks' : IsOf(t, kind, op, id, gen)) \/ IsOf(mutation.command, kind, op, id, gen)
  BY <1>1 DEF Running
<1> QED
  BY <1>2 DEF Running, IsOf

\* A mutation that has not begun is answered.
LEMMA DroppedTracks ==
    ASSUME WindowInv, TrackInv, UNCHANGED <<window, tasks>>, mutation.pc = "run", mutation' = NoMutation,
           service'.uncertain = service.uncertain, NEW e, Emit(port, e), AnswersIt(e, mutation.command), Mild(e)
    PROVE  TrackInv'
<1>1. SameLanes /\ events' = Append(events, e)
  BY EmittedLanes DEF WindowInv, SameLanes
<1>2. LanesShrink /\ QueuedBut(mutation.command)
  BY <1>1, LanesSame
<1>3. RunningBut(mutation.command)
  BY MutationAlone
<1>4. Carried
  BY <1>1, <1>2, <1>3, CarriedReply
<1>5. mutation'.pc = "none"
  BY DEF NoMutation
<1> QED
  BY <1>1, <1>2, <1>4, <1>5, MutationTracks DEF Replying

LEMMA StoreSecretTracks ==
    ASSUME WindowInv, TrackInv, StoreSecret
    PROVE  TrackInv'
<1>1. ServiceShaped(service)
  BY DEF WindowInv, Backstage
<1>2. service'.uncertain = service.uncertain
  BY <1>1 DEF StoreSecret, ServiceShaped
<1>3. PICK e : /\ Emit(port, e) /\ e.kind \in {"CredentialsStored", "CredentialsStoreFailed"}
               /\ e.op = job.op /\ e.id = job.id /\ e.gen = job.gen
  BY DEF StoreSecret
<1>4. AnswersIt(e, mutation.command)
  BY <1>3 DEF StoreSecret, AnswersIt, IsOf, AnswerOf, Answers, job
<1>5. Mild(e)
  BY <1>3 DEF Mild, IsLoad, IsUncertain
<1>6. UNCHANGED <<window, tasks>> /\ mutation.pc = "run" /\ mutation' = NoMutation
  BY DEF StoreSecret, mutationFrame
<1> QED
  BY <1>2, <1>3, <1>4, <1>5, <1>6, DroppedTracks

LEMMA RefuseTracks ==
    ASSUME WindowInv, TrackInv, Refuse
    PROVE  TrackInv'
<1>1. UNCHANGED <<window, tasks, service>> /\ mutation.pc = "run" /\ mutation' = NoMutation
  BY DEF Refuse, mutationFrame
<1>2. CASE job.kind = "delete"
  <2>1. Emit(port, Failure(job, "preserve"))
    BY <1>2 DEF Refuse
  <2> QED
    BY <1>1, <2>1, DroppedTracks, AnswersFailure DEF job
<1>3. CASE job.kind \in {"create", "update"}
  <2>1. PICK e : Emit(port, e) /\ e.kind \in {"ProfileCreateFailed", "ProfileUpdateFailed"}
    <3>1. CASE job.kind = "create"
      BY <3>1 DEF Refuse
    <3>2. CASE job.kind = "update"
      BY <3>2 DEF Refuse
    <3> QED
      BY <1>3, <3>1, <3>2
  <2>2. Mild(e)
    BY <2>1 DEF Mild, IsLoad, IsUncertain
  <2>3. AnswersIt(e, mutation.command)
    BY <1>3 DEF AnswersIt, IsOf, Matters, Named, job
  <2> QED
    BY <1>1, <2>1, <2>2, <2>3, DroppedTracks
<1> QED
  BY <1>2, <1>3 DEF Refuse

LEMMA EditDiskTracks ==
    ASSUME WindowInv, TrackInv, EditDisk
    PROVE  TrackInv'
<1>1. PICK v, answers : v = World /\ answers = events
  OBVIOUS
<1>2. Shaped(v) /\ Tracks(v, answers)
  BY <1>1, WorldOf, WorldTracks
<1>3. Become(v) /\ answers = events' /\ UNCHANGED <<tasks, mutation, service>>
  BY <1>1 DEF EditDisk, Become, World, window
<1> QED
  BY <1>2, <1>3, TrackBecomes

\* The step in which work that is outdated is cancelled
LEMMA CompleteTracks ==
    ASSUME WindowInv, TrackInv, Complete
    PROVE  TrackInv'
<1>1. UNCHANGED <<model, app, port, events, service>> /\ mutation.pc = "published"
  BY DEF Complete, mutationFrame, window
<1>2. PICK targets : tasks' = Cancelled(targets)
  BY DEF Complete
<1>3. PICK waits, active : mutation' = [mutation EXCEPT !.pc = "join", !.waits = waits, !.active = active]
  BY DEF Complete
<1>4. mutation'.pc = "join" /\ mutation'.command = mutation.command /\ mutation'.profiles = mutation.profiles
  BY <1>3 DEF WindowInv, Backstage, MutationShaped
<1>0. PICK c : c.kind = "cancel"
  <2>1. [kind |-> "cancel"].kind = "cancel"
    OBVIOUS
  <2> QED
    BY <2>1
<1>5. LanesShrink /\ QueuedBut(c)
  BY <1>1, LanesSame DEF SameLanes
<1>6. RunningBut(c)
  BY <1>2, <1>4, CancelledRuns DEF MutationRuns, WindowInv, Backstage
<1>7. RunsNow(c)
  BY <1>0 DEF RunsNow, IsOf, Matters, Named
<1>8. Carried
  BY <1>1, <1>5, <1>6, <1>7, CarriedOn
<1>9. Silent
  BY <1>1 DEF Silent
<1>10. OperationsNumbered(World, events)'
  BY <1>1, <1>4, <1>5, <1>9, NumberedStays
<1>11. Warnings(model, events)' /\ (Settles => Settles')
  BY <1>1, <1>4, <1>9, WarningsStay
<1>12. ProfilesTold'
  BY <1>1, <1>4, <1>9, ToldStays
<1> QED
  BY <1>1, <1>8, <1>10, <1>11, <1>12, BehindTracks

\* A mutation begins: it was first, so its number is the lowest.
LEMMA MutationStarts ==
    ASSUME WindowInv, TrackInv, UNCHANGED <<window, tasks, service, events>>, mutation.pc = "none",
           NEW c, Takes("mutation", c), mutation' = [NoMutation EXCEPT !.pc = "run", !.command = c]
    PROVE  TrackInv'
<1>0. UNCHANGED <<model, app>> /\ World.m = model /\ World'.m = model /\ World.p = port /\ World'.p = port'
  BY DEF window, World
<1>1. mutation'.pc = "run" /\ mutation'.command = c
  BY NoMutationShaped DEF MutationShaped
<1>2. LanesShrink /\ QueuedBut(c) /\ c.op \in Nat /\ c.op < model.nextOp
  BY TakesLanes
<1>3. RunningBut(c)
  BY TasksRun DEF MutationRuns
<1>4. RunsNow(c)
  BY <1>1 DEF RunsNow, Running, IsOf
<1>5. Carried
  BY <1>2, <1>3, <1>4, CarriedOn
<1>6. OperationsNumbered(World, events)
  BY DEF TrackInv, ModelTracks
<1>7. LanesNumbered(port, model.nextOp) /\ Queue(port.mutation)
  BY <1>0, <1>6 DEF OperationsNumbered, LanesNumbered
<1>8. /\ 1 \in 1..Len(port.mutation) /\ c = port.mutation[1]
      /\ \A k \in 1..Len(port'.mutation) : c.op < port'.mutation[k].op
  <2>1. PICK s, t : s = port.mutation /\ t = port'.mutation
    OBVIOUS
  <2>2. Queue(s) /\ s # <<>> /\ t = Tail(s) /\ c = Head(s)
    BY <1>7, <2>1 DEF Takes
  <2>3. /\ Len(s) \in Nat \ {0} /\ Len(t) = Len(s) - 1 /\ Head(s) = s[1]
        /\ \A k \in 1..Len(t) : t[k] = s[k + 1] /\ k + 1 \in 1..Len(s)
    BY <2>2, QueueShrinks
  <2>4. 1 \in 1..Len(s) /\ c = s[1]
    BY <2>2, <2>3
  <2>5. \A j, k \in 1..Len(s) : j < k => s[j].op < s[k].op
    BY <1>7, <2>1 DEF LanesNumbered
  <2>6. \A k \in 1..Len(t) : c.op < t[k].op
    BY <2>3, <2>4, <2>5
  <2> QED
    BY <2>1, <2>4, <2>6
<1>9. ASSUME NEW n, MutationsAbove(port, n) PROVE MutationsAbove(port, n)'
  BY <1>1, <1>2, <1>8, <1>9 DEF MutationsAbove, LanesShrink
<1>10. OperationsNumbered(World, events)'
  <2>1. /\ model.nextOp \in Nat /\ model.lastLoad \in Nat /\ model.lastLoad < model.nextOp /\ model.uncertain \in BOOLEAN
        /\ \A k \in 1..Len(events) : IsLoad(events[k]) \/ IsUncertain(events[k]) =>
              events[k].op \in Nat /\ events[k].op < model.nextOp
    BY <1>0, <1>6 DEF OperationsNumbered
  <2>2. LanesNumbered(port', model.nextOp)
    BY <1>2 DEF LanesShrink
  <2>3. ~model.uncertain => MutationsAbove(port, model.lastLoad)'
    <3>1. PICK n : n = model.lastLoad
      OBVIOUS
    <3>2. ~model.uncertain => MutationsAbove(port, n)'
      BY <1>0, <1>6, <1>9, <3>1 DEF OperationsNumbered
    <3> QED
      BY <1>0, <3>1, <3>2
  <2>4. ASSUME NEW k \in 1..Len(events), IsLoad(events[k]) PROVE MutationsAbove(port, events[k].op)'
    <3>1. PICK n : n = events[k].op
      OBVIOUS
    <3>2. MutationsAbove(port, n)'
      BY <1>0, <1>6, <1>9, <2>4, <3>1 DEF OperationsNumbered
    <3> QED
      BY <1>0, <3>1, <3>2
  <2> QED
    BY <1>0, <1>1, <1>2, <1>8, <2>1, <2>2, <2>3, <2>4 DEF OperationsNumbered, IsLoad, IsUncertain
<1>11. Warnings(model, events)' /\ (Settles => Settles')
  BY <1>0, WarningsStay DEF Silent
<1>12. ProfilesTold'
  BY <1>1, ToldStays DEF Silent
<1> QED
  BY <1>0, <1>5, <1>10, <1>11, <1>12, BehindTracks

LEMMA PollMutationTracks ==
    ASSUME WindowInv, TrackInv, PollMutation
    PROVE  TrackInv'
<1>0. PortShaped(port) /\ port.mutation # <<>> /\ mutation.pc = "none"
  BY DEF WindowInv, PollMutation, NoMutation
<1>1. PICK c : c = Head(port.mutation)
  OBVIOUS
<1>2. PICK p : p = Popped("mutation")
  OBVIOUS
<1>3. PortShaped(p)
  BY <1>0, <1>2, PortPops DEF Popped
<1>4. UNCHANGED <<window, tasks, service, disk, outside>>
  BY DEF PollMutation
<1>5. CASE service.uncertain /\ Emit(p, Uncertain(c.op)) /\ UNCHANGED mutation
  <2>1. Takes("mutation", c) /\ events' = Append(events, Uncertain(c.op))
    BY <1>0, <1>1, <1>2, <1>3, <1>5, PoppedLanes, EmittedLanes DEF Takes
  <2>2. c.op \in Nat /\ c.op < model.nextOp
    BY <2>1, TakesLanes
  <2>3. Mild(Uncertain(c.op))
    BY <1>5, <2>2 DEF Mild, IsLoad, IsUncertain, Uncertain
  <2> QED
    BY <1>4, <1>5, <2>1, <2>3, RefusedTracks, AnswersUncertain
<1>6. CASE mutation' = [NoMutation EXCEPT !.pc = "run", !.command = c] /\ port' = p /\ UNCHANGED events
  <2>1. Takes("mutation", c)
    BY <1>0, <1>1, <1>2, <1>6, PoppedLanes DEF Takes
  <2> QED
    BY <1>0, <1>4, <1>6, <2>1, MutationStarts
<1> QED
  BY <1>1, <1>2, <1>5, <1>6 DEF PollMutation

\* The mutation is made: what the window is still to be told of an uncertain configuration
\* it was on the way to know.
LEMMA MadeTracks ==
    ASSUME WindowInv, TrackInv, UNCHANGED <<window, port, events, tasks>>, mutation.pc = "run", mutation'.pc = "published",
           mutation'.command.op = mutation.command.op, mutation'.command.kind = mutation.command.kind,
           mutation'.command.gen = mutation.command.gen,
           mutation.command.kind \in {"create", "refresh"} \/ mutation'.command.id = mutation.command.id,
           ProfilesTold'
    PROVE  TrackInv'
<1>0. UNCHANGED <<model, app>> /\ Queue(events)
  BY DEF window, WindowInv, Answering
<1>1. LanesShrink /\ QueuedBut(mutation.command)
  BY LanesSame DEF SameLanes
<1>2. RunningBut(mutation.command)
  BY MutationAlone
<1>3. RunsNow(mutation.command)
  <2>1. SUFFICES ASSUME NEW kind, NEW op, NEW id, NEW gen, IsOf(mutation.command, kind, op, id, gen), Matters(kind, id)
                 PROVE  Running(kind, op, id, gen)'
    BY DEF RunsNow
  <2>2. IsOf(mutation'.command, kind, op, id, gen)
    BY <2>1 DEF IsOf, Matters, Named
  <2> QED
    BY <2>2 DEF Running, IsOf
<1>4. Carried
  BY <1>1, <1>2, <1>3, CarriedOn
<1>5. OperationsNumbered(World, events)'
  BY <1>0, <1>1, NumberedStays DEF Silent
<1>6. Warnings(model, events) /\ (model.uncertain => model.executing = {})
  BY DEF TrackInv, ModelTracks, World
<1>7. service.uncertain => Warned(model, events, Len(events) + 1) \/ Aware(model, events, Len(events) + 1)
  BY <1>6 DEF Warnings
<1>8. Settles => Settles' \/ model.executing = {}
  <2>1. service.uncertain => Warned(model, events, 0) \/ model.executing = {}
    BY <1>0, <1>6, <1>7, WarnedEarlier DEF Aware
  <2> QED
    BY <1>0, <2>1 DEF Settles
<1>9. Warnings(model, events)'
  <2>1. ASSUME NEW p \in 1..Len(events), IsUncertain(events[p])
        PROVE  Warned(model, events, p) \/ Aware(model, events, p)
    <3>1. service.uncertain \/ Warned(model, events, p) \/ Aware(model, events, p)
      BY <1>6, <2>1 DEF Warnings
    <3>2. Warned(model, events, Len(events) + 1) => Warned(model, events, p)
      BY <1>0, <2>1, WarnedEarlier
    <3>3. Aware(model, events, Len(events) + 1) => Aware(model, events, p)
      BY <1>0, <2>1, WarnedEarlier
    <3> QED
      BY <1>7, <3>1, <3>2, <3>3
  <2> QED
    BY <1>0, <2>1 DEF Warnings, IsUncertain
<1> QED
  BY <1>0, <1>4, <1>5, <1>8, <1>9, BehindTracks

LEMMA PublishTracks ==
    ASSUME WindowInv, TrackInv, WindowInv', UNCHANGED <<window, port, events, tasks>>, mutation.pc = "run",
           NEW id, NEW loaded, Publish(id, loaded), job.kind \in {"create", "refresh"} \/ id = job.id
    PROVE  TrackInv'
<1>1. ServiceShaped(service) /\ MutationShaped(mutation) /\ CommandShaped(mutation.command)
  BY DEF WindowInv, Backstage, MutationShaped
<1>2. PICK gens, bodies : service' = [service EXCEPT !.profiles = loaded, !.gens = gens, !.bodies = bodies, !.uncertain = FALSE]
  BY DEF Publish
<1>3. service'.uncertain = FALSE /\ service'.profiles = loaded
  BY <1>1, <1>2 DEF ServiceShaped
<1> DEFINE fresh == Renewed(id, loaded) \cup Removed(id, loaded)
           named == [i \in Ids |-> IF i \in Renewed(id, loaded) THEN Fresh(fresh, i)
                                   ELSE IF loaded[i] = NoBody THEN NoGen ELSE service.gens[i]]
           gen == Fresh(fresh, id)
           shown == [i \in Ids |-> IF loaded[i] = NoBody THEN NoProfile
                                   ELSE [gen |-> named[i], body |-> loaded[i], secret |-> i \in service.secrets]]
           targets == {Target(i) : i \in Outdated(id, loaded)}
           retag == /\ job.kind = "update"
                    /\ Endpoint[service.profiles[id]] = Endpoint[loaded[id]]
                    /\ loaded[id] \in SessionBodies => job.secret = "Keep"
<1>8. mutation' = [mutation EXCEPT !.pc = "published", !.command.id = id, !.gen = gen,
                                   !.profiles = shown, !.targets = targets, !.retag = retag]
  BY DEF Publish
<1>9. \A i \in Ids : loaded[i] = NoBody => shown[i] = NoProfile
  OBVIOUS
<1> HIDE DEF gen, shown, targets, retag
<1>4. /\ mutation' = [mutation EXCEPT !.pc = "published", !.command.id = id, !.gen = gen,
                                      !.profiles = shown, !.targets = targets, !.retag = retag]
      /\ \A i \in Ids : loaded[i] = NoBody => shown[i] = NoProfile
  BY <1>8, <1>9
<1>5. /\ mutation'.pc = "published" /\ mutation'.profiles = shown
      /\ mutation'.command = [mutation.command EXCEPT !.id = id]
  BY <1>1, <1>4 DEF MutationShaped
<1>6. /\ mutation'.command.op = mutation.command.op /\ mutation'.command.kind = mutation.command.kind
      /\ mutation'.command.gen = mutation.command.gen /\ mutation'.command.id = id
  BY <1>1, <1>5 DEF CommandShaped
<1>7. ProfilesTold'
  <2>1. (\A k \in 1..Len(events) : IsLoad(events[k]) => ProfilesNamed(events[k].profiles))'
    BY DEF TrackInv, ModelTracks, IsLoad, ProfilesNamed
  <2>2. mutation'.command.kind = "refresh" => \A i \in Ids : shown[i].gen = NoGen => shown[i] = NoProfile
    <3>1. SUFFICES ASSUME mutation'.command.kind = "refresh", NEW i \in Ids, shown[i].gen = NoGen
                   PROVE  shown[i] = NoProfile
      OBVIOUS
    <3>2. mutation'.profiles[i].gen = service'.gens[i]
      BY <1>3, <1>5, <3>1 DEF WindowInv, Backstage, MutationSound, job
    <3>3. service'.profiles[i] = NoBody <=> service'.gens[i] = NoGen
      BY <3>1 DEF WindowInv, Backstage, GenerationsNamed
    <3> QED
      BY <1>3, <1>4, <1>5, <3>1, <3>2, <3>3
  <2>3. (job.kind = "refresh" => ProfilesNamed(mutation.profiles))'
    BY <1>5, <2>2 DEF job, ProfilesNamed
  <2> QED
    BY <2>1, <2>3 DEF ProfilesTold
<1> QED
  BY <1>5, <1>6, <1>7, MadeTracks DEF job

LEMMA EnterUncertainTracks ==
    ASSUME WindowInv, TrackInv, UNCHANGED <<window, port, events, tasks>>, mutation.pc = "run", EnterUncertain
    PROVE  TrackInv'
<1>1. ServiceShaped(service) /\ MutationShaped(mutation)
  BY DEF WindowInv, Backstage
<1>2. service'.uncertain
  BY <1>1 DEF EnterUncertain, ServiceShaped
<1>3. mutation'.pc = "published" /\ mutation'.command = mutation.command
  BY <1>1 DEF EnterUncertain, MutationShaped
<1>4. ProfilesTold'
  BY <1>2 DEF ProfilesTold, TrackInv, ModelTracks, IsLoad, ProfilesNamed
<1> QED
  BY <1>3, <1>4, MadeTracks

LEMMA WriteTracks ==
    ASSUME WindowInv, TrackInv, Write
    PROVE  TrackInv'
<1>0. WindowInv'
  BY WriteKeeps
<1>1. mutation.pc = "run" /\ UNCHANGED <<window, port, events, tasks>>
  BY DEF Write, mutationFrame
<1>2. PICK id : (job.kind = "create" \/ id = job.id) /\ (Publish(id, disk') \/ EnterUncertain)
  BY DEF Write
<1>3. PICK loaded : loaded = disk'
  OBVIOUS
<1>4. CASE Publish(id, disk')
  <2>1. Publish(id, loaded)
    BY <1>3, <1>4
  <2> QED
    BY <1>0, <1>1, <1>2, <2>1, PublishTracks
<1>5. CASE EnterUncertain
  BY <1>1, <1>5, EnterUncertainTracks
<1> QED
  BY <1>2, <1>4, <1>5

LEMMA ReloadTracks ==
    ASSUME WindowInv, TrackInv, Reload
    PROVE  TrackInv'
<1>0. WindowInv'
  BY ReloadKeeps
<1>1. mutation.pc = "run" /\ job.kind = "refresh" /\ UNCHANGED <<window, port, events, tasks>>
  BY DEF Reload, mutationFrame
<1>2. PICK id, loaded : id = NoId /\ loaded = disk
  OBVIOUS
<1>3. CASE Publish(NoId, disk)
  <2>1. Publish(id, loaded)
    BY <1>2, <1>3
  <2> QED
    BY <1>0, <1>1, <2>1, PublishTracks
<1>4. CASE EnterUncertain
  BY <1>1, <1>4, EnterUncertainTracks
<1> QED
  BY <1>3, <1>4 DEF Reload

\* The mutation is answered.
LEMMA AnsweredMutation ==
    ASSUME WindowInv, TrackInv, UNCHANGED <<window, tasks>>, mutation' = NoMutation, NEW e, Emit(port, e),
           AnswersIt(e, mutation.command)
    PROVE  /\ UNCHANGED <<model, app>> /\ SameLanes /\ events' = Append(events, e) /\ mutation'.pc = "none"
           /\ LanesShrink /\ Carried
<1>1. SameLanes /\ events' = Append(events, e)
  BY EmittedLanes DEF WindowInv, SameLanes
<1>2. LanesShrink /\ QueuedBut(mutation.command)
  BY <1>1, LanesSame
<1>3. RunningBut(mutation.command)
  BY MutationAlone
<1>4. Carried
  BY <1>1, <1>2, <1>3, CarriedReply
<1> QED
  BY <1>1, <1>2, <1>4 DEF window, NoMutation

\* It says that the configuration is uncertain: the window will take it for that, unless it does already.
LEMMA UncertainTracks ==
    ASSUME WindowInv, TrackInv, UNCHANGED <<window, tasks>>, mutation.pc = "join", mutation' = NoMutation,
           service'.uncertain = service.uncertain, service.uncertain, Emit(port, Uncertain(job.op))
    PROVE  TrackInv'
<1>0. PICK e, M : e = Uncertain(M) /\ M = job.op
  OBVIOUS
<1>1. /\ UNCHANGED <<model, app>> /\ events' = Append(events, e) /\ mutation'.pc = "none"
      /\ LanesShrink /\ Carried
  BY <1>0, AnsweredMutation, AnswersUncertain DEF job
<1>2. OperationsNumbered(World, events) /\ World.m = model /\ World.p = port
  BY DEF TrackInv, ModelTracks, World
<1>3. M \in Nat /\ M < model.nextOp /\ model.lastLoad \in Nat
  BY <1>0, <1>2 DEF OperationsNumbered, job
<1>4. Replying(e)
  BY <1>0, <1>1, <1>3 DEF Replying, Mild, IsLoad, IsUncertain, Uncertain
<1>5. OperationsNumbered(World, events)'
  BY <1>1, <1>4, NumberedStays
<1>6. ProfilesTold'
  BY <1>1, <1>4, ToldStays
<1>7. PICK more : more = events'
  OBVIOUS
<1>8. PICK L \in Nat : /\ L = Len(events) /\ Len(more) = L + 1 /\ more[L + 1] = e
                       /\ \A k \in 1..L : more[k] = events[k]
  BY <1>1, <1>7, QueueGrows DEF WindowInv, Answering, Queue
<1>9. \A k \in 1..Len(more) : IsLoad(more[k]) => more[k].op \in Nat /\ more[k].op < M
  <2>1. SUFFICES ASSUME NEW k \in 1..Len(more), IsLoad(more[k]) PROVE more[k].op \in Nat /\ more[k].op < M
    OBVIOUS
  <2>2. ~IsLoad(e)
    BY <1>0 DEF IsLoad, Uncertain
  <2>3. k \in 1..Len(events) /\ more[k] = events[k]
    BY <1>8, <2>1, <2>2
  <2>4. MutationsAbove(port, events[k].op) /\ events[k].op \in Nat
    BY <1>2, <2>1, <2>3 DEF OperationsNumbered
  <2> QED
    BY <1>0, <2>3, <2>4 DEF MutationsAbove, job
<1>10. Warned(model, more, Len(more) + 1) \/ Aware(model, more, Len(more) + 1)
  <2>1. CASE M > model.lastLoad
    <3>1. L + 1 \in 1..Len(more) /\ IsUncertain(more[L + 1]) /\ more[L + 1].op = M
      BY <1>0, <1>8 DEF IsUncertain, Uncertain
    <3>2. Warning(model, more, L + 1, Len(more) + 1)
      BY <1>9, <2>1, <3>1 DEF Warning
    <3> QED
      BY <3>1, <3>2 DEF Warned
  <2>2. CASE M <= model.lastLoad
    <3>1. model.uncertain
      <4>1. ~MutationsAbove(port, model.lastLoad)
        BY <1>0, <1>3, <2>2 DEF MutationsAbove, job
      <4> QED
        BY <1>2, <4>1 DEF OperationsNumbered
    <3>2. \A k \in 1..Len(more) : IsLoad(more[k]) => more[k].op <= model.lastLoad
      BY <1>3, <1>9, <2>2
    <3> QED
      BY <3>1, <3>2 DEF Aware
  <2> QED
    BY <1>3, <2>1, <2>2
<1>11. Warnings(model, events)'
  BY <1>1, <1>7, <1>10 DEF Warnings
<1>12. Settles'
  BY DEF Settles
<1> QED
  BY <1>1, <1>5, <1>6, <1>11, <1>12, BehindTracks

\* It brings the profiles, before every mutation that is still to be made.
LEMMA LoadTracks ==
    ASSUME WindowInv, TrackInv, UNCHANGED <<window, tasks>>, mutation.pc = "join", mutation' = NoMutation,
           service'.uncertain = service.uncertain, ~service.uncertain, job.kind = "refresh",
           Emit(port, [kind |-> "ProfilesLoaded", op |-> job.op, profiles |-> mutation.profiles])
    PROVE  TrackInv'
<1>0. PICK e, M : e = [kind |-> "ProfilesLoaded", op |-> M, profiles |-> mutation.profiles] /\ M = job.op
  OBVIOUS
<1>1. AnswersIt(e, mutation.command)
  BY DEF AnswersIt, IsOf, Matters, Named, job
<1>2. /\ UNCHANGED <<model, app>> /\ SameLanes /\ events' = Append(events, e) /\ mutation'.pc = "none"
      /\ LanesShrink /\ Carried
  BY <1>0, <1>1, AnsweredMutation
<1>3. OperationsNumbered(World, events) /\ World.m = model /\ World.p = port /\ World'.m = model /\ World'.p = port'
  BY <1>2 DEF TrackInv, ModelTracks, World
<1>4. M \in Nat /\ M < model.nextOp /\ \A k \in 1..Len(port.mutation) : M < port.mutation[k].op
  BY <1>0, <1>3 DEF OperationsNumbered, job
<1>5. PICK more : more = events'
  OBVIOUS
<1>6. PICK L \in Nat : /\ L = Len(events) /\ Len(more) = L + 1 /\ more[L + 1] = e
                       /\ \A k \in 1..L : more[k] = events[k]
  <2>1. Queue(events) /\ Len(events) \in Nat
    BY DEF WindowInv, Answering, Queue
  <2>2. more = Append(events, e)
    BY <1>2, <1>5
  <2>3. /\ Len(more) = Len(events) + 1 /\ more[Len(events) + 1] = e
        /\ \A k \in 1..Len(events) : more[k] = events[k]
    BY <2>1, <2>2, QueueGrows
  <2> QED
    BY <2>1, <2>3
<1>7. \A k \in 1..Len(more) : (k \in 1..Len(events) /\ more[k] = events[k]) \/ (k = L + 1 /\ more[k] = e)
  BY <1>6
<1>8. IsLoad(e) /\ ~IsUncertain(e) /\ e.op = M /\ e.profiles = mutation.profiles
  BY <1>0 DEF IsLoad, IsUncertain
<1>9. OperationsNumbered(World, events)'
  <2>1. /\ model.nextOp \in Nat /\ model.lastLoad \in Nat /\ model.lastLoad < model.nextOp /\ model.uncertain \in BOOLEAN
    BY <1>3 DEF OperationsNumbered
  <2>2. \A k \in 1..Len(more) : IsLoad(more[k]) \/ IsUncertain(more[k]) => more[k].op \in Nat /\ more[k].op < model.nextOp
    BY <1>3, <1>4, <1>7, <1>8 DEF OperationsNumbered
  <2>3. LanesNumbered(port', model.nextOp)
    BY <1>2 DEF LanesShrink
  <2>4. ASSUME NEW n, MutationsAbove(port, n) PROVE MutationsAbove(port, n)'
    BY <1>2, <2>4 DEF MutationsAbove, SameLanes
  <2>5. MutationsAbove(port, M)'
    BY <1>2, <1>4 DEF MutationsAbove, SameLanes
  <2>6. ~model.uncertain => MutationsAbove(port, model.lastLoad)'
    <3>1. PICK n : n = model.lastLoad
      OBVIOUS
    <3>2. ~model.uncertain => MutationsAbove(port, n)'
      BY <1>3, <2>4, <3>1 DEF OperationsNumbered
    <3> QED
      BY <1>2, <3>1, <3>2
  <2>7. ASSUME NEW k \in 1..Len(more), IsLoad(more[k]), NEW n, n = more[k].op PROVE MutationsAbove(port, n)'
    <3>1. CASE k \in 1..Len(events) /\ more[k] = events[k]
      BY <1>3, <2>4, <2>7, <3>1 DEF OperationsNumbered
    <3>2. CASE more[k] = e
      BY <1>8, <2>5, <2>7, <3>2
    <3> QED
      BY <1>7, <3>1, <3>2
  <2>8. (\A k \in 1..Len(events) : IsLoad(events[k]) => MutationsAbove(port, events[k].op))'
    BY <1>5, <2>7 DEF IsLoad, MutationsAbove
  <2> QED
    BY <1>2, <1>3, <1>5, <2>1, <2>2, <2>3, <2>6, <2>8 DEF OperationsNumbered, IsLoad, IsUncertain
<1>10. Warnings(model, events) /\ Queue(events) /\ ProfilesTold
  BY <1>3 DEF TrackInv, ModelTracks, WindowInv, Answering, ProfilesTold
<1>11. Warnings(model, events)'
  <2>1. ASSUME NEW p \in 1..Len(more), IsUncertain(more[p])
        PROVE  Warned(model, more, p) \/ Aware(model, more, p)
    <3>1. p \in 1..Len(events) /\ more[p] = events[p]
      BY <1>7, <1>8, <2>1
    <3>2. p \in Nat /\ p <= Len(events) + 1
      BY <1>6, <3>1
    <3>3. Warned(model, events, p) \/ Aware(model, events, p)
      BY <1>10, <2>1, <3>1 DEF Warnings
    <3>4. /\ Warned(model, events, p) => Warned(model, more, p)
          /\ Aware(model, events, p) => Aware(model, more, p)
      BY <1>2, <1>5, <1>10, <3>2, WarnedGrows
    <3> QED
      BY <3>3, <3>4
  <2> QED
    BY <1>2, <1>5, <2>1 DEF Warnings, IsUncertain
<1>12. Settles => Settles'
  <2>1. 0 \in Nat /\ 0 <= Len(events) + 1
    BY <1>6
  <2>2. Warned(model, events, 0) => Warned(model, more, 0)
    BY <1>2, <1>5, <1>10, <2>1, WarnedGrows
  <2> QED
    BY <1>2, <1>5, <2>2 DEF Settles
<1>13. ProfilesTold'
  <2>1. ProfilesNamed(mutation.profiles)
    BY <1>10 DEF ProfilesTold
  <2>2. \A k \in 1..Len(more) : IsLoad(more[k]) => ProfilesNamed(more[k].profiles)
    BY <1>7, <1>8, <1>10, <2>1 DEF ProfilesTold
  <2> QED
    BY <1>2, <1>5, <2>2 DEF ProfilesTold, IsLoad, ProfilesNamed
<1> QED
  BY <1>2, <1>9, <1>11, <1>12, <1>13, BehindTracks

LEMMA FinishMutationTracks ==
    ASSUME WindowInv, TrackInv, FinishMutation
    PROVE  TrackInv'
<1>1. UNCHANGED <<window, tasks>> /\ mutation.pc = "join" /\ mutation' = NoMutation
  BY DEF FinishMutation, mutationFrame
<1>2. service'.uncertain = service.uncertain /\ service.uncertain \in BOOLEAN
  BY DEF FinishMutation, WindowInv, Backstage, ServiceShaped
<1>3. job.kind \in {"refresh", "create", "update", "delete"}
  BY <1>1 DEF WindowInv, Backstage, MutationSound
<1>4. CASE service.uncertain
  <2>1. Emit(port, Uncertain(job.op))
    BY <1>4 DEF FinishMutation
  <2> QED
    BY <1>1, <1>2, <1>4, <2>1, UncertainTracks
<1>5. CASE ~service.uncertain /\ job.kind = "refresh"
  <2>1. Emit(port, [kind |-> "ProfilesLoaded", op |-> job.op, profiles |-> mutation.profiles])
    BY <1>5 DEF FinishMutation
  <2> QED
    BY <1>1, <1>2, <1>5, <2>1, LoadTracks
<1>6. CASE ~service.uncertain /\ job.kind # "refresh"
  <2>1. PICK e : /\ Emit(port, e) /\ e.op = job.op
                 /\ \/ e.kind = "ProfileDeleted" /\ e.id = job.id /\ job.kind = "delete"
                    \/ e.kind = "ProfileSaved" /\ job.kind # "delete"
    <3>1. CASE job.kind = "delete"
      BY <1>6, <3>1 DEF FinishMutation
    <3>2. CASE job.kind # "delete"
      BY <1>6, <3>2 DEF FinishMutation
    <3> QED
      BY <3>1, <3>2
  <2>2. AnswersIt(e, mutation.command)
    BY <1>3, <1>6, <2>1 DEF AnswersIt, AnswerOf, IsOf, Matters, Named, Answers, job
  <2>3. /\ UNCHANGED <<model, app>> /\ events' = Append(events, e) /\ mutation'.pc = "none"
        /\ LanesShrink /\ Carried
    BY <1>1, <2>1, <2>2, AnsweredMutation
  <2>4. Replying(e)
    BY <2>1, <2>3 DEF Replying, Mild, IsLoad, IsUncertain
  <2>5. OperationsNumbered(World, events)'
    BY <2>3, <2>4, NumberedStays
  <2>6. Warnings(model, events)' /\ (Settles => Settles')
    BY <1>2, <1>6, <2>3, <2>4, WarningsStay
  <2>7. ProfilesTold'
    BY <1>2, <2>3, <2>4, ToldStays
  <2> QED
    BY <2>3, <2>5, <2>6, <2>7, BehindTracks
<1> QED
  BY <1>2, <1>4, <1>5, <1>6

-----------------------------------------------------------------------------
(* The window takes an answer from the queue.  What the application still  *)
(* waits for is not what this answer was about.                            *)

\* e is the first of the answers, rest are the others.
FirstOf(answers, e, rest) ==
    /\ Len(rest) \in Nat /\ Len(answers) = Len(rest) + 1 /\ answers[1] = e
    /\ \A k \in 1..Len(rest) : rest[k] = answers[k + 1]

LEMMA FirstAnswer ==
    ASSUME NEW answers, Queue(answers), answers # <<>>
    PROVE  FirstOf(answers, Head(answers), Tail(answers))
<1>1. PICK rest : rest = Tail(answers)
  OBVIOUS
<1>2. /\ Queue(rest) /\ Len(answers) \in Nat \ {0} /\ Len(rest) = Len(answers) - 1 /\ Head(answers) = answers[1]
      /\ \A k \in 1..Len(rest) : rest[k] = answers[k + 1] /\ k + 1 \in 1..Len(answers)
  BY <1>1, QueueShrinks
<1> QED
  BY <1>1, <1>2 DEF FirstOf, Queue

LEMMA FirstOrLater ==
    ASSUME NEW answers, NEW e, NEW rest, FirstOf(answers, e, rest)
    PROVE  /\ 1 \in 1..Len(answers) /\ answers[1] = e
           /\ \A k \in 1..Len(rest) : k + 1 \in 1..Len(answers) /\ rest[k] = answers[k + 1]
           /\ \A k \in 1..Len(answers) : k # 1 => k - 1 \in 1..Len(rest) /\ answers[k] = rest[k - 1]
BY DEF FirstOf

LEMMA UnderLater ==
    ASSUME NEW answers, NEW e, NEW rest, FirstOf(answers, e, rest), NEW p, NEW kind, NEW op, NEW id, NEW gen,
           Under(p, answers, kind, op, id, gen), ~AnswerOf(e, kind, op, id, gen)
    PROVE  Under(p, rest, kind, op, id, gen)
<1>1. CASE Answered(answers, kind, op, id, gen)
  <2>1. PICK k \in 1..Len(answers) : AnswerOf(answers[k], kind, op, id, gen)
    BY <1>1 DEF Answered
  <2>2. k # 1
    BY <2>1, FirstOrLater
  <2>3. k - 1 \in 1..Len(rest) /\ answers[k] = rest[k - 1]
    BY <2>2, FirstOrLater
  <2> QED
    BY <2>1, <2>3 DEF Under, Answered
<1> QED
  BY <1>1 DEF Under

\* Everything but the prompt is as it was.
SamePlace(w, v) ==
    /\ Shaped(v) /\ v.m = w.m /\ v.p = w.p /\ v.a.ops = w.a.ops /\ v.a.deletes = w.a.deletes

LEMMA CaptureStays ==
    ASSUME NEW w, Shaped(w), NEW e, NEW v, v = CaptureError(w, e)
    PROVE  SamePlace(w, v) /\ v.a.prompt = w.a.prompt
<1>1. PICK x : x = [op |-> e.op, of |-> e.of, id |-> e.id, gen |-> e.gen, outcome |-> e.outcome]
  OBVIOUS
<1>2. PICK y : y = [NoError EXCEPT !.op = e.op]
  OBVIOUS
<1>3. v \in {w, [w EXCEPT !.a.error = NoError], [w EXCEPT !.a.error = x], [w EXCEPT !.a.error = y]}
  BY <1>1, <1>2 DEF CaptureError
<1>4. /\ v.m = w.m /\ v.p = w.p /\ v.a.ops = w.a.ops /\ v.a.deletes = w.a.deletes /\ v.a.prompt = w.a.prompt
  BY <1>3 DEF Shaped, AppShaped
<1>5. Shaped(v)
  BY CalmCaptureError DEF Calm
<1> QED
  BY <1>4, <1>5 DEF SamePlace

\* v is w after handle_credential_terminal of e.
Credited(w, e, v) ==
    /\ SamePlace(w, v) /\ (v.a.prompt = w.a.prompt \/ v.a.prompt = NoPrompt)
    /\ e.kind = "ConfigUncertain" \/ AnswersPrompt(w, e) => v.a.prompt = NoPrompt

LEMMA CredentialStays ==
    ASSUME NEW w, Shaped(w), NEW e, NEW v, v = HandleCredential(w, e)
    PROVE  Credited(w, e, v)
<1>1. PICK u : u = [w EXCEPT !.a.prompt = NoPrompt]
  OBVIOUS
<1>2. PICK x : x = [w EXCEPT !.a.prompt = NoPrompt, !.a.recipes = Without(@, w.a.prompt.recipe)]
  OBVIOUS
<1>3. /\ v \in {w, u, x}
      /\ e.kind = "ConfigUncertain" \/ AnswersPrompt(w, e) => v \in {u, x} \/ (v = w /\ w.a.prompt = NoPrompt)
  BY <1>1, <1>2 DEF HandleCredential, CancelPrompt
<1>4. /\ u.m = w.m /\ u.p = w.p /\ u.a.ops = w.a.ops /\ u.a.deletes = w.a.deletes /\ u.a.prompt = NoPrompt
  BY <1>1 DEF Shaped, AppShaped
<1>5. /\ x.m = w.m /\ x.p = w.p /\ x.a.ops = w.a.ops /\ x.a.deletes = w.a.deletes /\ x.a.prompt = NoPrompt
  BY <1>2 DEF Shaped, AppShaped
<1>6. Shaped(v)
  BY CalmHandleCredential DEF Calm
<1> QED
  BY <1>3, <1>4, <1>5, <1>6 DEF SamePlace, Credited

\* The prompt waits for its own answer.
LEMMA PromptLater ==
    ASSUME NEW w, Shaped(w), NEW answers, NEW e, NEW rest, FirstOf(answers, e, rest), AppTracks(w, answers),
           NEW u, u = CaptureError(w, e), NEW v, v = HandleCredential(u, e)
    PROVE  SamePlace(w, v) /\ TablesShaped(v.a) /\ PromptLives(v, rest)
<1>1. SamePlace(w, u) /\ u.a.prompt = w.a.prompt
  BY CaptureStays
<1>0. Shaped(u)
  BY <1>1 DEF SamePlace
<1>2. /\ SamePlace(u, v) /\ (v.a.prompt = u.a.prompt \/ v.a.prompt = NoPrompt)
      /\ e.kind = "ConfigUncertain" \/ AnswersPrompt(u, e) => v.a.prompt = NoPrompt
  BY <1>0, CredentialStays DEF Credited
<1>3. SamePlace(w, v)
  BY <1>1, <1>2 DEF SamePlace
<1>4. TablesShaped(v.a)
  BY <1>1, <1>2, <1>3 DEF SamePlace, AppTracks, TablesShaped, NoPrompt
<1>5. PromptLives(v, rest)
  <2>1. SUFFICES ASSUME v.a.prompt.store # 0
                 PROVE  Under(v.p, rest, "store", v.a.prompt.store, v.a.prompt.id, v.a.prompt.gen)
    BY DEF PromptLives
  <2>2. v.a.prompt = w.a.prompt /\ v.a.prompt # NoPrompt
    BY <1>1, <1>2, <2>1 DEF NoPrompt
  <2>3. PICK x : x = w.a.prompt
    OBVIOUS
  <2>4. Under(w.p, answers, "store", x.store, x.id, x.gen)
    BY <2>1, <2>2, <2>3 DEF AppTracks, PromptLives
  <2>5. e.kind # "ConfigUncertain" /\ ~AnswersPrompt(u, e)
    BY <1>2, <2>2
  <2>6. ~AnswerOf(e, "store", x.store, x.id, x.gen)
    BY <1>1, <2>1, <2>2, <2>3, <2>5 DEF AnswersPrompt, AnswerOf, Answers
  <2>7. Under(w.p, rest, "store", x.store, x.id, x.gen)
    BY <2>4, <2>6, UnderLater
  <2> QED
    BY <1>3, <2>2, <2>3, <2>7 DEF SamePlace
<1> QED
  BY <1>3, <1>4, <1>5

\* What finish_active_operation leaves of the operation and the deletion of profile i
OperationLeft(a, e, b, i) ==
    \/ b.ops[i] = Idle
    \/ b.ops[i] = a.ops[i] /\ a.ops[i].op # e.op
    \/ b.ops[i] = a.deletes[i].prior /\ ~a.deletes[i].finished /\ a.deletes[i].prior.op # e.op
DeletionLeft(a, e, b, i) ==
    \/ b.deletes[i] = NoDelete
    \/ /\ b.deletes[i].prior = a.deletes[i].prior
       /\ ~b.deletes[i].finished => ~a.deletes[i].finished /\ (a.deletes[i].prior = Idle \/ a.deletes[i].prior.op # e.op)

\* In b profile id has operation x and deletion y.
EntryOf(a, id, x, y, b) ==
    \A i \in Ids : IF i = id THEN b.ops[i] = x /\ b.deletes[i] = y
                   ELSE b.ops[i] = a.ops[i] /\ b.deletes[i] = a.deletes[i]

LEMMA TablesUpdated ==
    ASSUME NEW a, TablesShaped(a), NEW b, b.prompt = a.prompt, NEW id, NEW x, NEW y, DeleteShaped(y),
           b.ops = [a.ops EXCEPT ![id] = x], b.deletes = [a.deletes EXCEPT ![id] = y]
    PROVE  TablesShaped(b) /\ EntryOf(a, id, x, y, b)
<1>1. b.ops = [i \in Ids |-> b.ops[i]] /\ b.deletes = [i \in Ids |-> b.deletes[i]]
  BY DEF TablesShaped
<1>2. \A i \in Ids : IF i = id THEN b.ops[i] = x /\ b.deletes[i] = y
                             ELSE b.ops[i] = a.ops[i] /\ b.deletes[i] = a.deletes[i]
  BY DEF TablesShaped
<1>3. \A i \in Ids : DeleteShaped(b.deletes[i])
  BY <1>2 DEF TablesShaped
<1> QED
  BY <1>1, <1>2, <1>3 DEF TablesShaped, EntryOf

\* v is w with another operation and deletion of profile id, and other recipes.
Enters(w, id, x, y, r, v) == v = [w EXCEPT !.a.deletes[id] = y, !.a.ops[id] = x, !.a.recipes = r]
Entered(w, id, x, y, v) ==
    /\ v.m = w.m /\ v.p = w.p /\ v.a.prompt = w.a.prompt
    /\ v.a.ops = [w.a.ops EXCEPT ![id] = x] /\ v.a.deletes = [w.a.deletes EXCEPT ![id] = y]

LEMMA EntriesUpdated ==
    ASSUME NEW w, Shaped(w), NEW id, NEW x, NEW y, NEW r, NEW v, Enters(w, id, x, y, r, v)
    PROVE  Entered(w, id, x, y, v)
<1>1. w = [m |-> w.m, a |-> w.a, p |-> w.p]
  BY DEF Shaped
<1>2. PICK a : a = v.a
  OBVIOUS
<1>3. a = [w.a EXCEPT !.deletes[id] = y, !.ops[id] = x, !.recipes = r] /\ v.m = w.m /\ v.p = w.p
  BY <1>1, <1>2 DEF Enters
<1>4. a.prompt = w.a.prompt /\ a.ops = [w.a.ops EXCEPT ![id] = x] /\ a.deletes = [w.a.deletes EXCEPT ![id] = y]
  BY <1>3 DEF Shaped, AppShaped
<1> QED
  BY <1>2, <1>3, <1>4 DEF Entered

\* v is w after finish_active_operation of e.
Finished(w, e, v) ==
    /\ Shaped(v) /\ v.m = w.m /\ v.p = w.p /\ v.a.prompt = w.a.prompt /\ TablesShaped(v.a)
    /\ e.kind = "ConfigUncertain" => \A i \in Ids : v.a.ops[i] = Idle /\ v.a.deletes[i] = NoDelete
    /\ e.kind # "ConfigUncertain" /\ e.kind \notin Terminals => v = w
    /\ e.kind \in Terminals =>
          \A i \in Ids : IF i = e.id THEN OperationLeft(w.a, e, v.a, i) /\ DeletionLeft(w.a, e, v.a, i)
                         ELSE v.a.ops[i] = w.a.ops[i] /\ v.a.deletes[i] = w.a.deletes[i]

LEMMA FinishLeaves ==
    ASSUME NEW w, Shaped(w), TablesShaped(w.a), NEW e, NEW v, v = FinishActive(w, e)
    PROVE  Finished(w, e, v)
<1>0. Shaped(v)
  BY CalmFinishActive DEF Calm
<1>00. DeleteShaped(NoDelete)
  BY DEF DeleteShaped, NoDelete
<1>1. CASE e.kind = "ConfigUncertain"
  <2>1. v = [w EXCEPT !.a.ops = EmptyApp.ops, !.a.deletes = EmptyApp.deletes, !.a.recipes = {}]
    BY <1>1 DEF FinishActive
  <2>2. /\ v.m = w.m /\ v.p = w.p /\ v.a.prompt = w.a.prompt
        /\ v.a.ops = EmptyApp.ops /\ v.a.deletes = EmptyApp.deletes
    <3>1. w = [m |-> w.m, a |-> w.a, p |-> w.p]
      BY DEF Shaped
    <3>2. PICK a : a = v.a
      OBVIOUS
    <3>3. a = [w.a EXCEPT !.ops = EmptyApp.ops, !.deletes = EmptyApp.deletes, !.recipes = {}] /\ v.m = w.m /\ v.p = w.p
      BY <2>1, <3>1, <3>2
    <3>4. a.prompt = w.a.prompt /\ a.ops = EmptyApp.ops /\ a.deletes = EmptyApp.deletes
      BY <3>3 DEF Shaped, AppShaped
    <3> QED
      BY <3>2, <3>3, <3>4
  <2>3. v.a.ops = [i \in Ids |-> Idle] /\ v.a.deletes = [i \in Ids |-> NoDelete]
    BY <2>2 DEF EmptyApp
  <2>4. TablesShaped(v.a)
    BY <1>00, <2>2, <2>3 DEF TablesShaped
  <2> QED
    BY <1>0, <1>1, <2>2, <2>3, <2>4 DEF Terminals, Finished
<1>2. CASE e.kind # "ConfigUncertain" /\ e.kind \notin Terminals
  BY <1>0, <1>2 DEF FinishActive, Finished
<1>3. CASE e.kind \in Terminals
  <2> DEFINE d == w.a.deletes[e.id]
             finished == d.finished \/ (d.prior # Idle /\ d.prior.op = e.op)
             rest == IF w.a.ops[e.id].op = e.op THEN Idle ELSE w.a.ops[e.id]
             back == IF e.uncommitted /\ ~finished /\ d.prior # Idle /\ w.m.active[e.id] = d.gen THEN d.prior ELSE rest
             kept == IF e.kind = "ProfileDeleted" THEN NoDelete
                     ELSE IF d = NoDelete THEN d ELSE [d EXCEPT !.finished = finished]
             recipes == IF Fails(e) THEN w.a.recipes ELSE Without(w.a.recipes, e.op)
  <2>0. e.kind # "ConfigUncertain"
    BY <1>3 DEF Terminals
  <2>1. \/ v = [w EXCEPT !.a.deletes[e.id] = NoDelete, !.a.ops[e.id] = back]
        \/ v = [w EXCEPT !.a.deletes[e.id] = kept, !.a.ops[e.id] = rest, !.a.recipes = recipes]
    <3>1. CASE e.kind = "OperationFailed" /\ e.of = "delete" /\ d.op = e.op
      BY <1>3, <2>0, <3>1 DEF FinishActive
    <3>2. CASE ~(e.kind = "OperationFailed" /\ e.of = "delete" /\ d.op = e.op)
      <4>1. v = [w EXCEPT !.a.deletes[e.id] = IF e.kind = "ProfileDeleted" THEN NoDelete
                                                ELSE IF d = NoDelete THEN d
                                                ELSE [d EXCEPT !.finished = finished],
                          !.a.ops[e.id] = rest,
                          !.a.recipes = IF Fails(e) THEN @ ELSE Without(@, e.op)]
        BY <1>3, <2>0, <3>2 DEF FinishActive
      <4> QED
        BY <4>1 DEF Shaped, AppShaped
    <3> QED
      BY <3>1, <3>2
  <2>2. rest \in {Idle, w.a.ops[e.id]} /\ (rest # Idle => w.a.ops[e.id].op # e.op)
    OBVIOUS
  <2>3. back = rest \/ (back = d.prior /\ ~d.finished /\ d.prior.op # e.op)
    OBVIOUS
  <2>4. e.id \in Ids => DeleteShaped(kept) /\ (kept = NoDelete \/ (kept.prior = d.prior /\ (~kept.finished => ~finished)))
    <3>1. SUFFICES ASSUME e.id \in Ids
                   PROVE  DeleteShaped(kept) /\ (kept = NoDelete \/ (kept.prior = d.prior /\ (~kept.finished => ~finished)))
      OBVIOUS
    <3>2. DeleteShaped(d) /\ finished \in BOOLEAN
      BY <3>1 DEF TablesShaped
    <3>3. CASE kept = NoDelete
      BY <1>00, <3>3
    <3>4. CASE kept = [d EXCEPT !.finished = finished]
      <4>1. PICK f \in BOOLEAN : f = finished
        BY <3>2
      <4>2. kept = [op |-> d.op, gen |-> d.gen, prior |-> d.prior, finished |-> f]
        BY <3>2, <3>4, <4>1 DEF DeleteShaped
      <4> HIDE DEF kept, finished
      <4>3. DeleteShaped(kept) /\ kept.prior = d.prior /\ kept.finished = f
        BY <4>2 DEF DeleteShaped
      <4> QED
        BY <4>1, <4>3
    <3> QED
      BY <3>3, <3>4
  <2>5. finished \in BOOLEAN /\ (~finished => ~d.finished /\ (d.prior = Idle \/ d.prior.op # e.op))
    OBVIOUS
  <2> HIDE DEF kept, back, rest, finished, recipes
  <2>9. PICK x, y : /\ (x = back /\ y = NoDelete) \/ (x = rest /\ y = kept)
                    /\ Entered(w, e.id, x, y, v)
    <3>1. CASE v = [w EXCEPT !.a.deletes[e.id] = NoDelete, !.a.ops[e.id] = back]
      <4>1. PICK r : r = w.a.recipes
        OBVIOUS
      <4>2. Enters(w, e.id, back, NoDelete, r, v)
        BY ZenonT(60), <3>1, <4>1 DEF Enters, Shaped, AppShaped
      <4> QED
        BY <4>2, EntriesUpdated
    <3>2. CASE v = [w EXCEPT !.a.deletes[e.id] = kept, !.a.ops[e.id] = rest, !.a.recipes = recipes]
      <4>1. Enters(w, e.id, rest, kept, recipes, v)
        BY <3>2 DEF Enters
      <4> QED
        BY <4>1, EntriesUpdated
    <3> QED
      BY <2>1, <3>1, <3>2
  <2>6. /\ (x = back /\ y = NoDelete) \/ (x = rest /\ y = kept)
        /\ v.m = w.m /\ v.p = w.p /\ v.a.prompt = w.a.prompt
        /\ v.a.ops = [w.a.ops EXCEPT ![e.id] = x] /\ v.a.deletes = [w.a.deletes EXCEPT ![e.id] = y]
    BY <2>9 DEF Entered
  <2>7. CASE e.id \in Ids
    <3>1. DeleteShaped(y)
      BY <1>00, <2>4, <2>6, <2>7
    <3>0. TablesShaped(v.a) /\ EntryOf(w.a, e.id, x, y, v.a)
      BY <2>6, <3>1, TablesUpdated
    <3>2. /\ TablesShaped(v.a)
          /\ \A i \in Ids : IF i = e.id THEN v.a.ops[i] = x /\ v.a.deletes[i] = y
                             ELSE v.a.ops[i] = w.a.ops[i] /\ v.a.deletes[i] = w.a.deletes[i]
      BY <3>0 DEF EntryOf
    <3>3. OperationLeft(w.a, e, v.a, e.id)
      BY <2>2, <2>3, <2>6, <2>7, <3>2 DEF OperationLeft
    <3>4. DeletionLeft(w.a, e, v.a, e.id)
      BY <2>4, <2>5, <2>6, <2>7, <3>2 DEF DeletionLeft
    <3> QED
      BY <1>0, <1>3, <2>0, <2>6, <3>2, <3>3, <3>4 DEF Finished
  <2>8. CASE e.id \notin Ids
    <3>1. v.a.ops = w.a.ops /\ v.a.deletes = w.a.deletes
      BY ZenonT(60), <2>6, <2>8 DEF TablesShaped
    <3>2. TablesShaped(v.a)
      BY <2>6, <3>1 DEF TablesShaped
    <3> QED
      BY <1>0, <1>3, <2>0, <2>6, <2>8, <3>1, <3>2 DEF Finished
  <2> QED
    BY <2>7, <2>8
<1> QED
  BY <1>1, <1>2, <1>3

\* An operation that lives and is not the one that ended lives on.
LEMMA LivesLater ==
    ASSUME NEW answers, NEW e, NEW rest, FirstOf(answers, e, rest), NEW p, NEW x, NEW i, Named(x.kind, i),
           Under(p, answers, x.kind, x.op, i, x.gen), e.kind # "ConfigUncertain",
           e.kind \notin Terminals \/ i # e.id \/ x.op # e.op \/ e.kind = "RedisKeys"
    PROVE  Under(p, rest, x.kind, x.op, i, x.gen)
<1>1. ~AnswerOf(e, x.kind, x.op, i, x.gen)
  BY DEF AnswerOf, Answers, Named, Terminals
<1> QED
  BY <1>1, UnderLater

LEMMA FinishLater ==
    ASSUME NEW w, Shaped(w), NEW answers, NEW e, NEW rest, FirstOf(answers, e, rest),
           TablesShaped(w.a), PromptLives(w, rest),
           \A i \in Ids : OperationLives(w, answers, i) /\ PriorLives(w, answers, i),
           NEW v, v = FinishActive(w, e)
    PROVE  Shaped(v) /\ v.m = w.m /\ v.p = w.p /\ AppTracks(v, rest)
<1>0. Finished(w, e, v)
  BY FinishLeaves
<1>1. Shaped(v) /\ v.m = w.m /\ v.p = w.p /\ v.a.prompt = w.a.prompt /\ TablesShaped(v.a)
  BY <1>0 DEF Finished
<1>2. PromptLives(v, rest)
  BY <1>1 DEF PromptLives
<1>3. ASSUME NEW i \in Ids PROVE OperationLives(v, rest, i) /\ PriorLives(v, rest, i)
  <2>0. OperationLives(w, answers, i) /\ PriorLives(w, answers, i)
    BY <1>3
  <2>1. CASE e.kind = "ConfigUncertain"
    <3>1. v.a.ops[i] = Idle /\ v.a.deletes[i] = NoDelete
      BY <1>0, <1>3, <2>1 DEF Finished
    <3> QED
      BY <3>1, IdleLives DEF OperationLives, PriorLives
  <2>2. CASE e.kind # "ConfigUncertain" /\ (e.kind \notin Terminals \/ i # e.id)
    <3>1. v.a.ops[i] = w.a.ops[i] /\ v.a.deletes[i] = w.a.deletes[i]
      BY <1>0, <1>3, <2>2 DEF Finished
    <3>2. OperationLives(v, rest, i)
      BY <1>1, <2>0, <2>2, <3>1, LivesLater DEF OperationLives
    <3>3. PriorLives(v, rest, i)
      BY <1>1, <2>0, <2>2, <3>1, LivesLater DEF PriorLives
    <3> QED
      BY <3>2, <3>3
  <2>3. CASE e.kind \in Terminals /\ i = e.id
    <3>0. e.kind # "ConfigUncertain"
      BY <2>3 DEF Terminals
    <3>1. OperationLeft(w.a, e, v.a, i) /\ DeletionLeft(w.a, e, v.a, i)
      BY <1>0, <1>3, <2>3 DEF Finished
    <3>2. OperationLives(v, rest, i)
      <4>1. CASE v.a.ops[i] = Idle
        BY <4>1, IdleLives DEF OperationLives
      <4>2. CASE v.a.ops[i] = w.a.ops[i] /\ w.a.ops[i].op # e.op
        BY <1>1, <2>0, <3>0, <4>2, LivesLater DEF OperationLives
      <4>3. CASE v.a.ops[i] = w.a.deletes[i].prior /\ ~w.a.deletes[i].finished /\ w.a.deletes[i].prior.op # e.op
        BY <1>1, <2>0, <3>0, <4>3, LivesLater DEF OperationLives, PriorLives
      <4> QED
        BY <3>1, <4>1, <4>2, <4>3 DEF OperationLeft
    <3>3. PriorLives(v, rest, i)
      <4>1. CASE v.a.deletes[i] = NoDelete
        BY <4>1, IdleLives DEF PriorLives
      <4>2. CASE /\ v.a.deletes[i].prior = w.a.deletes[i].prior
                 /\ ~v.a.deletes[i].finished => ~w.a.deletes[i].finished /\ (w.a.deletes[i].prior = Idle \/ w.a.deletes[i].prior.op # e.op)
        <5>1. PICK x : x = w.a.deletes[i].prior
          OBVIOUS
        <5>2. KindKnown(x) /\ (~w.a.deletes[i].finished /\ Named(x.kind, i) => Under(w.p, answers, x.kind, x.op, i, x.gen))
          BY <2>0, <5>1 DEF PriorLives
        <5>3. ~v.a.deletes[i].finished /\ Named(x.kind, i) => x.op # e.op
          BY <4>2, <5>1, IdleLives
        <5>4. ~v.a.deletes[i].finished /\ Named(x.kind, i) => Under(v.p, rest, x.kind, x.op, i, x.gen)
          BY <1>1, <3>0, <4>2, <5>1, <5>2, <5>3, LivesLater
        <5> QED
          BY <4>2, <5>1, <5>2, <5>4 DEF PriorLives
      <4> QED
        BY <3>1, <4>1, <4>2 DEF DeletionLeft
    <3> QED
      BY <3>2, <3>3
  <2> QED
    BY <2>1, <2>2, <2>3
<1> QED
  BY <1>1, <1>2, <1>3 DEF AppTracks

-----------------------------------------------------------------------------
(* What the model makes of an answer, and of the warnings behind it        *)

\* The answer changes nothing of what is loaded; it is a load; or it warns.
Stays(m, n, e) ==
    n.lastLoad = m.lastLoad /\ n.uncertain = m.uncertain /\ ~(IsUncertain(e) /\ e.op > m.lastLoad)
Loads(m, n, e) ==
    IsLoad(e) /\ e.op > m.lastLoad /\ n.lastLoad = e.op /\ (n.uncertain = FALSE \/ n.uncertain = m.uncertain)
Doubts(m, n, e) ==
    IsUncertain(e) /\ e.op > m.lastLoad /\ n.lastLoad = e.op /\ n.uncertain = TRUE

OpsNat(answers) == \A k \in 1..Len(answers) : IsLoad(answers[k]) \/ IsUncertain(answers[k]) => answers[k].op \in Nat

LEMMA WarnedLater ==
    ASSUME NEW answers, NEW e, NEW rest, FirstOf(answers, e, rest), NEW m, NEW n, Stays(m, n, e) \/ Loads(m, n, e),
           NEW i \in Nat, NEW j \in Nat, j = 0 \/ j + 1 <= i, Warned(m, answers, i)
    PROVE  Warned(n, rest, j)
<1>1. PICK q \in 1..Len(answers) : Warning(m, answers, q, i)
  BY DEF Warned
<1>2. IsUncertain(answers[q]) /\ answers[q].op > m.lastLoad
  BY <1>1 DEF Warning
<1>3. q # 1 /\ answers[q].op > n.lastLoad
  <2>1. CASE Stays(m, n, e)
    BY <1>2, <2>1, FirstOrLater DEF Stays
  <2>2. CASE Loads(m, n, e)
    <3>1. answers[1] = e /\ 1 \in 1..Len(answers)
      BY FirstOrLater
    <3>2. q # 1
      BY <1>2, <2>2, <3>1 DEF Loads, IsLoad, IsUncertain
    <3>3. IsLoad(answers[1]) /\ 1 < q
      BY <2>2, <3>1, <3>2 DEF Loads
    <3>4. answers[1].op < answers[q].op
      BY <1>1, <3>1, <3>3 DEF Warning
    <3> QED
      BY <2>2, <3>1, <3>2, <3>4 DEF Loads
  <2> QED
    BY <2>1, <2>2
<1>4. PICK r : r = q - 1
  OBVIOUS
<1>5. r \in 1..Len(rest) /\ answers[q] = rest[r]
  BY <1>3, <1>4, FirstOrLater
<1>6. ASSUME NEW k \in 1..Len(rest), IsLoad(rest[k]), k < r \/ k < j
      PROVE  rest[k].op < rest[r].op
  <2>1. PICK l : l = k + 1
    OBVIOUS
  <2>2. l \in 1..Len(answers) /\ rest[k] = answers[l]
    BY <2>1, FirstOrLater
  <2>3. l < q \/ l < i
    BY <1>4, <1>6, <2>1
  <2> QED
    BY <1>1, <1>5, <1>6, <2>2, <2>3 DEF Warning
<1>7. Warning(n, rest, r, j)
  BY <1>2, <1>3, <1>5, <1>6 DEF Warning
<1> QED
  BY <1>5, <1>7 DEF Warned

LEMMA AwareLater ==
    ASSUME NEW answers, NEW e, NEW rest, FirstOf(answers, e, rest), NEW m, NEW n, Stays(m, n, e) \/ Loads(m, n, e),
           OpsNat(answers), m.lastLoad \in Nat, NEW j \in Nat \ {0}, Aware(m, answers, j + 1)
    PROVE  Aware(n, rest, j)
<1>1. CASE Stays(m, n, e)
  <2>1. n.uncertain /\ n.lastLoad = m.lastLoad
    BY <1>1 DEF Aware, Stays
  <2>2. ASSUME NEW k \in 1..Len(rest), IsLoad(rest[k]), k < j PROVE rest[k].op <= n.lastLoad
    <3>1. PICK l : l = k + 1
      OBVIOUS
    <3>2. l \in 1..Len(answers) /\ rest[k] = answers[l] /\ l < j + 1
      BY <2>2, <3>1, FirstOrLater
    <3> QED
      BY <2>1, <2>2, <3>2 DEF Aware
  <2> QED
    BY <2>1, <2>2 DEF Aware
<1>2. CASE Loads(m, n, e)
  <2>1. 1 \in 1..Len(answers) /\ answers[1] = e /\ 1 < j + 1
    BY FirstOrLater
  <2>2. e.op <= m.lastLoad
    BY <1>2, <2>1 DEF Aware, Loads
  <2>3. e.op \in Nat
    BY <1>2, <2>1 DEF OpsNat, Loads
  <2> QED
    BY <1>2, <2>2, <2>3 DEF Loads
<1> QED
  BY <1>1, <1>2

LEMMA DoubtLater ==
    ASSUME NEW answers, NEW e, NEW rest, FirstOf(answers, e, rest), NEW m, NEW n, Doubts(m, n, e),
           OpsNat(answers), m.lastLoad \in Nat, NEW j \in Nat \ {0},
           Warned(m, answers, j + 1) \/ Aware(m, answers, j + 1)
    PROVE  Warned(n, rest, j) \/ Aware(n, rest, j)
<1>1. /\ 1 \in 1..Len(answers) /\ answers[1] = e
      /\ \A k \in 1..Len(rest) : k + 1 \in 1..Len(answers) /\ rest[k] = answers[k + 1]
  BY FirstOrLater
<1>2. e.op \in Nat /\ n.lastLoad = e.op /\ n.uncertain /\ e.op > m.lastLoad
  BY <1>1 DEF OpsNat, Doubts
<1>3. ASSUME NEW o \in Nat, o <= e.op, \A k \in 1..Len(answers) : IsLoad(answers[k]) /\ k < j + 1 => answers[k].op <= o
      PROVE  Aware(n, rest, j)
  <2>1. ASSUME NEW k \in 1..Len(rest), IsLoad(rest[k]), k < j PROVE rest[k].op <= n.lastLoad
    <3>1. PICK l : l = k + 1
      OBVIOUS
    <3>2. l \in 1..Len(answers) /\ rest[k] = answers[l] /\ l < j + 1
      BY <1>1, <2>1, <3>1
    <3>3. answers[l].op <= o /\ answers[l].op \in Nat
      BY <1>3, <2>1, <3>2 DEF OpsNat
    <3> QED
      BY <1>2, <1>3, <3>2, <3>3
  <2> QED
    BY <1>2, <2>1 DEF Aware
<1>4. CASE Aware(m, answers, j + 1)
  <2>1. \A k \in 1..Len(answers) : IsLoad(answers[k]) /\ k < j + 1 => answers[k].op <= m.lastLoad
    BY <1>4 DEF Aware
  <2>2. PICK o \in Nat : o = m.lastLoad /\ o <= e.op
    BY <1>2
  <2>3. \A k \in 1..Len(answers) : IsLoad(answers[k]) /\ k < j + 1 => answers[k].op <= o
    BY <2>1, <2>2
  <2> QED
    BY <1>3, <2>2, <2>3
<1>5. CASE Warned(m, answers, j + 1)
  <2>1. PICK q \in 1..Len(answers) : Warning(m, answers, q, j + 1)
    BY <1>5 DEF Warned
  <2>2. PICK o : o = answers[q].op
    OBVIOUS
  <2>3. /\ IsUncertain(answers[q]) /\ o \in Nat
        /\ \A k \in 1..Len(answers) : IsLoad(answers[k]) /\ (k < q \/ k < j + 1) => answers[k].op < o
    BY <2>1, <2>2 DEF Warning, OpsNat
  <2>4. CASE o <= e.op
    <3>1. \A k \in 1..Len(answers) : IsLoad(answers[k]) /\ k < j + 1 => answers[k].op <= o
      BY <2>3 DEF OpsNat
    <3> QED
      BY <1>3, <2>3, <2>4, <3>1
  <2>5. CASE o > e.op
    <3>1. q # 1
      BY <1>1, <1>2, <2>2, <2>5
    <3>2. PICK r : r = q - 1
      OBVIOUS
    <3>3. r \in 1..Len(rest) /\ answers[q] = rest[r]
      BY <3>1, <3>2, FirstOrLater
    <3>4. ASSUME NEW k \in 1..Len(rest), IsLoad(rest[k]), k < r \/ k < j
          PROVE  rest[k].op < rest[r].op
      <4>1. PICK l : l = k + 1
        OBVIOUS
      <4>2. l \in 1..Len(answers) /\ rest[k] = answers[l]
        BY <1>1, <4>1
      <4>3. l < q \/ l < j + 1
        BY <3>2, <3>4, <4>1
      <4> QED
        BY <2>2, <2>3, <3>3, <3>4, <4>2, <4>3
    <3>5. Warning(n, rest, r, j)
      BY <1>2, <2>2, <2>3, <2>5, <3>3, <3>4 DEF Warning
    <3> QED
      BY <3>3, <3>5 DEF Warned
  <2> QED
    BY <1>2, <2>3, <2>4, <2>5
<1> QED
  BY <1>4, <1>5

LEMMA WarningsLater ==
    ASSUME NEW answers, NEW e, NEW rest, FirstOf(answers, e, rest), NEW m, NEW n,
           Stays(m, n, e) \/ Loads(m, n, e) \/ Doubts(m, n, e),
           OpsNat(answers), m.lastLoad \in Nat, Warnings(m, answers)
    PROVE  Warnings(n, rest)
<1>1. ASSUME NEW j \in Nat \ {0}, Warned(m, answers, j + 1) \/ Aware(m, answers, j + 1)
      PROVE  Warned(n, rest, j) \/ Aware(n, rest, j)
  <2>1. CASE Doubts(m, n, e)
    BY <1>1, <2>1, DoubtLater
  <2>2. CASE Stays(m, n, e) \/ Loads(m, n, e)
    <3>1. j \in Nat /\ j + 1 \in Nat /\ j + 1 <= j + 1
      BY <1>1
    <3>2. Warned(m, answers, j + 1) => Warned(n, rest, j)
      BY <2>2, <3>1, WarnedLater
    <3>3. Aware(m, answers, j + 1) => Aware(n, rest, j)
      BY <1>1, <2>2, AwareLater
    <3> QED
      BY <1>1, <3>2, <3>3
  <2> QED
    BY <2>1, <2>2
<1>2. Len(rest) + 1 \in Nat \ {0} /\ Len(answers) + 1 = (Len(rest) + 1) + 1
  BY DEF FirstOf
<1>3. service.uncertain /\ mutation.pc \in {"none", "run"} =>
          Warned(n, rest, Len(rest) + 1) \/ Aware(n, rest, Len(rest) + 1)
  <2>1. service.uncertain /\ mutation.pc \in {"none", "run"} =>
          Warned(m, answers, Len(answers) + 1) \/ Aware(m, answers, Len(answers) + 1)
    BY DEF Warnings
  <2>2. PICK j \in Nat \ {0} : j = Len(rest) + 1 /\ Len(answers) + 1 = j + 1
    BY <1>2
  <2> QED
    BY <1>1, <2>1, <2>2
<1>4. ASSUME NEW p \in 1..Len(rest), IsUncertain(rest[p])
      PROVE  service.uncertain \/ Warned(n, rest, p) \/ Aware(n, rest, p)
  <2>1. p \in Nat \ {0} /\ p + 1 \in 1..Len(answers) /\ rest[p] = answers[p + 1]
    BY <1>4, FirstOrLater
  <2>2. service.uncertain \/ Warned(m, answers, p + 1) \/ Aware(m, answers, p + 1)
    BY <1>4, <2>1 DEF Warnings
  <2> QED
    BY <1>1, <2>1, <2>2
<1> QED
  BY <1>3, <1>4 DEF Warnings

\* The statements that are still waited for are not those the answer was about.
Settled(m, n, e, x) ==
    /\ x.gen <= n.active[x.id]
    /\ x.gen = n.active[x.id] =>
         x.gen = m.active[x.id] /\ (IsUncertain(e) \/ ~AnswerOf(e, "execute", x.op, x.id, x.gen))
Settling(m, n, e) ==
    /\ ProfilesNamed(n.profiles) /\ n.executing \subseteq m.executing
    /\ \A x \in n.executing : Settled(m, n, e, x)
Turns(m, n, e) ==
    /\ n.nextOp = m.nextOp /\ Settling(m, n, e)
    /\ Stays(m, n, e) \/ Loads(m, n, e) \/ (Doubts(m, n, e) /\ n.executing = {})

LEMMA NumberedLater ==
    ASSUME NEW answers, NEW e, NEW rest, FirstOf(answers, e, rest), NEW w, NEW v, v.p = w.p, Turns(w.m, v.m, e),
           OperationsNumbered(w, answers)
    PROVE  OperationsNumbered(v, rest)
<1>0. v.m.nextOp = w.m.nextOp /\ v.p = w.p
  BY DEF Turns
<1>1. /\ 1 \in 1..Len(answers) /\ answers[1] = e
      /\ \A k \in 1..Len(rest) : k + 1 \in 1..Len(answers) /\ rest[k] = answers[k + 1]
  BY FirstOrLater
<1>2. /\ w.m.nextOp \in Nat /\ w.m.lastLoad \in Nat /\ w.m.lastLoad < w.m.nextOp /\ w.m.uncertain \in BOOLEAN
      /\ LanesNumbered(w.p, w.m.nextOp)
  BY DEF OperationsNumbered
<1>3. /\ IsLoad(e) \/ IsUncertain(e) => e.op \in Nat /\ e.op < w.m.nextOp
      /\ IsLoad(e) => MutationsAbove(w.p, e.op)
  BY <1>1 DEF OperationsNumbered
<1>4. v.m.lastLoad = w.m.lastLoad \/ ((IsLoad(e) \/ IsUncertain(e)) /\ v.m.lastLoad = e.op)
  BY DEF Turns, Stays, Loads, Doubts
<1>5. v.m.lastLoad \in Nat /\ v.m.lastLoad < w.m.nextOp
  BY <1>2, <1>3, <1>4
<1>6. v.m.uncertain \in BOOLEAN
  BY <1>2 DEF Turns, Stays, Loads, Doubts
<1>7. ~v.m.uncertain => MutationsAbove(v.p, v.m.lastLoad)
  <2>1. ~w.m.uncertain => MutationsAbove(w.p, w.m.lastLoad)
    BY DEF OperationsNumbered
  <2>2. CASE Stays(w.m, v.m, e)
    BY <1>0, <2>1, <2>2 DEF Stays
  <2>3. CASE Loads(w.m, v.m, e)
    BY <1>0, <1>3, <2>3 DEF Loads
  <2>4. CASE Doubts(w.m, v.m, e)
    BY <2>4 DEF Doubts
  <2> QED
    BY <2>2, <2>3, <2>4 DEF Turns
<1>8. mutation.pc # "none" => /\ mutation.command.op \in Nat /\ mutation.command.op < v.m.nextOp
                              /\ \A k \in 1..Len(v.p.mutation) : mutation.command.op < v.p.mutation[k].op
  BY <1>0 DEF OperationsNumbered
<1>9. /\ \A k \in 1..Len(rest) : IsLoad(rest[k]) \/ IsUncertain(rest[k]) => rest[k].op \in Nat /\ rest[k].op < v.m.nextOp
      /\ \A k \in 1..Len(rest) : IsLoad(rest[k]) => MutationsAbove(v.p, rest[k].op)
  BY <1>0, <1>1 DEF OperationsNumbered
<1> QED
  BY <1>0, <1>2, <1>5, <1>6, <1>7, <1>8, <1>9 DEF OperationsNumbered

LEMMA ExecutingLater ==
    ASSUME NEW answers, NEW e, NEW rest, FirstOf(answers, e, rest), NEW w, NEW v, v.p = w.p, Turns(w.m, v.m, e),
           ModelTracks(w, answers), NEW x \in v.m.executing
    PROVE  Executing(v, rest, x)
<1>1. x \in w.m.executing /\ Settled(w.m, v.m, e, x)
  BY DEF Turns, Settling
<1>2. Executing(w, answers, x)
  BY <1>1 DEF ModelTracks
<1>3. Stays(w.m, v.m, e) \/ Loads(w.m, v.m, e)
  BY DEF Turns
<1>4. ASSUME Warned(w.m, answers, 0) \/ Warned(w.m, answers, 1) PROVE Warned(v.m, rest, 0)
  <2>1. 0 \in Nat /\ 1 \in Nat
    OBVIOUS
  <2> QED
    BY <1>3, <1>4, <2>1, WarnedLater
<1>5. ASSUME x.gen = v.m.active[x.id]
      PROVE  Under(v.p, rest, "execute", x.op, x.id, x.gen) \/ service.uncertain \/ Warned(v.m, rest, 0)
  <2>1. x.gen = w.m.active[x.id] /\ (IsUncertain(e) \/ ~AnswerOf(e, "execute", x.op, x.id, x.gen))
    BY <1>1, <1>5 DEF Settled
  <2>2. Under(w.p, answers, "execute", x.op, x.id, x.gen) \/ service.uncertain \/ Warned(w.m, answers, 0)
    BY <1>2, <2>1 DEF Executing
  <2>3. CASE ~AnswerOf(e, "execute", x.op, x.id, x.gen)
    <3>1. Under(w.p, answers, "execute", x.op, x.id, x.gen) => Under(w.p, rest, "execute", x.op, x.id, x.gen)
      BY <2>3, UnderLater
    <3> QED
      BY <1>4, <2>2, <3>1
  <2>4. CASE IsUncertain(e)
    <3>1. 1 \in 1..Len(answers) /\ answers[1] = e
      BY FirstOrLater
    <3>2. service.uncertain \/ Warned(w.m, answers, 1) \/ Aware(w.m, answers, 1)
      BY <2>4, <3>1 DEF ModelTracks, Warnings
    <3>3. ~Aware(w.m, answers, 1)
      BY <1>1 DEF ModelTracks, Aware
    <3> QED
      BY <1>4, <3>2, <3>3
  <2> QED
    BY <2>1, <2>3, <2>4
<1>6. x.gen <= v.m.active[x.id]
  BY <1>1 DEF Settled
<1> QED
  BY <1>2, <1>5, <1>6 DEF Executing

LEMMA ModelLater ==
    ASSUME NEW answers, NEW e, NEW rest, FirstOf(answers, e, rest), NEW w, NEW v, v.p = w.p, Turns(w.m, v.m, e),
           ModelTracks(w, answers)
    PROVE  ModelTracks(v, rest)
<1>1. OperationsNumbered(v, rest)
  BY NumberedLater DEF ModelTracks
<1>2. Warnings(v.m, rest)
  <2>1. OpsNat(answers) /\ w.m.lastLoad \in Nat
    BY DEF ModelTracks, OperationsNumbered, OpsNat
  <2>2. Stays(w.m, v.m, e) \/ Loads(w.m, v.m, e) \/ Doubts(w.m, v.m, e)
    BY DEF Turns
  <2>3. Warnings(w.m, answers)
    BY DEF ModelTracks
  <2> QED
    BY <2>1, <2>2, <2>3, WarningsLater
<1>3. \A x \in v.m.executing : Executing(v, rest, x)
  BY ExecutingLater
<1>4. \A k \in 1..Len(rest) : IsLoad(rest[k]) => ProfilesNamed(rest[k].profiles)
  BY FirstOrLater DEF ModelTracks
<1>5. v.m.uncertain => v.m.executing = {}
  <2>1. v.m.executing \subseteq w.m.executing /\ (w.m.uncertain => w.m.executing = {})
    BY DEF Turns, Settling, ModelTracks
  <2>2. CASE Stays(w.m, v.m, e) \/ Loads(w.m, v.m, e)
    BY <2>1, <2>2 DEF Stays, Loads
  <2> QED
    BY <2>2 DEF Turns
<1>6. ProfilesNamed(v.m.profiles)
  BY DEF Turns, Settling
<1>7. mutation.pc \in {"published", "join"} /\ ~service.uncertain /\ job.kind = "refresh" => ProfilesNamed(mutation.profiles)
  BY DEF ModelTracks
<1> QED
  BY <1>1, <1>2, <1>3, <1>4, <1>5, <1>6, <1>7 DEF ModelTracks

-----------------------------------------------------------------------------
(* Each kind of event                                                      *)

\* A statement the model m waits for
Waits(m, x) ==
    /\ x = [id |-> x.id, gen |-> x.gen, op |-> x.op] /\ x.id \in Ids
    /\ x.gen \in Nat /\ x.gen # NoGen /\ x.gen <= m.active[x.id]
Takable(m, e) ==
    /\ Foldable(m, e) /\ ProfilesNamed(m.profiles) /\ (IsLoad(e) => ProfilesNamed(e.profiles))
    /\ m.uncertain => m.executing = {}
    /\ \A x \in m.executing : Waits(m, x)

Beside(m, n) ==
    /\ n.nextOp = m.nextOp /\ n.lastLoad = m.lastLoad /\ n.uncertain = m.uncertain
    /\ n.executing = m.executing /\ n.active = m.active

Concerns(e, x) == AnswerOf(e, "execute", x.op, x.id, x.gen)

LEMMA ConcernsKinds ==
    ASSUME NEW e, NEW x, Concerns(e, x)
    PROVE  /\ e.kind \in {"ConfigUncertain", "QueryFinished", "OperationFailed"}
           /\ e.kind # "ConfigUncertain" => e.op = x.op /\ e.id = x.id /\ e.gen = x.gen
           /\ e.kind = "OperationFailed" => e.of = "execute"
BY DEF Concerns, AnswerOf, Answers

LEMMA TurnsStill ==
    ASSUME NEW m, NEW e, Takable(m, e), NEW n, n.nextOp = m.nextOp, Stays(m, n, e),
           n.executing \subseteq m.executing, n.active = m.active, ProfilesNamed(n.profiles),
           \A x \in n.executing : x.gen = m.active[x.id] => IsUncertain(e) \/ ~Concerns(e, x)
    PROVE  Turns(m, n, e)
<1>1. \A x \in n.executing : Settled(m, n, e, x)
  BY DEF Takable, Waits, Settled, Concerns
<1> QED
  BY <1>1 DEF Turns, Settling

LEMMA TurnsBeside ==
    ASSUME NEW m, NEW e, Takable(m, e), e.kind \notin {"ConfigUncertain", "QueryFinished", "OperationFailed"},
           NEW n, Beside(m, n), ProfilesNamed(n.profiles)
    PROVE  Turns(m, n, e)
<1>1. Stays(m, n, e)
  BY DEF Stays, Beside, IsUncertain
<1>2. \A x \in n.executing : ~Concerns(e, x)
  BY ConcernsKinds
<1> QED
  BY <1>1, <1>2, TurnsStill DEF Beside

LEMMA BesideItself ==
    ASSUME NEW m, NEW e, Takable(m, e)
    PROVE  Beside(m, m) /\ ProfilesNamed(m.profiles)
BY DEF Beside, Takable

LEMMA TurnsUncertain ==
    ASSUME NEW m, NEW e, Takable(m, e), IsUncertain(e), NEW n, n = FoldUncertain(m, e)
    PROVE  Turns(m, n, e)
<1>1. CASE ~(e.op > m.lastLoad)
  <2>1. n = m
    BY <1>1 DEF FoldUncertain, Newer
  <2>2. Stays(m, m, e)
    BY <1>1 DEF Stays
  <2>3. m.executing \subseteq m.executing
    OBVIOUS
  <2>4. \A x \in m.executing : x.gen = m.active[x.id] => IsUncertain(e) \/ ~Concerns(e, x)
    OBVIOUS
  <2>5. ProfilesNamed(m.profiles)
    BY DEF Takable
  <2> QED
    BY <2>1, <2>2, <2>3, <2>4, <2>5, TurnsStill
<1>2. CASE e.op > m.lastLoad
  <2>1. PICK retags, conn : retags = [i \in Ids |-> NoRetag] /\ conn = [i \in Ids |-> Disconnected]
    OBVIOUS
  <2>2. n = [m EXCEPT !.lastLoad = e.op, !.uncertain = TRUE, !.retags = retags, !.conn = conn, !.executing = {}]
    BY <1>2, <2>1 DEF FoldUncertain, Newer
  <2>3. n.lastLoad = e.op /\ n.uncertain = TRUE /\ n.executing = {} /\ n.nextOp = m.nextOp /\ n.profiles = m.profiles
    BY <2>2 DEF Takable, Foldable, ModelShaped
  <2>4. Doubts(m, n, e)
    BY <1>2, <2>3 DEF Doubts
  <2> QED
    BY <2>3, <2>4 DEF Turns, Settling, Takable
<1> QED
  BY <1>1, <1>2

LEMMA TurnsLoadFailed ==
    ASSUME NEW m, NEW e, Takable(m, e), e.kind = "ProfilesFailed", NEW n, n = FoldLoadFailed(m, e)
    PROVE  Turns(m, n, e)
<1>1. CASE ~(e.op > m.lastLoad)
  <2>1. n = m
    BY <1>1 DEF FoldLoadFailed, Newer
  <2> QED
    BY <2>1, BesideItself, TurnsBeside
<1>2. CASE e.op > m.lastLoad
  <2>1. n = [m EXCEPT !.lastLoad = e.op]
    BY <1>2 DEF FoldLoadFailed, Newer
  <2>2. /\ n.lastLoad = e.op /\ n.uncertain = m.uncertain /\ n.executing = m.executing /\ n.nextOp = m.nextOp
        /\ n.profiles = m.profiles /\ n.active = m.active
    BY <2>1 DEF Takable, Foldable, ModelShaped
  <2>3. Loads(m, n, e)
    BY <1>2, <2>2 DEF Loads, IsLoad
  <2>4. ASSUME NEW x \in n.executing PROVE Settled(m, n, e, x)
    <3>1. Waits(m, x) /\ ~Concerns(e, x)
      BY <2>2, <2>4, ConcernsKinds DEF Takable
    <3> QED
      BY <2>2, <3>1 DEF Settled, Waits, Concerns
  <2> QED
    BY <2>2, <2>3, <2>4 DEF Turns, Settling, Takable
<1> QED
  BY <1>1, <1>2

LEMMA TurnsLoaded ==
    ASSUME NEW m, NEW e, Takable(m, e), e.kind = "ProfilesLoaded", NEW n, n = FoldLoaded(m, e)
    PROVE  Turns(m, n, e)
<1>1. CASE ~(e.op > m.lastLoad)
  <2>1. n = m
    BY <1>1 DEF FoldLoaded, Newer
  <2> QED
    BY <2>1, BesideItself, TurnsBeside
<1>2. CASE e.op > m.lastLoad
  <2>1. PICK loaded : loaded = e.profiles
    OBVIOUS
  <2>2. PICK l : l = [m EXCEPT !.lastLoad = e.op]
    OBVIOUS
  <2>3. /\ l.active = m.active /\ l.tombs = m.tombs /\ l.profiles = m.profiles /\ l.conn = m.conn
        /\ l.retags = m.retags /\ l.executing = m.executing /\ l.lastLoad = e.op /\ l.nextOp = m.nextOp
    BY <2>2 DEF Takable, Foldable, ModelShaped
  <2> DEFINE tombs == [i \in Ids |-> IF loaded[i].gen = NoGen /\ l.active[i] > l.tombs[i]
                                    THEN l.active[i] ELSE l.tombs[i]]
             kept == [i \in Ids |-> IF loaded[i].gen > tombs[i] THEN loaded[i] ELSE NoProfile]
             same(i) == /\ l.profiles[i] # NoProfile /\ kept[i] # NoProfile
                        /\ \/ /\ l.profiles[i].gen = kept[i].gen
                              /\ l.profiles[i].body = kept[i].body
                           \/ l.retags[i] = <<l.profiles[i].gen, kept[i].gen>>
             locked(i) == kept[i].body \in SessionBodies /\ ~kept[i].secret
             conn == [i \in Ids |-> IF locked(i) THEN NeedsCredential
                                    ELSE IF same(i) THEN l.conn[i] ELSE Disconnected]
             active == [i \in Ids |-> kept[i].gen]
             retags == [i \in Ids |-> NoRetag]
             executing == {x \in l.executing : x.gen = kept[x.id].gen}
             failures == {f \in l.failures : f.gen = kept[f.id].gen}
  <2>4. n = [l EXCEPT !.tombs = tombs, !.profiles = kept, !.active = active, !.conn = conn,
                      !.executing = executing, !.failures = failures, !.retags = retags, !.uncertain = FALSE]
    <3>1. n = FoldProfiles(l, loaded)
      BY <1>2, <2>1, <2>2 DEF FoldLoaded, Newer
    <3> QED
      BY <3>1 DEF FoldProfiles
  <2> HIDE DEF executing, failures, conn, same, locked, kept, tombs, active, retags
  <2>5. /\ n.active = active /\ n.profiles = kept /\ n.executing = executing /\ n.uncertain = FALSE
        /\ n.lastLoad = e.op /\ n.nextOp = m.nextOp
    BY <2>2, <2>3, <2>4 DEF Takable, Foldable, ModelShaped
  <2>6. Loads(m, n, e)
    BY <1>2, <2>5 DEF Loads, IsLoad
  <2>7. \A i \in Ids : kept[i] = loaded[i] \/ kept[i] = NoProfile
    BY DEF kept
  <2>8. ProfilesNamed(n.profiles)
    BY <2>1, <2>5, <2>7 DEF ProfilesNamed, Takable, IsLoad
  <2>9. ASSUME NEW x \in n.executing PROVE x \in m.executing /\ Settled(m, n, e, x)
    <3>1. x \in m.executing /\ x.gen = kept[x.id].gen
      BY <2>3, <2>5, <2>9 DEF executing
    <3>2. Waits(m, x)
      BY <3>1 DEF Takable
    <3>3. x.id \in Ids /\ x.gen \in Nat /\ x.gen # NoGen /\ x.gen <= m.active[x.id]
      BY <3>2 DEF Waits
    <3>4. n.active[x.id] = x.gen
      BY <2>5, <3>1, <3>3 DEF active
    <3>5. kept[x.id] = loaded[x.id]
      BY <2>7, <3>1, <3>3 DEF NoProfile
    <3>6. Told(e, x.id) = x.gen
      BY <2>1, <3>1, <3>5 DEF Told
    <3>7. m.active[x.id] <= x.gen /\ m.active[x.id] \in Nat
      BY <3>3, <3>6 DEF Takable, Foldable, Tells, ModelShaped
    <3>8. ~Concerns(e, x)
      BY ConcernsKinds
    <3> QED
      BY <3>1, <3>3, <3>4, <3>7, <3>8 DEF Settled, Concerns
  <2> QED
    BY <2>5, <2>6, <2>8, <2>9 DEF Turns, Settling
<1> QED
  BY <1>1, <1>2

LEMMA TurnsSaved ==
    ASSUME NEW m, NEW e, Takable(m, e), e.kind = "ProfileSaved", NEW n, n = FoldSaved(m, e)
    PROVE  Turns(m, n, e)
<1>1. CASE n = m
  BY <1>1, BesideItself, TurnsBeside
<1>2. CASE n # m
  <2>1. /\ e.gen > m.tombs[e.id]
        /\ n = [m EXCEPT !.active[e.id] = e.gen,
                   !.retags[e.id] = IF e.retained THEN <<e.prev, e.gen>> ELSE NoRetag,
                   !.conn[e.id] = IF e.retained THEN @ ELSE Disconnected]
    BY <1>2 DEF FoldSaved
  <2>2. PICK retags, conn : /\ retags = [m.retags EXCEPT ![e.id] = IF e.retained THEN <<e.prev, e.gen>> ELSE NoRetag]
                            /\ conn = [m.conn EXCEPT ![e.id] = IF e.retained THEN @ ELSE Disconnected]
    OBVIOUS
  <2>3. PICK active : active = [m.active EXCEPT ![e.id] = e.gen]
    OBVIOUS
  <2>4. n = [m EXCEPT !.active = active, !.retags = retags, !.conn = conn]
    BY <2>1, <2>2, <2>3 DEF Takable, Foldable, ModelShaped
  <2>5. /\ n.active = active /\ n.profiles = m.profiles /\ n.executing = m.executing /\ n.uncertain = m.uncertain
        /\ n.lastLoad = m.lastLoad /\ n.nextOp = m.nextOp
    BY <2>4 DEF Takable, Foldable, ModelShaped
  <2>6. Stays(m, n, e)
    BY <2>5 DEF Stays, IsUncertain
  <2>7. ASSUME NEW x \in n.executing PROVE Settled(m, n, e, x)
    <3>1. Waits(m, x) /\ ~Concerns(e, x)
      BY <2>5, <2>7, ConcernsKinds DEF Takable
    <3>2. x.id \in Ids /\ x.gen \in Nat /\ x.gen # NoGen /\ x.gen <= m.active[x.id] /\ m.active[x.id] \in Nat
      BY <3>1 DEF Waits, Takable, Foldable, ModelShaped
    <3>3. CASE x.id # e.id
      <4>1. n.active[x.id] = m.active[x.id]
        BY <2>3, <2>5, <3>2, <3>3 DEF Takable, Foldable, ModelShaped
      <4> QED
        BY <3>1, <3>2, <4>1 DEF Settled, Concerns
    <3>4. CASE x.id = e.id
      <4>1. n.active[x.id] = e.gen
        BY <2>3, <2>5, <3>2, <3>4 DEF Takable, Foldable, ModelShaped
      <4>2. e.gen \in Nat /\ m.tombs[e.id] \in Nat
        BY <3>2, <3>4 DEF Takable, Foldable, EventSound, ModelShaped
      <4>3. Told(e, x.id) = e.gen /\ e.gen # NoGen
        BY <2>1, <3>4, <4>2 DEF Told, NoGen
      <4>4. m.active[x.id] <= e.gen
        BY <3>2, <4>3 DEF Takable, Foldable, Tells
      <4> QED
        BY <3>1, <3>2, <4>1, <4>2, <4>4 DEF Settled, Concerns
    <3> QED
      BY <3>3, <3>4
  <2> QED
    BY <2>5, <2>6, <2>7 DEF Turns, Settling, Takable
<1> QED
  BY <1>1, <1>2

LEMMA TurnsDeleted ==
    ASSUME NEW m, NEW e, Takable(m, e), e.kind = "ProfileDeleted", NEW n, n = FoldDeleted(m, e)
    PROVE  Turns(m, n, e)
<1>1. CASE n = m
  BY <1>1, BesideItself, TurnsBeside
<1>2. CASE n # m
  <2>1. n = [m EXCEPT !.tombs[e.id] = IF e.gen > @ THEN e.gen ELSE @,
                   !.active[e.id] = NoGen,
                   !.profiles[e.id] = NoProfile,
                   !.conn[e.id] = Disconnected,
                   !.executing = {x \in @ : x.id # e.id},
                   !.failures = {f \in @ : f.id # e.id}]
    BY <1>2 DEF FoldDeleted
  <2>2. PICK tombs, conn, failures :
            /\ tombs = [m.tombs EXCEPT ![e.id] = IF e.gen > @ THEN e.gen ELSE @]
            /\ conn = [m.conn EXCEPT ![e.id] = Disconnected] /\ failures = {f \in m.failures : f.id # e.id}
    OBVIOUS
  <2>3. PICK active : active = [m.active EXCEPT ![e.id] = NoGen]
    OBVIOUS
  <2>4. PICK profiles : profiles = [m.profiles EXCEPT ![e.id] = NoProfile]
    OBVIOUS
  <2>5. PICK executing : executing = {x \in m.executing : x.id # e.id}
    OBVIOUS
  <2>6. n = [m EXCEPT !.tombs = tombs, !.active = active, !.profiles = profiles, !.conn = conn,
                      !.executing = executing, !.failures = failures]
    BY <2>1, <2>2, <2>3, <2>4, <2>5 DEF Takable, Foldable, ModelShaped
  <2>7. /\ n.active = active /\ n.profiles = profiles /\ n.executing = executing /\ n.uncertain = m.uncertain
        /\ n.lastLoad = m.lastLoad /\ n.nextOp = m.nextOp
    BY <2>6 DEF Takable, Foldable, ModelShaped
  <2>8. Stays(m, n, e)
    BY <2>7 DEF Stays, IsUncertain
  <2>9. ProfilesNamed(n.profiles)
    <3>1. \A i \in Ids : n.profiles[i] = m.profiles[i] \/ n.profiles[i] = NoProfile
      BY <2>4, <2>7 DEF Takable, Foldable, ModelShaped, SnapshotsShaped
    <3> QED
      BY <3>1 DEF ProfilesNamed, Takable
  <2>10. ASSUME NEW x \in n.executing PROVE x \in m.executing /\ Settled(m, n, e, x)
    <3>1. x \in m.executing /\ x.id # e.id
      BY <2>5, <2>7, <2>10
    <3>2. Waits(m, x) /\ ~Concerns(e, x)
      BY <3>1, ConcernsKinds DEF Takable
    <3>3. n.active[x.id] = m.active[x.id]
      BY <2>3, <2>7, <3>1, <3>2 DEF Takable, Foldable, ModelShaped, Waits
    <3> QED
      BY <3>1, <3>2, <3>3 DEF Settled, Concerns, Waits
  <2> QED
    BY <2>7, <2>8, <2>9, <2>10 DEF Turns, Settling
<1> QED
  BY <1>1, <1>2

LEMMA TurnsStored ==
    ASSUME NEW m, NEW e, Takable(m, e), e.kind = "CredentialsStored", NEW n, n = FoldStored(m, e)
    PROVE  Turns(m, n, e)
<1>1. CASE n = m
  BY <1>1, BesideItself, TurnsBeside
<1>2. CASE n # m
  <2>1. PICK secret : secret = (m.profiles[e.id].secret \/ m.profiles[e.id] # NoProfile)
    OBVIOUS
  <2>2. PICK profiles : profiles = [m.profiles EXCEPT ![e.id].secret = secret]
    OBVIOUS
  <2>3. PICK conn : conn = [m.conn EXCEPT ![e.id] = IF @ = NeedsCredential THEN Disconnected ELSE @]
    OBVIOUS
  <2>4. n = [m EXCEPT !.profiles = profiles, !.conn = conn]
    <3>1. n = [m EXCEPT !.profiles[e.id].secret = (@ \/ m.profiles[e.id] # NoProfile),
                        !.conn[e.id] = IF @ = NeedsCredential THEN Disconnected ELSE @]
      BY <1>2 DEF FoldStored
    <3> QED
      BY <3>1, <2>1, <2>2, <2>3 DEF Takable, Foldable, ModelShaped
  <2>5. Beside(m, n) /\ n.profiles = profiles
    BY <2>4 DEF Takable, Foldable, ModelShaped, Beside
  <2>6. ProfilesNamed(profiles)
    <3>1. SUFFICES ASSUME NEW i \in Ids, profiles[i].gen = NoGen PROVE profiles[i] = NoProfile
      BY DEF ProfilesNamed
    <3>2. CASE i # e.id
      BY <2>2, <3>1, <3>2 DEF Takable, Foldable, ModelShaped, SnapshotsShaped, ProfilesNamed
    <3>3. CASE i = e.id
      <4>1. profiles[i] = [m.profiles[i] EXCEPT !.secret = secret] /\ SnapshotShaped(m.profiles[i])
        BY <2>2, <3>1, <3>3 DEF Takable, Foldable, ModelShaped, SnapshotsShaped
      <4>2. m.profiles[i].gen = NoGen
        BY <3>1, <4>1 DEF SnapshotShaped
      <4>3. m.profiles[i] = NoProfile
        BY <3>1, <4>2 DEF Takable, ProfilesNamed
      <4>4. secret = FALSE
        <5>1. m.profiles[e.id].secret = FALSE
          BY <3>3, <4>3 DEF NoProfile
        <5>2. ~(m.profiles[e.id] # NoProfile)
          BY <3>3, <4>3
        <5>3. secret = (FALSE \/ m.profiles[e.id] # NoProfile)
          BY <2>1, <5>1, Zenon
        <5>4. secret \in BOOLEAN /\ (secret => m.profiles[e.id] # NoProfile)
          BY <5>3, Zenon
        <5> QED
          BY <5>2, <5>4, Zenon
      <4>5. profiles[i] = [gen |-> m.profiles[i].gen, body |-> m.profiles[i].body, secret |-> secret]
        <5>1. PICK x : x = m.profiles[i]
          OBVIOUS
        <5>2. x = [gen |-> x.gen, body |-> x.body, secret |-> x.secret] /\ profiles[i] = [x EXCEPT !.secret = secret]
          BY <4>1, <5>1 DEF SnapshotShaped
        <5>3. profiles[i] = [gen |-> x.gen, body |-> x.body, secret |-> secret]
          BY <5>2
        <5> QED
          BY <5>1, <5>3
      <4>6. m.profiles[i].gen = NoGen /\ m.profiles[i].body = NoBody
        BY <4>3 DEF NoProfile
      <4>7. profiles[i] = [gen |-> NoGen, body |-> NoBody, secret |-> FALSE]
        BY <4>4, <4>5, <4>6, Zenon
      <4> QED
        BY <4>7, Zenon DEF NoProfile
    <3> QED
      BY <3>2, <3>3
  <2> QED
    BY <2>5, <2>6, TurnsBeside
<1> QED
  BY <1>1, <1>2

LEMMA TurnsAnswer ==
    ASSUME NEW m, NEW e, Takable(m, e), e.kind \in {"ConnectionReady", "ConnectionClosed"}, NEW state,
           NEW n, n = FoldAnswer(m, e, state)
    PROVE  Turns(m, n, e)
<1>1. n = m \/ n = [m EXCEPT !.conn[e.id] = state]
  BY DEF FoldAnswer
<1>2. Beside(m, n) /\ n.profiles = m.profiles
  BY <1>1 DEF Takable, Foldable, ModelShaped, Beside
<1> QED
  BY <1>2, BesideItself, TurnsBeside

LEMMA TurnsCatalog ==
    ASSUME NEW m, NEW e, Takable(m, e), e.kind = "CatalogPage", NEW n, n = FoldCatalog(m, e)
    PROVE  Turns(m, n, e)
<1>1. CASE n = m
  BY <1>1, BesideItself, TurnsBeside
<1>2. CASE n # m
  <2> DEFINE state == m.conn[e.id]
             protected == \/ state.is \in {"pending", "closing"}
                          \/ state.is = "connected" /\ state.n # e.session
             failures == Explored(m, e)
             card == IF e.session = 0 \/ e.disposition = "none" \/ protected THEN m.conn[e.id]
                     ELSE IF e.disposition = "keep" THEN Connected(e.session)
                     ELSE Disconnected
  <2>1. n = [m EXCEPT !.failures = failures, !.conn[e.id] = card]
    <3>1. n = [m EXCEPT !.failures = Explored(m, e),
                      !.conn[e.id] = IF e.session = 0 \/ e.disposition = "none" \/ protected THEN @
                               ELSE IF e.disposition = "keep" THEN Connected(e.session)
                               ELSE Disconnected]
      BY <1>2 DEF FoldCatalog
    <3> QED
      BY <3>1 DEF Takable, Foldable, ModelShaped
  <2> HIDE DEF card, failures, protected
  <2>2. Beside(m, n) /\ n.profiles = m.profiles
    BY <2>1 DEF Takable, Foldable, ModelShaped, Beside
  <2> QED
    BY <2>2, BesideItself, TurnsBeside
<1> QED
  BY <1>1, <1>2

LEMMA TurnsRedis ==
    ASSUME NEW m, NEW e, Takable(m, e), e.kind = "RedisKeys", NEW n, n = FoldRedis(m, e)
    PROVE  Turns(m, n, e)
<1>1. CASE n = m
  BY <1>1, BesideItself, TurnsBeside
<1>2. CASE n # m
  <2> DEFINE state == m.conn[e.id]
             failures == Explored(m, e)
             card == CASE e.session # 0 /\ e.disposition = "keep" -> Connected(e.session)
                       [] e.disposition = "evict" -> Disconnected
                       [] OTHER -> AfterFailure(e.outcome, state)
  <2>1. n = [m EXCEPT !.failures = failures, !.conn[e.id] = card]
    BY <1>2 DEF FoldRedis
  <2> HIDE DEF card, failures
  <2>2. Beside(m, n) /\ n.profiles = m.profiles
    BY <2>1 DEF Takable, Foldable, ModelShaped, Beside
  <2> QED
    BY <2>2, BesideItself, TurnsBeside
<1> QED
  BY <1>1, <1>2

\* The statement an event is about, if it waits, is current.
LEMMA ConcernedIsCurrent ==
    ASSUME NEW m, NEW e, Takable(m, e), NEW x \in m.executing, x.gen = m.active[x.id], Concerns(e, x),
           e.kind # "ConfigUncertain"
    PROVE  x = [id |-> e.id, gen |-> e.gen, op |-> e.op] /\ EventIsCurrent(m, e.id, e.gen)
<1>1. Waits(m, x) /\ ~m.uncertain
  BY DEF Takable
<1>2. e.op = x.op /\ e.id = x.id /\ e.gen = x.gen
  BY ConcernsKinds
<1>3. m.active[x.id] > m.tombs[x.id]
  BY <1>1 DEF Waits, Takable, Foldable, SoundAt, Above
<1> QED
  BY <1>1, <1>2, <1>3 DEF Waits, EventIsCurrent

LEMMA TurnsQueryFinished ==
    ASSUME NEW m, NEW e, Takable(m, e), e.kind = "QueryFinished", NEW n, n = FoldQueryFinished(m, e)
    PROVE  Turns(m, n, e)
<1>1. PICK y : y = [id |-> e.id, gen |-> e.gen, op |-> e.op]
  OBVIOUS
<1>2. CASE EventIsCurrent(m, e.id, e.gen) /\ y \in m.executing
  <2>1. PICK executing, card : executing = m.executing \ {y} /\ card = Connected(e.session)
    OBVIOUS
  <2>2. n = [m EXCEPT !.executing = executing, !.conn[e.id] = card]
    BY <1>1, <1>2, <2>1 DEF FoldQueryFinished
  <2>3. /\ n.active = m.active /\ n.profiles = m.profiles /\ n.executing = executing /\ n.uncertain = m.uncertain
        /\ n.lastLoad = m.lastLoad /\ n.nextOp = m.nextOp
    BY <2>2 DEF Takable, Foldable, ModelShaped
  <2>4. Stays(m, n, e)
    BY <2>3 DEF Stays, IsUncertain
  <2>5. \A x \in n.executing : x.gen = m.active[x.id] => IsUncertain(e) \/ ~Concerns(e, x)
    BY <1>1, <2>1, <2>3, ConcernedIsCurrent
  <2>6. n.executing \subseteq m.executing /\ ProfilesNamed(n.profiles)
    BY <2>1, <2>3 DEF Takable
  <2> QED
    BY <2>3, <2>4, <2>5, <2>6, TurnsStill
<1>3. CASE ~(EventIsCurrent(m, e.id, e.gen) /\ y \in m.executing)
  <2>1. n = m
    BY <1>1, <1>3 DEF FoldQueryFinished
  <2>2. Stays(m, m, e)
    BY DEF Stays, IsUncertain
  <2>3. \A x \in m.executing : x.gen = m.active[x.id] => IsUncertain(e) \/ ~Concerns(e, x)
    BY <1>1, <1>3, ConcernedIsCurrent
  <2>4. m.executing \subseteq m.executing /\ ProfilesNamed(m.profiles)
    BY DEF Takable
  <2> QED
    BY <2>1, <2>2, <2>3, <2>4, TurnsStill
<1> QED
  BY <1>2, <1>3

LEMMA TurnsFailed ==
    ASSUME NEW m, NEW e, Takable(m, e), e.kind = "OperationFailed", NEW n, n = FoldFailed(m, e)
    PROVE  Turns(m, n, e)
<1>1. PICK y : y = [id |-> e.id, gen |-> e.gen, op |-> e.op]
  OBVIOUS
<1>2. CASE EventIsCurrent(m, e.id, e.gen)
  <2>1. PICK executing : executing = IF e.of = "execute" THEN m.executing \ {y} ELSE m.executing
    OBVIOUS
  <2>2. PICK card : card = ConnAfterFailure(m.conn[e.id], e)
    OBVIOUS
  <2>3. n = [m EXCEPT !.executing = executing, !.conn[e.id] = card]
    <3>1. n = [m EXCEPT !.executing = IF e.of = "execute"
                            THEN @ \ {[id |-> e.id, gen |-> e.gen, op |-> e.op]} ELSE @,
                        !.conn[e.id] = ConnAfterFailure(@, e)]
      BY <1>2 DEF FoldFailed
    <3> QED
      BY <3>1, <1>1, <2>1, <2>2 DEF Takable, Foldable, ModelShaped
  <2>4. /\ n.active = m.active /\ n.profiles = m.profiles /\ n.executing = executing /\ n.uncertain = m.uncertain
        /\ n.lastLoad = m.lastLoad /\ n.nextOp = m.nextOp
    BY <2>3 DEF Takable, Foldable, ModelShaped
  <2>5. Stays(m, n, e)
    BY <2>4 DEF Stays, IsUncertain
  <2>6. ASSUME NEW x \in n.executing, x.gen = m.active[x.id], Concerns(e, x) PROVE FALSE
    <3>1. x \in m.executing
      BY <2>1, <2>4, <2>6
    <3>2. x = y
      BY <1>1, <2>6, <3>1, ConcernedIsCurrent
    <3>3. e.of = "execute"
      BY <2>6, ConcernsKinds
    <3> QED
      BY <2>1, <2>4, <2>6, <3>2, <3>3
  <2>7. n.executing \subseteq m.executing /\ ProfilesNamed(n.profiles)
    BY <2>1, <2>4 DEF Takable
  <2> QED
    BY <2>4, <2>5, <2>6, <2>7, TurnsStill
<1>3. CASE ~EventIsCurrent(m, e.id, e.gen)
  <2>1. n = m
    BY <1>3 DEF FoldFailed
  <2>2. Stays(m, m, e)
    BY DEF Stays, IsUncertain
  <2>3. \A x \in m.executing : x.gen = m.active[x.id] => IsUncertain(e) \/ ~Concerns(e, x)
    BY <1>3, ConcernedIsCurrent
  <2>4. m.executing \subseteq m.executing /\ ProfilesNamed(m.profiles)
    BY DEF Takable
  <2> QED
    BY <2>1, <2>2, <2>3, <2>4, TurnsStill
<1> QED
  BY <1>2, <1>3

\* Whatever the event is.
LEMMA FoldTurns ==
    ASSUME NEW m, NEW e, Takable(m, e), NEW n, n = Fold(m, e)
    PROVE  Turns(m, n, e)
<1>1. CASE e.kind = "ProfilesLoaded"
  BY <1>1, TurnsLoaded DEF Fold
<1>2. CASE e.kind = "ProfilesFailed"
  BY <1>2, TurnsLoadFailed DEF Fold
<1>3. CASE e.kind = "ProfileSaved"
  BY <1>3, TurnsSaved DEF Fold
<1>4. CASE e.kind = "ProfileDeleted"
  BY <1>4, TurnsDeleted DEF Fold
<1>5. CASE e.kind = "ConfigUncertain"
  BY <1>5, TurnsUncertain DEF Fold, IsUncertain
<1>6. CASE e.kind = "CredentialsStored"
  BY <1>6, TurnsStored DEF Fold
<1>7. CASE e.kind = "ConnectionReady"
  <2>1. PICK state : state = Connected(e.session)
    OBVIOUS
  <2>2. n = FoldAnswer(m, e, state)
    BY <1>7, <2>1 DEF Fold
  <2> QED
    BY <1>7, <2>2, TurnsAnswer
<1>8. CASE e.kind = "ConnectionClosed"
  <2>1. PICK state : state = e.post
    OBVIOUS
  <2>2. n = FoldAnswer(m, e, state)
    BY <1>8, <2>1 DEF Fold
  <2> QED
    BY <1>8, <2>2, TurnsAnswer
<1>9. CASE e.kind = "QueryFinished"
  BY <1>9, TurnsQueryFinished DEF Fold
<1>10. CASE e.kind = "OperationFailed"
  BY <1>10, TurnsFailed DEF Fold
<1>11. CASE e.kind = "CatalogPage"
  BY <1>11, TurnsCatalog DEF Fold
<1>12. CASE e.kind = "RedisKeys"
  BY <1>12, TurnsRedis DEF Fold
<1>13. CASE e.kind \notin {"ProfilesLoaded", "ProfilesFailed", "ProfileSaved", "ProfileDeleted", "ConfigUncertain",
                           "CredentialsStored", "ConnectionReady", "ConnectionClosed", "QueryFinished",
                           "OperationFailed", "CatalogPage", "RedisKeys"}
  <2>1. n = m
    BY <1>13 DEF Fold
  <2> QED
    BY <1>13, <2>1, BesideItself, TurnsBeside
<1> QED
  BY <1>1, <1>2, <1>3, <1>4, <1>5, <1>6, <1>7, <1>8, <1>9, <1>10, <1>11, <1>12, <1>13

-----------------------------------------------------------------------------
(* One event of poll_events                                                *)

LEMMA TakableNow ==
    ASSUME WindowInv, TrackInv, events # <<>>
    PROVE  Takable(model, Head(events)) /\ FirstOf(events, Head(events), Tail(events))
<1>1. PICK e : e = Head(events)
  OBVIOUS
<1>2. PICK rest : rest = Tail(events)
  OBVIOUS
<1>3. FirstOf(events, e, rest)
  BY <1>1, <1>2, FirstAnswer DEF WindowInv, Answering
<1>4. 1 \in 1..Len(events) /\ events[1] = e
  BY <1>3, FirstOrLater
<1>5. EventSound(e)
  BY <1>4 DEF WindowInv, Answering
<1>6. \A i \in Ids : Tells(model, e, i)
  BY <1>4 DEF WindowInv, Answering, AnswersInOrder, ModelSound, Behind, Tells
<1>7. Foldable(model, e)
  BY <1>5, <1>6 DEF Foldable, WindowInv, ModelSound, SoundAt
<1>8. ModelTracks(World, events) /\ World.m = model
  BY DEF TrackInv, World
<1>9. /\ ProfilesNamed(model.profiles) /\ (IsLoad(e) => ProfilesNamed(e.profiles))
      /\ model.uncertain => model.executing = {}
  BY <1>4, <1>8 DEF ModelTracks
<1>10. \A x \in model.executing : Waits(model, x)
  BY <1>8 DEF ModelTracks, Executing, Waits
<1> QED
  BY <1>1, <1>2, <1>3, <1>7, <1>9, <1>10 DEF Takable

LEMMA AppAlike ==
    ASSUME NEW w, NEW answers, AppTracks(w, answers), NEW v, v.p = w.p,
           v.a.ops = w.a.ops, v.a.deletes = w.a.deletes, v.a.prompt = w.a.prompt
    PROVE  AppTracks(v, answers)
BY DEF AppTracks, TablesShaped, PromptLives, OperationLives, PriorLives

\* What the application has made of the event before the fold
LEMMA PreparedTracks ==
    ASSUME NEW w, Shaped(w), NEW answers, NEW e, NEW rest, FirstOf(answers, e, rest), AppTracks(w, answers),
           NEW v, v = FinishActive(HandleCredential(CaptureError(w, e), e), e)
    PROVE  Shaped(v) /\ v.m = w.m /\ v.p = w.p /\ AppTracks(v, rest)
<1>1. PICK c : c = CaptureError(w, e)
  OBVIOUS
<1>2. PICK d : d = HandleCredential(c, e)
  OBVIOUS
<1>3. SamePlace(w, d) /\ TablesShaped(d.a) /\ PromptLives(d, rest)
  BY <1>1, <1>2, PromptLater
<1>4. Shaped(d) /\ d.m = w.m /\ d.p = w.p /\ d.a.ops = w.a.ops /\ d.a.deletes = w.a.deletes
  BY <1>3 DEF SamePlace
<1>5. \A i \in Ids : OperationLives(d, answers, i) /\ PriorLives(d, answers, i)
  BY <1>4 DEF AppTracks, OperationLives, PriorLives
<1>6. v = FinishActive(d, e)
  BY <1>1, <1>2
<1>7. Shaped(v) /\ v.m = d.m /\ v.p = d.p /\ AppTracks(v, rest)
  BY <1>3, <1>4, <1>5, <1>6, FinishLater
<1> QED
  BY <1>4, <1>7

\* A page of Redis keys is no answer the invariant counts on.
LEMMA KeysLater ==
    ASSUME NEW w, NEW answers, NEW e, NEW rest, FirstOf(answers, e, rest), AppTracks(w, answers), e.kind = "RedisKeys"
    PROVE  AppTracks(w, rest)
<1>0. e.kind # "ConfigUncertain"
  OBVIOUS
<1>1. ASSUME NEW i \in Ids PROVE OperationLives(w, rest, i) /\ PriorLives(w, rest, i)
  <2>1. OperationLives(w, answers, i) /\ PriorLives(w, answers, i)
    BY <1>1 DEF AppTracks
  <2>2. OperationLives(w, rest, i)
    BY <1>0, <2>1, LivesLater DEF OperationLives
  <2>3. PriorLives(w, rest, i)
    BY <1>0, <2>1, LivesLater DEF PriorLives
  <2> QED
    BY <2>2, <2>3
<1>2. PromptLives(w, rest)
  <2>1. PICK x : x = w.a.prompt
    OBVIOUS
  <2>2. ~AnswerOf(e, "store", x.store, x.id, x.gen)
    BY DEF AnswerOf, Answers
  <2>3. Under(w.p, answers, "store", x.store, x.id, x.gen) => Under(w.p, rest, "store", x.store, x.id, x.gen)
    BY <2>2, UnderLater
  <2> QED
    BY <2>1, <2>3 DEF AppTracks, PromptLives
<1> QED
  BY <1>1, <1>2 DEF AppTracks

\* Before the fold: w is the world, v what the application has made of it.
Preparing(w, answers, e, rest, v) ==
    /\ FirstOf(answers, e, rest) /\ Takable(w.m, e) /\ ModelTracks(w, answers)
    /\ Shaped(v) /\ v.m = w.m /\ v.p = w.p /\ AppTracks(v, rest)

\* The fold is what makes it track again; so does nothing, if the event is not for the model.
LEMMA FoldTracks ==
    ASSUME NEW w, NEW answers, NEW e, NEW rest, NEW v, Preparing(w, answers, e, rest, v), NEW f, f.p = v.p,
           \/ f.m = Fold(v.m, e)
           \/ f.m = v.m /\ e.kind \notin {"ConfigUncertain", "QueryFinished", "OperationFailed"},
           f.a.ops = v.a.ops, f.a.deletes = v.a.deletes, f.a.prompt = v.a.prompt
    PROVE  Tracks(f, rest)
<1>1. AppTracks(f, rest)
  BY AppAlike DEF Preparing
<1>2. f.p = w.p /\ v.m = w.m
  BY DEF Preparing
<1>3. Turns(w.m, f.m, e)
  <2>1. CASE f.m = Fold(v.m, e)
    BY <1>2, <2>1, FoldTurns DEF Preparing
  <2>2. CASE f.m = v.m /\ e.kind \notin {"ConfigUncertain", "QueryFinished", "OperationFailed"}
    BY <1>2, <2>2, BesideItself, TurnsBeside DEF Preparing
  <2> QED
    BY <2>1, <2>2
<1>4. ModelTracks(f, rest)
  BY <1>2, <1>3, ModelLater DEF Preparing
<1> QED
  BY <1>1, <1>4 DEF Tracks

LEMMA SavedTracks ==
    ASSUME NEW w, NEW answers, NEW e, NEW rest, NEW v, Preparing(w, answers, e, rest, v), ModelShaped(Fold(v.m, e))
    PROVE  Tracks(HandleSaved(v, e), rest)
<1>1. PICK f : f = [v EXCEPT !.m = Fold(@, e), !.a.editor = NoEditor]
  OBVIOUS
<1>2. PICK n : n = Fold(v.m, e)
  OBVIOUS
<1>3. /\ f = [m |-> n, a |-> f.a, p |-> v.p] /\ AppShaped(f.a)
      /\ f.a.ops = v.a.ops /\ f.a.deletes = v.a.deletes /\ f.a.prompt = v.a.prompt
  BY <1>1, <1>2, EditorsOpened DEF Preparing, Shaped, AppShaped
<1>4. f.m = n /\ f.p = v.p
  BY <1>3
<1>5. Tracks(f, rest)
  BY <1>2, <1>3, <1>4, FoldTracks
<1>6. Shaped(f)
  BY <1>2, <1>3 DEF Preparing, Shaped
<1>7. PICK s : s = SubmitRefresh(f)
  OBVIOUS
<1>8. Tracks(s, rest) /\ Shaped(s)
  BY <1>5, <1>6, <1>7, TracksSubmitRefresh, CalmSubmitRefresh DEF Calm
<1>9. PICK followUp : HandleSaved(v, e) = [s EXCEPT !.a.followUp = followUp]
  BY <1>1, <1>7 DEF HandleSaved, SubmitRefresh
<1>10. PICK h : h = [s EXCEPT !.a.followUp = followUp]
  OBVIOUS
<1>11. h.m = s.m /\ h.p = s.p /\ h.a.ops = s.a.ops /\ h.a.deletes = s.a.deletes /\ h.a.prompt = s.a.prompt
  BY <1>8, <1>10 DEF Shaped, AppShaped
<1>12. Tracks(h, rest)
  BY <1>8, <1>11, TracksBeside
<1> QED
  BY <1>9, <1>10, <1>12

LEMMA FollowTracks ==
    ASSUME NEW w, NEW answers, NEW e, NEW rest, NEW v, Preparing(w, answers, e, rest, v), ModelShaped(Fold(v.m, e))
    PROVE  Tracks(FoldAndFollow(v, e), rest) /\ Shaped(FoldAndFollow(v, e))
<1>1. PICK f : f = [v EXCEPT !.m = Fold(@, e)]
  OBVIOUS
<1>2. PICK n : n = Fold(v.m, e)
  OBVIOUS
<1>3. f = [m |-> n, a |-> v.a, p |-> v.p]
  BY <1>1, <1>2 DEF Preparing, Shaped
<1>4. Tracks(f, rest)
  BY <1>2, <1>3, FoldTracks
<1>5. Shaped(f)
  BY <1>2, <1>3 DEF Preparing, Shaped
<1>6. PICK g : g = [f EXCEPT !.a.followUp = NoFollowUp]
  OBVIOUS
<1>7. /\ g = [m |-> f.m, a |-> g.a, p |-> f.p] /\ AppShaped(g.a)
      /\ g.a.ops = f.a.ops /\ g.a.deletes = f.a.deletes /\ g.a.prompt = f.a.prompt
  BY <1>5, <1>6 DEF Shaped, AppShaped
<1>8. Tracks(g, rest)
  BY <1>4, <1>7, TracksBeside
<1>9. Shaped(g)
  BY <1>5, <1>7 DEF Shaped
<1>10. PICK h : h = SubmitTest(g, v.a.followUp.id)
  OBVIOUS
<1>11. Tracks(h, rest) /\ Shaped(h)
  BY <1>8, <1>9, <1>10, TracksSubmitTest, CalmSubmitTest DEF Calm
<1>12. FoldAndFollow(v, e) \in {f, g, h}
  BY <1>1, <1>6, <1>10 DEF FoldAndFollow
<1> QED
  BY <1>4, <1>5, <1>8, <1>9, <1>11, <1>12

LEMMA HandleTracks ==
    ASSUME WindowInv, TrackInv, events # <<>>, NEW w, w = World, NEW e, e = Head(events), NEW rest, rest = Tail(events)
    PROVE  Tracks(Handle(w, e), rest)
<1>1. FirstOf(events, e, rest) /\ Takable(w.m, e)
  BY TakableNow DEF World
<1>2. Shaped(w) /\ ModelTracks(w, events) /\ AppTracks(w, events)
  BY WorldOf DEF TrackInv
<1>3. PICK prepared : prepared = FinishActive(HandleCredential(CaptureError(w, e), e), e)
  OBVIOUS
<1>4. Preparing(w, events, e, rest, prepared)
  <2>1. Shaped(prepared) /\ prepared.m = w.m /\ prepared.p = w.p /\ AppTracks(prepared, rest)
    BY <1>1, <1>2, <1>3, PreparedTracks
  <2> QED
    BY <1>1, <1>2, <2>1 DEF Preparing
<1>5. ModelShaped(Fold(prepared.m, e))
  <2>1. prepared.m = model
    BY <1>4 DEF Preparing, World
  <2> QED
    BY <2>1, SoundFolds DEF WindowInv, Backstage
<1>6. RedisDisposition(w, e) \in {"ignore", "stale"} => e.kind = "RedisKeys"
  BY DEF RedisDisposition
<1>7. ASSUME e.kind = "RedisKeys" PROVE Tracks(w, rest)
  <2>1. Preparing(w, events, e, rest, w)
    BY <1>1, <1>2, <1>7, KeysLater DEF Preparing
  <2> QED
    BY <1>7, <2>1, FoldTracks
<1>8. PICK s : s = FinishActive(w, e)
  OBVIOUS
<1>9. PICK stale : stale = [s EXCEPT !.a.recipes = Without(@, e.op)]
  OBVIOUS
<1>10. ASSUME e.kind = "RedisKeys" PROVE Tracks(stale, rest)
  <2>1. TablesShaped(w.a) /\ PromptLives(w, rest) /\ \A i \in Ids : OperationLives(w, events, i) /\ PriorLives(w, events, i)
    BY <1>2, <1>7, <1>10 DEF Tracks, AppTracks
  <2>2. Shaped(s) /\ s.m = w.m /\ s.p = w.p /\ AppTracks(s, rest)
    BY <1>1, <1>2, <1>8, <2>1, FinishLater
  <2>3. Preparing(w, events, e, rest, s)
    BY <1>1, <1>2, <2>2 DEF Preparing
  <2>4. stale.m = s.m /\ stale.p = s.p /\ stale.a.ops = s.a.ops /\ stale.a.deletes = s.a.deletes /\ stale.a.prompt = s.a.prompt
    BY <1>9, <2>2 DEF Shaped, AppShaped
  <2> QED
    BY <1>10, <2>3, <2>4, FoldTracks
<1>11. Tracks(HandleSaved(prepared, e), rest)
  BY <1>4, <1>5, SavedTracks
<1>12. PICK unsaved : unsaved = [prepared EXCEPT !.a.editor.save = 0]
  OBVIOUS
<1>13. ASSUME e.kind \in {"ProfileCreateFailed", "ProfileUpdateFailed"} PROVE Tracks(unsaved, rest)
  <2>1. /\ unsaved.m = prepared.m /\ unsaved.p = prepared.p /\ unsaved.a.ops = prepared.a.ops
        /\ unsaved.a.deletes = prepared.a.deletes /\ unsaved.a.prompt = prepared.a.prompt
    BY <1>4, <1>12 DEF Preparing, Shaped, AppShaped
  <2> QED
    BY <1>4, <1>13, <2>1, FoldTracks
<1>14. PICK warned : warned = IF e.kind = "ConfigUncertain" /\ w.a.editor # NoEditor
                              THEN [prepared EXCEPT !.a.editor.uncertain = TRUE] ELSE prepared
  OBVIOUS
<1>15. Preparing(w, events, e, rest, warned) /\ warned.m = prepared.m
  <2>1. PICK x : x = [prepared EXCEPT !.a.editor.uncertain = TRUE]
    OBVIOUS
  <2>2. /\ x = [m |-> prepared.m, a |-> x.a, p |-> prepared.p] /\ AppShaped(x.a)
        /\ x.a.ops = prepared.a.ops /\ x.a.deletes = prepared.a.deletes /\ x.a.prompt = prepared.a.prompt
    <3>1. PICK editor : editor = [prepared.a.editor EXCEPT !.uncertain = TRUE]
      OBVIOUS
    <3>2. EditorShaped(editor)
      BY <1>4, <3>1, EditorStays DEF Preparing, Shaped, AppShaped
    <3>3. x = [prepared EXCEPT !.a.editor = editor]
      BY <1>4, <2>1, <3>1 DEF Preparing, Shaped, AppShaped
    <3> QED
      BY <1>4, <3>2, <3>3 DEF Preparing, Shaped, AppShaped
  <2>3. AppTracks(x, rest)
    BY <1>4, <2>2, AppAlike DEF Preparing
  <2>4. Preparing(w, events, e, rest, x) /\ x.m = prepared.m
    BY <1>4, <2>2, <2>3 DEF Preparing, Shaped
  <2> QED
    BY <1>4, <1>14, <2>1, <2>4
<1>16. PICK followed : followed = FoldAndFollow(warned, e)
  OBVIOUS
<1>17. Tracks(followed, rest) /\ Shaped(followed)
  BY <1>5, <1>15, <1>16, FollowTracks
<1>18. PICK retried : retried = RetryRecipe(followed, w.a.prompt.recipe, w.a.prompt.source)
  OBVIOUS
<1>19. Tracks(retried, rest)
  BY <1>17, <1>18, TracksRetryRecipe
<1>20. CASE e.kind = "RedisKeys" /\ Handle(w, e) \in {w, stale}
  BY <1>7, <1>10, <1>20
<1>21. CASE e.kind \in {"ProfileCreateFailed", "ProfileUpdateFailed"} /\ Handle(w, e) = unsaved
  BY <1>13, <1>21
<1>22. \/ e.kind = "RedisKeys" /\ Handle(w, e) \in {w, stale}
       \/ e.kind \in {"ProfileCreateFailed", "ProfileUpdateFailed"} /\ Handle(w, e) = unsaved
       \/ Handle(w, e) \in {HandleSaved(prepared, e), retried, followed}
  <2>1. EditorTakes(prepared, e, {"ProfileCreateFailed", "ProfileUpdateFailed"}) =>
          e.kind \in {"ProfileCreateFailed", "ProfileUpdateFailed"}
    BY DEF EditorTakes
  <2>3. \/ RedisDisposition(w, e) = "ignore" /\ Handle(w, e) = w
        \/ RedisDisposition(w, e) = "stale" /\ Handle(w, e) = stale
        \/ EditorTakes(prepared, e, {"ProfileCreateFailed", "ProfileUpdateFailed"}) /\ Handle(w, e) = unsaved
        \/ Handle(w, e) \in {HandleSaved(prepared, e), retried, followed}
    <3>1. stale = Dropped(FinishActive(w, e), e)
      BY Zenon, <1>8, <1>9 DEF Dropped
    <3>2. unsaved = Unsaved(prepared)
      BY Zenon, <1>12 DEF Unsaved
    <3>3. warned = Marked(w, prepared, e)
      BY Zenon, <1>14 DEF Marked
    <3> QED
      BY SMT, <1>3, <1>16, <1>18, <3>1, <3>2, <3>3, HandleIs
  <2> QED
    BY <1>6, <2>1, <2>3
<1> QED
  BY <1>11, <1>17, <1>19, <1>20, <1>21, <1>22

LEMMA PollTracks ==
    ASSUME WindowInv, TrackInv, Poll
    PROVE  TrackInv'
<1>1. events # <<>>
  BY DEF Poll
<1>2. PICK w : w = World
  OBVIOUS
<1>3. PICK e : e = Head(events)
  OBVIOUS
<1>4. PICK rest : rest = Tail(events)
  OBVIOUS
<1>5. PICK v : v = Handle(w, e)
  OBVIOUS
<1>6. Tracks(v, rest)
  BY <1>1, <1>2, <1>3, <1>4, <1>5, HandleTracks
<1>7. Shaped(v)
  <2>1. WorldSound(w, events) /\ ServiceShaped(service) /\ Answering
    BY <1>2, WorldOf DEF WindowInv, Backstage
  <2>2. WorldSound(v, rest)
    BY <1>1, <1>3, <1>4, <1>5, <2>1, SoundHandle
  <2> QED
    BY <2>2 DEF WorldSound
<1>8. Become(v) /\ rest = events' /\ UNCHANGED <<tasks, mutation, service>>
  BY <1>2, <1>3, <1>4, <1>5 DEF Poll
<1> QED
  BY <1>6, <1>7, <1>8, TrackBecomes

-----------------------------------------------------------------------------
(* The window waits for nothing in vain                                    *)

\* An empty window waits for nothing, and the first refresh is in the lane of mutations.
LEMMA TrackStarts ==
    ASSUME Init
    PROVE  TrackInv
<1>1. PICK empty : empty = [m |-> EmptyModel, a |-> EmptyApp, p |-> EmptyPort]
  OBVIOUS
<1>2. PICK start : start = SubmitRefresh(empty)
  OBVIOUS
<1>3. /\ model = start.m /\ app = start.a /\ port = start.p /\ events = <<>> /\ mutation = NoMutation
      /\ service = Loaded(disk)
  BY <1>1, <1>2 DEF Init
<1>4. Queue(<<>>) /\ Len(<<>>) = 0
  BY EmptyQueue
<1>5. Shaped(empty)
  BY <1>1, EmptyShaped
<1>6. mutation.pc = "none" /\ service.uncertain = FALSE
  BY <1>3, NoMutationShaped DEF Loaded
<1>7. AppTracks(empty, <<>>)
  <2>1. /\ empty.a.ops = [i \in Ids |-> Idle] /\ empty.a.deletes = [i \in Ids |-> NoDelete] /\ empty.a.prompt = NoPrompt
    BY <1>1 DEF EmptyApp
  <2>2. DeleteShaped(NoDelete) /\ NoDelete.prior = Idle /\ NoPrompt.store = 0
    BY DEF DeleteShaped, NoDelete, NoPrompt
  <2>3. NoPrompt = [id |-> NoPrompt.id, gen |-> NoPrompt.gen, source |-> NoPrompt.source,
                    recipe |-> NoPrompt.recipe, store |-> NoPrompt.store]
    BY DEF NoPrompt
  <2>4. TablesShaped(empty.a)
    BY <2>1, <2>2, <2>3 DEF TablesShaped
  <2>5. PromptLives(empty, <<>>)
    BY <2>1, <2>2 DEF PromptLives
  <2>6. KindKnown(Idle) /\ \A i \in Ids : ~Named(Idle.kind, i)
    BY DEF KindKnown, Named, Idle
  <2>7. \A i \in Ids : OperationLives(empty, <<>>, i) /\ PriorLives(empty, <<>>, i)
    BY <2>1, <2>2, <2>6 DEF OperationLives, PriorLives
  <2> QED
    BY <2>4, <2>5, <2>7 DEF AppTracks
<1>8. ModelTracks(empty, <<>>)
  <2>1. /\ empty.m.nextOp = 1 /\ empty.m.lastLoad = 0 /\ empty.m.uncertain = FALSE /\ empty.m.executing = {}
        /\ empty.m.profiles = [i \in Ids |-> NoProfile]
        /\ empty.p.control = <<>> /\ empty.p.mutation = <<>> /\ empty.p.work = <<>>
    BY <1>1 DEF EmptyModel, EmptyPort
  <2>2. 1..Len(<<>>) = {}
    BY <1>4
  <2>3. LanesNumbered(empty.p, empty.m.nextOp)
    BY <1>4, <2>1, <2>2 DEF LanesNumbered
  <2>4. MutationsAbove(empty.p, empty.m.lastLoad)
    BY <1>6, <2>1, <2>2 DEF MutationsAbove
  <2>5. empty.m.nextOp \in Nat /\ empty.m.lastLoad \in Nat /\ empty.m.lastLoad < empty.m.nextOp
    BY <2>1
  <2>6. empty.m.uncertain \in BOOLEAN
    BY <2>1
  <2>7. OperationsNumbered(empty, <<>>)
    BY <1>6, <2>2, <2>3, <2>4, <2>5, <2>6 DEF OperationsNumbered
  <2>8. Warnings(empty.m, <<>>)
    BY <1>6, <2>2 DEF Warnings
  <2>9. ProfilesNamed(empty.m.profiles)
    BY <2>1 DEF ProfilesNamed
  <2> QED
    BY <1>6, <2>1, <2>2, <2>7, <2>8, <2>9 DEF ModelTracks
<1>9. Tracks(empty, <<>>)
  BY <1>7, <1>8 DEF Tracks
<1>10. Tracks(start, <<>>)
  BY <1>2, <1>5, <1>9, TracksSubmitRefresh
<1>11. World = start
  <2>1. Calm(empty, start)
    BY <1>2, <1>5, CalmSubmitRefresh
  <2>2. Shaped(start)
    BY <2>1 DEF Calm
  <2> QED
    BY <1>3, <2>2 DEF World, Shaped
<1> QED
  BY <1>3, <1>10, <1>11 DEF Tracks, TrackInv

LEMMA TrackStutters ==
    ASSUME WindowInv, TrackInv, UNCHANGED vars
    PROVE  TrackInv'
<1>1. PICK v, answers : v = World /\ answers = events
  OBVIOUS
<1>2. Shaped(v) /\ Tracks(v, answers)
  BY <1>1, WorldOf, WorldTracks
<1>3. Become(v) /\ answers = events' /\ UNCHANGED <<tasks, mutation, service>>
  BY <1>1 DEF vars, Become, World, window
<1> QED
  BY <1>2, <1>3, TrackBecomes

LEMMA TrackSteps ==
    ASSUME WindowInv, TrackInv, Next
    PROVE  TrackInv'
<1>1. CASE Poll
  BY <1>1, PollTracks
<1>2. CASE FinishFrame
  BY <1>2, FinishFrameTracks
<1>3. CASE User
  BY <1>3, UserTracks
<1>4. CASE PollControl
  BY <1>4, PollControlTracks
<1>5. CASE PollMutation
  BY <1>5, PollMutationTracks
<1>6. CASE PollWork
  BY <1>6, PollWorkTracks
<1>7. ASSUME NEW t \in tasks,
             \/ Disconnect(t) \/ Reconnect(t) \/ Acquire(t) \/ AcquireFails(t) \/ OperateEnds(t) \/ OperateEvicts(t)
      PROVE  TrackInv'
  BY <1>7, DisconnectTracks, ReconnectTracks, AcquireTracks, AcquireFailsTracks, OperateEndsTracks, OperateEvictsTracks
<1>8. CASE StoreSecret
  BY <1>8, StoreSecretTracks
<1>9. CASE Refuse
  BY <1>9, RefuseTracks
<1>10. CASE Write
  BY <1>10, WriteTracks
<1>11. CASE Reload
  BY <1>11, ReloadTracks
<1>12. CASE Complete
  BY <1>12, CompleteTracks
<1>13. CASE FinishMutation
  BY <1>13, FinishMutationTracks
<1>14. CASE EditDisk
  BY <1>14, EditDiskTracks
<1> QED
  BY <1>1, <1>2, <1>3, <1>4, <1>5, <1>6, <1>7, <1>8, <1>9, <1>10, <1>11, <1>12, <1>13, <1>14 DEF Next

\* The second inductive invariant, of every behaviour: what the application's tables, its
\* prompt and the statements shown as running wait for is queued, runs or is answered;
\* operations are numbered in the order they are asked for; and a refusal for an uncertain
\* configuration is on the way, or folded, before any that is older than the last load.
THEOREM WindowTracks == Spec => []TrackInv
<1>1. Init => TrackInv
  BY TrackStarts
<1>2. WindowInv /\ TrackInv /\ [Next]_vars => TrackInv'
  BY TrackSteps, TrackStutters
<1> QED
  BY <1>1, <1>2, WindowSafe, PTL DEF Spec

\* What is queued, runs or is answered is outstanding.
LEMMA UnderOutstanding ==
    ASSUME WindowInv, TrackInv, NEW kind, NEW op, NEW id, NEW gen, Under(port, events, kind, op, id, gen)
    PROVE  Outstanding(op)
<1>1. Queue(port.mutation) /\ Queue(port.work) /\ Queue(events)
  BY DEF TrackInv, ModelTracks, OperationsNumbered, LanesNumbered, World, WindowInv, Answering, AnswersInOrder
<1>2. CASE Queued(port, kind, op, id, gen)
  <2>1. CASE \E k \in 1..Len(port.mutation) : IsOf(port.mutation[k], kind, op, id, gen)
    <3>1. PICK k \in DOMAIN port.mutation : port.mutation[k].op = op
      BY <1>1, <2>1 DEF IsOf, Queue
    <3> QED
      BY <3>1 DEF Outstanding
  <2>2. CASE \E k \in 1..Len(port.work) : IsOf(port.work[k], kind, op, id, gen)
    <3>1. PICK k \in DOMAIN port.work : port.work[k].op = op
      BY <1>1, <2>2 DEF IsOf, Queue
    <3> QED
      BY <3>1 DEF Outstanding
  <2> QED
    BY <1>2, <2>1, <2>2 DEF Queued
<1>3. CASE Running(kind, op, id, gen)
  BY <1>3 DEF Running, IsOf, Outstanding, Registered
<1>4. CASE Answered(events, kind, op, id, gen)
  <2>1. PICK k \in DOMAIN events : events[k].op = op
    BY <1>1, <1>4 DEF Answered, AnswerOf, Queue
  <2> QED
    BY <2>1 DEF Outstanding
<1> QED
  BY <1>2, <1>3, <1>4 DEF Under

\* Whatever the window shows as pending is answered: the operation each card tracks, the
\* statement a workspace shows as running and the secret a prompt shows as being stored
\* are queued, run, or have an answer on the way (finish_active_operation,
\* handle_credential_terminal, fold).
THEOREM WindowPendingAnswered == Spec => []PendingIsAnswered
<1>1. ASSUME WindowInv, TrackInv PROVE PendingIsAnswered
  <2>1. PICK w : w = World
    OBVIOUS
  <2>2. w.m = model /\ w.a = app /\ w.p = port /\ AppTracks(w, events) /\ ModelTracks(w, events)
    BY <1>1, <2>1 DEF World, TrackInv
  <2>3. TrackedOperationLives
    <3>1. SUFFICES ASSUME NEW i \in Ids, app.ops[i] # Idle, app.ops[i].kind \notin {"disconnect", "reconnect"},
                          app.ops[i].kind = "browse" => i \notin Redis
                   PROVE  Outstanding(app.ops[i].op)
      BY DEF TrackedOperationLives
    <3>2. OperationLives(w, events, i)
      BY <2>2 DEF AppTracks
    <3>3. Named(app.ops[i].kind, i)
      BY <2>2, <3>1, <3>2 DEF OperationLives, KindKnown, Tracked, Named
    <3>4. Under(port, events, app.ops[i].kind, app.ops[i].op, i, app.ops[i].gen)
      BY <2>2, <3>2, <3>3 DEF OperationLives
    <3> QED
      BY <1>1, <3>4, UnderOutstanding
  <2>4. ExecutionsSettle
    <3>1. SUFFICES ASSUME NEW x \in model.executing, x.gen = model.active[x.id]
                   PROVE  Outstanding(x.op) \/ UncertainComing
      BY DEF ExecutionsSettle
    <3>2. Under(port, events, "execute", x.op, x.id, x.gen) \/ service.uncertain \/ Warned(model, events, 0)
      BY <2>2, <3>1 DEF ModelTracks, Executing
    <3>3. CASE Under(port, events, "execute", x.op, x.id, x.gen)
      BY <1>1, <3>3, UnderOutstanding
    <3>4. CASE service.uncertain
      BY <3>4 DEF UncertainComing
    <3>5. CASE Warned(model, events, 0)
      <4>1. Queue(events)
        BY <1>1 DEF WindowInv, Answering, AnswersInOrder
      <4>2. PICK q \in DOMAIN events : IsUncertain(events[q]) /\ events[q].op > model.lastLoad
        BY <3>5, <4>1 DEF Warned, Warning, Queue
      <4> QED
        BY <4>2 DEF UncertainComing, IsUncertain, Newer
    <3> QED
      BY <3>2, <3>3, <3>4, <3>5
  <2>5. PromptStoreLives
    <3>1. SUFFICES ASSUME app.prompt.store # 0 PROVE Outstanding(app.prompt.store)
      BY DEF PromptStoreLives
    <3>2. Under(port, events, "store", app.prompt.store, app.prompt.id, app.prompt.gen)
      BY <2>2, <3>1 DEF AppTracks, PromptLives
    <3> QED
      BY <1>1, <3>2, UnderOutstanding
  <2> QED
    BY <2>3, <2>4, <2>5 DEF PendingIsAnswered
<1>2. WindowInv /\ TrackInv => PendingIsAnswered
  BY <1>1
<1> QED
  BY <1>2, WindowSafe, WindowTracks, PTL

-----------------------------------------------------------------------------
(* The window and the service agree on generations.  An answer speaks of   *)
(* profile i if it makes a generation of it, or none, active; it is not    *)
(* taken if that is older than what is gone, so that what is gone has to   *)
(* be older than what the window is told afterwards (Buried).              *)

Speaks(e, i) == e.kind = "ProfilesLoaded" \/ (e.kind \in {"ProfileSaved", "ProfileDeleted"} /\ e.id = i)
Deletes(e, i) == e.kind = "ProfileDeleted" /\ e.id = i
Drops(e, i) == e.kind = "ProfilesLoaded" /\ e.profiles[i].gen = NoGen

\* Everything the window holds for active, or is told before place n, is older than g.
Outdates(m, answers, i, g, n) ==
    m.active[i] < g /\ \A j \in 1..Len(answers) : j < n => Told(answers[j], i) < g

\* Generation g of i is newer than everything that is gone at place n of the answers.
Outlives(m, answers, i, g, n) ==
    /\ m.tombs[i] < g
    /\ \A j \in 1..Len(answers) : j < n => /\ Deletes(answers[j], i) => answers[j].gen < g
                                           /\ Drops(answers[j], i) => Outdates(m, answers, i, g, j)

\* The service has made top generations, and g is that of i.
Buried(m, answers, i, top, g) ==
    /\ m.tombs[i] <= top
    /\ \A k \in 1..Len(answers) : Deletes(answers[k], i) =>
          answers[k].gen <= top /\ Outdates(m, answers, i, answers[k].gen, k)
    /\ \A k \in 1..Len(answers) : Told(answers[k], i) # NoGen => Outlives(m, answers, i, Told(answers[k], i), k)
    /\ g # NoGen => Outlives(m, answers, i, g, Len(answers) + 1)

Publishing == mutation.pc \in {"published", "join"}

\* The generation of a deletion that the window will hear of is newer than all of its profile.
DeletionNewest(m, answers) ==
    Publishing /\ ~service.uncertain /\ job.kind = "delete" /\ job.id \in Ids =>
        /\ service.gens[job.id] = NoGen /\ mutation.gen <= Len(service.bodies)
        /\ Outdates(m, answers, job.id, mutation.gen, Len(answers) + 1)

\* Loads come in the order they were asked for; a save has made a generation.
AnswersKnown(answers) ==
    \A k \in 1..Len(answers) :
        /\ answers[k].kind # "ProfilesFailed"
        /\ answers[k].kind = "ProfileSaved" /\ answers[k].id \in Ids => answers[k].gen # NoGen
        /\ IsLoad(answers[k]) => \A j \in 1..Len(answers) : IsLoad(answers[j]) /\ j < k => answers[j].op < answers[k].op

\* The window is left uncertain by what it knows and is told.
Doubted(answers, q, n) ==
    /\ IsUncertain(answers[q]) /\ answers[q].op > n
    /\ \A k \in 1..Len(answers) : IsLoad(answers[k]) =>
          answers[k].op <= answers[q].op /\ (k < q => answers[k].op < answers[q].op)
Blind(m, answers) ==
    \/ m.uncertain /\ \A k \in 1..Len(answers) : IsLoad(answers[k]) => answers[k].op <= m.lastLoad
    \/ \E q \in 1..Len(answers) : Doubted(answers, q, m.lastLoad)

\* A load is asked for, or under way.
Reloading(p) ==
    \/ \E k \in 1..Len(p.mutation) : p.mutation[k].kind = "refresh"
    \/ mutation.pc # "none" /\ job.kind = "refresh"

\* No load comes after place n.
NoLoadAfter(answers, n) == \A j \in 1..Len(answers) : n < j => ~IsLoad(answers[j])

\* The last load is taken.
LoadTaken(m, answers) ==
    \A k \in 1..Len(answers) : IsLoad(answers[k]) /\ NoLoadAfter(answers, k) =>
        /\ answers[k].op > m.lastLoad
        /\ \A j \in 1..Len(answers) : j < k /\ IsUncertain(answers[j]) => answers[j].op < answers[k].op

\* Before answer n is taken, g is the active generation of i.
Leads(m, answers, i, n, g) ==
    \/ m.active[i] = g /\ \A j \in 1..Len(answers) : j < n => ~Speaks(answers[j], i)
    \/ \E j \in 1..Len(answers) :
         /\ j < n /\ Speaks(answers[j], i) /\ Told(answers[j], i) = g
         /\ \A h \in 1..Len(answers) : j < h /\ h < n => ~Speaks(answers[h], i)

\* The answers lead to g, and each save there from what it has replaced.
Agreed(m, answers, i, g) ==
    /\ Leads(m, answers, i, Len(answers) + 1, g)
    /\ \A k \in 1..Len(answers) :
          /\ answers[k].kind = "ProfileSaved" /\ answers[k].id = i /\ answers[k].prev # NoGen
          /\ NoLoadAfter(answers, k)
          => Leads(m, answers, i, k, answers[k].prev)

\* The generation of i the window is to know before the mutation under way is answered.
Published(i) == IF Publishing /\ job.kind # "refresh" /\ job.id = i THEN job.gen ELSE service.gens[i]

Agreeing(w, answers) ==
    \/ edited \/ service.uncertain \/ Reloading(w.p) \/ Blind(w.m, answers)
    \/ LoadTaken(w.m, answers) /\ \A i \in Ids : Agreed(w.m, answers, i, Published(i))

\* The file is what was published, unless another program or a lost answer of the writer changed it.
FileKnown ==
    /\ edited \/ service.uncertain \/ disk = service.profiles
    /\ mutation.pc = "run" /\ service.uncertain => job.kind = "refresh"

Consistent(w, answers) ==
    /\ \A i \in Ids : Buried(w.m, answers, i, Len(service.bodies), service.gens[i])
    /\ DeletionNewest(w.m, answers) /\ AnswersKnown(answers) /\ Agreeing(w, answers)

AgreeInv == Consistent(World, events) /\ FileKnown

-----------------------------------------------------------------------------
(* The answer that is first is folded                                      *)

\* The answer is taken.
Acceptable(m, e, i) ==
    /\ e.kind = "ProfilesLoaded" => e.op > m.lastLoad /\ (Told(e, i) # NoGen => m.tombs[i] < Told(e, i))
    /\ e.kind = "ProfileSaved" =>
         m.tombs[i] < e.gen /\ IF e.prev # NoGen THEN m.active[i] = e.prev ELSE m.active[i] <= e.gen
    /\ e.kind = "ProfileDeleted" => m.active[i] < e.gen

\* n is m after the answer, of profile i.
HearsOf(m, e, n, i) ==
    /\ n.active[i] \in {m.active[i], NoGen, Told(e, i)}
    /\ ~Speaks(e, i) => n.active[i] = m.active[i]
    /\ Speaks(e, i) /\ Acceptable(m, e, i) => n.active[i] = Told(e, i)
    /\ \/ n.tombs[i] = m.tombs[i]
       \/ Drops(e, i) /\ n.tombs[i] = m.active[i]
       \/ Deletes(e, i) /\ n.tombs[i] = e.gen
Hears(m, e, n) ==
    /\ Stays(m, n, e) \/ Loads(m, n, e) \/ Doubts(m, n, e)
    /\ \A i \in Ids : HearsOf(m, e, n, i)

GensNat(m, answers, i) ==
    /\ m.active[i] \in Nat /\ m.tombs[i] \in Nat
    /\ \A k \in 1..Len(answers) : /\ Told(answers[k], i) \in Nat
                                  /\ Deletes(answers[k], i) => answers[k].gen \in Nat

LEMMA OutdatesLater ==
    ASSUME NEW answers, NEW e, NEW rest, FirstOf(answers, e, rest), NEW m, NEW n, NEW i, HearsOf(m, e, n, i),
           GensNat(m, answers, i), NEW g \in Nat, NEW k \in Nat \ {0}, Outdates(m, answers, i, g, k + 1)
    PROVE  Outdates(n, rest, i, g, k)
<1>1. 1 \in 1..Len(answers) /\ answers[1] = e /\ 1 < k + 1
  BY FirstOrLater
<1>2. Told(e, i) \in Nat /\ m.active[i] \in Nat /\ Told(e, i) < g /\ m.active[i] < g
  BY <1>1 DEF GensNat, Outdates
<1>3. n.active[i] < g
  BY <1>2 DEF HearsOf, NoGen
<1>4. ASSUME NEW j \in 1..Len(rest), j < k PROVE Told(rest[j], i) < g
  <2>1. PICK h : h = j + 1
    OBVIOUS
  <2>2. h \in 1..Len(answers) /\ rest[j] = answers[h] /\ h < k + 1
    BY <1>4, <2>1, FirstOrLater
  <2> QED
    BY <2>2 DEF Outdates
<1> QED
  BY <1>3, <1>4 DEF Outdates

LEMMA OutlivesLater ==
    ASSUME NEW answers, NEW e, NEW rest, FirstOf(answers, e, rest), NEW m, NEW n, NEW i, HearsOf(m, e, n, i),
           GensNat(m, answers, i), NEW g \in Nat, NEW k \in Nat \ {0}, Outlives(m, answers, i, g, k + 1)
    PROVE  Outlives(n, rest, i, g, k)
<1>1. 1 \in 1..Len(answers) /\ answers[1] = e /\ 1 < k + 1
  BY FirstOrLater
<1>2. n.tombs[i] < g
  <2>1. CASE n.tombs[i] = m.tombs[i]
    BY <2>1 DEF Outlives
  <2>2. CASE Drops(e, i) /\ n.tombs[i] = m.active[i]
    <3>1. Outdates(m, answers, i, g, 1)
      BY <1>1, <2>2 DEF Outlives
    <3> QED
      BY <2>2, <3>1 DEF Outdates
  <2>3. CASE Deletes(e, i) /\ n.tombs[i] = e.gen
    BY <1>1, <2>3 DEF Outlives
  <2> QED
    BY <2>1, <2>2, <2>3 DEF HearsOf
<1>3. ASSUME NEW j \in 1..Len(rest), j < k
      PROVE  /\ Deletes(rest[j], i) => rest[j].gen < g
             /\ Drops(rest[j], i) => Outdates(n, rest, i, g, j)
  <2>1. PICK h : h = j + 1
    OBVIOUS
  <2>2. h \in 1..Len(answers) /\ rest[j] = answers[h] /\ h < k + 1 /\ j \in Nat \ {0}
    BY <1>3, <2>1, FirstOrLater
  <2>3. Deletes(rest[j], i) => rest[j].gen < g
    BY <2>2 DEF Outlives
  <2>4. Drops(rest[j], i) => Outdates(m, answers, i, g, j + 1)
    BY <2>1, <2>2 DEF Outlives
  <2> QED
    BY <2>2, <2>3, <2>4, OutdatesLater
<1> QED
  BY <1>2, <1>3 DEF Outlives

LEMMA BuriedLater ==
    ASSUME NEW answers, NEW e, NEW rest, FirstOf(answers, e, rest), NEW m, NEW n, NEW i, HearsOf(m, e, n, i),
           GensNat(m, answers, i), NEW top \in Nat, m.active[i] <= top, NEW g \in Nat, Buried(m, answers, i, top, g)
    PROVE  Buried(n, rest, i, top, g)
<1>1. 1 \in 1..Len(answers) /\ answers[1] = e /\ Len(rest) \in Nat /\ Len(answers) = Len(rest) + 1
  BY FirstOrLater DEF FirstOf
<1>2. n.tombs[i] <= top
  BY <1>1 DEF HearsOf, Buried
<1>3. ASSUME NEW k \in 1..Len(rest)
      PROVE  /\ Deletes(rest[k], i) => rest[k].gen <= top /\ Outdates(n, rest, i, rest[k].gen, k)
             /\ Told(rest[k], i) # NoGen => Outlives(n, rest, i, Told(rest[k], i), k)
  <2>1. PICK h : h = k + 1
    OBVIOUS
  <2>2. h \in 1..Len(answers) /\ rest[k] = answers[h] /\ k \in Nat \ {0}
    BY <2>1, FirstOrLater
  <2>3. Told(rest[k], i) \in Nat /\ (Deletes(rest[k], i) => rest[k].gen \in Nat)
    BY <2>2 DEF GensNat
  <2>4. ASSUME Deletes(rest[k], i) PROVE rest[k].gen <= top /\ Outdates(n, rest, i, rest[k].gen, k)
    <3>1. rest[k].gen <= top /\ Outdates(m, answers, i, rest[k].gen, k + 1)
      BY <2>1, <2>2, <2>4 DEF Buried
    <3> QED
      BY <2>2, <2>3, <2>4, <3>1, OutdatesLater
  <2>5. ASSUME Told(rest[k], i) # NoGen PROVE Outlives(n, rest, i, Told(rest[k], i), k)
    <3>1. Outlives(m, answers, i, Told(rest[k], i), k + 1)
      BY <2>1, <2>2, <2>5 DEF Buried
    <3> QED
      BY <2>2, <2>3, <3>1, OutlivesLater
  <2> QED
    BY <2>4, <2>5
<1>4. ASSUME g # NoGen PROVE Outlives(n, rest, i, g, Len(rest) + 1)
  <2>1. PICK k : k = Len(rest) + 1
    OBVIOUS
  <2>2. k \in Nat \ {0} /\ Outlives(m, answers, i, g, k + 1)
    BY <1>1, <1>4, <2>1 DEF Buried
  <2> QED
    BY <2>1, <2>2, OutlivesLater
<1> QED
  BY <1>2, <1>3, <1>4 DEF Buried

LEMMA LeadsLater ==
    ASSUME NEW answers, NEW e, NEW rest, FirstOf(answers, e, rest), NEW m, NEW n, NEW i, HearsOf(m, e, n, i),
           NEW g, NEW k \in Nat \ {0}, Leads(m, answers, i, k + 1, g),
           Speaks(e, i) /\ (\A h \in 1..Len(answers) : 1 < h /\ h < k + 1 => ~Speaks(answers[h], i)) =>
               n.active[i] = Told(e, i)
    PROVE  Leads(n, rest, i, k, g)
<1>1. 1 \in 1..Len(answers) /\ answers[1] = e /\ 1 < k + 1
  BY FirstOrLater
<1>2. CASE m.active[i] = g /\ \A j \in 1..Len(answers) : j < k + 1 => ~Speaks(answers[j], i)
  <2>1. n.active[i] = g
    BY <1>1, <1>2 DEF HearsOf
  <2>2. ASSUME NEW j \in 1..Len(rest), j < k PROVE ~Speaks(rest[j], i)
    <3>1. PICK h : h = j + 1
      OBVIOUS
    <3>2. h \in 1..Len(answers) /\ rest[j] = answers[h] /\ h < k + 1
      BY <2>2, <3>1, FirstOrLater
    <3> QED
      BY <1>2, <3>2
  <2> QED
    BY <2>1, <2>2 DEF Leads
<1>3. ASSUME NEW j \in 1..Len(answers), j < k + 1, Speaks(answers[j], i), Told(answers[j], i) = g,
             \A h \in 1..Len(answers) : j < h /\ h < k + 1 => ~Speaks(answers[h], i)
      PROVE  Leads(n, rest, i, k, g)
  <2>0. ASSUME NEW h \in 1..Len(rest), j < h + 1, h < k PROVE ~Speaks(rest[h], i)
    <3>1. PICK l : l = h + 1
      OBVIOUS
    <3>2. l \in 1..Len(answers) /\ rest[h] = answers[l] /\ j < l /\ l < k + 1
      BY <2>0, <3>1, FirstOrLater
    <3> QED
      BY <1>3, <3>2
  <2>1. CASE j = 1
    <3>1. n.active[i] = g
      BY <1>1, <1>3, <2>1
    <3>2. \A h \in 1..Len(rest) : h < k => ~Speaks(rest[h], i)
      BY <2>0, <2>1
    <3> QED
      BY <3>1, <3>2 DEF Leads
  <2>2. CASE j # 1
    <3>1. PICK l : l = j - 1
      OBVIOUS
    <3>2. l \in 1..Len(rest) /\ answers[j] = rest[l] /\ l < k
      BY <1>3, <2>2, <3>1, FirstOrLater
    <3>3. \A h \in 1..Len(rest) : l < h /\ h < k => ~Speaks(rest[h], i)
      BY <2>0, <3>1
    <3> QED
      BY <1>3, <3>2, <3>3 DEF Leads
  <2> QED
    BY <2>1, <2>2
<1> QED
  BY <1>2, <1>3 DEF Leads

\* An answer after which no load comes is taken.
LEMMA TakenNow ==
    ASSUME NEW answers, NEW e, NEW rest, FirstOf(answers, e, rest), NEW m, NEW n, NEW i \in Ids, HearsOf(m, e, n, i),
           GensNat(m, answers, i), NEW top, NEW s, Buried(m, answers, i, top, s), NEW g, Agreed(m, answers, i, g),
           AnswersKnown(answers), LoadTaken(m, answers), Told(e, i) # NoGen => m.active[i] <= Told(e, i),
           Speaks(e, i), NoLoadAfter(answers, 1)
    PROVE  n.active[i] = Told(e, i)
<1>1. 1 \in 1..Len(answers) /\ answers[1] = e
  BY FirstOrLater
<1>2. Told(e, i) # NoGen => m.tombs[i] < Told(e, i)
  <2>1. Told(e, i) # NoGen => Outlives(m, answers, i, Told(e, i), 1)
    BY <1>1 DEF Buried
  <2> QED
    BY <2>1 DEF Outlives
<1>3. ASSUME e.kind = "ProfilesLoaded" PROVE e.op > m.lastLoad
  BY <1>1, <1>3 DEF LoadTaken, IsLoad
<1>4. ASSUME e.kind = "ProfileSaved"
      PROVE  m.tombs[i] < e.gen /\ IF e.prev # NoGen THEN m.active[i] = e.prev ELSE m.active[i] <= e.gen
  <2>1. e.id = i /\ e.gen # NoGen /\ Told(e, i) = e.gen
    BY <1>1, <1>4 DEF Speaks, AnswersKnown, Told
  <2>2. ASSUME e.prev # NoGen PROVE m.active[i] = e.prev
    <3>1. Leads(m, answers, i, 1, e.prev)
      BY <1>1, <1>4, <2>1, <2>2 DEF Agreed
    <3> QED
      BY <3>1 DEF Leads
  <2> QED
    BY <1>2, <2>1, <2>2
<1>5. ASSUME e.kind = "ProfileDeleted" PROVE m.active[i] < e.gen
  <2>1. Deletes(e, i)
    BY <1>5 DEF Speaks, Deletes
  <2>2. Outdates(m, answers, i, e.gen, 1)
    BY <1>1, <2>1 DEF Buried
  <2> QED
    BY <2>2 DEF Outdates
<1>6. Acceptable(m, e, i)
  BY <1>2, <1>3, <1>4, <1>5 DEF Acceptable
<1> QED
  BY <1>6 DEF HearsOf

LEMMA AgreedLater ==
    ASSUME NEW answers, NEW e, NEW rest, FirstOf(answers, e, rest), NEW m, NEW n, NEW i \in Ids, HearsOf(m, e, n, i),
           GensNat(m, answers, i), NEW top, NEW s, Buried(m, answers, i, top, s), NEW g, Agreed(m, answers, i, g),
           AnswersKnown(answers), LoadTaken(m, answers), Told(e, i) # NoGen => m.active[i] <= Told(e, i)
    PROVE  Agreed(n, rest, i, g)
<1>0. Speaks(e, i) /\ NoLoadAfter(answers, 1) => n.active[i] = Told(e, i)
  BY TakenNow
<1>1. Len(rest) \in Nat /\ Len(answers) = Len(rest) + 1
  BY DEF FirstOf
<1>2. \A h \in 1..Len(answers) : IsLoad(answers[h]) => Speaks(answers[h], i)
  BY DEF AnswersKnown, IsLoad, Speaks
<1>3. Leads(n, rest, i, Len(rest) + 1, g)
  <2>1. PICK k : k = Len(rest) + 1
    OBVIOUS
  <2>2. k \in Nat \ {0} /\ Leads(m, answers, i, k + 1, g)
    BY <1>1, <2>1 DEF Agreed
  <2>3. (\A h \in 1..Len(answers) : 1 < h /\ h < k + 1 => ~Speaks(answers[h], i)) => NoLoadAfter(answers, 1)
    BY <1>1, <1>2, <2>1 DEF NoLoadAfter
  <2>4. Leads(n, rest, i, k, g)
    BY <1>0, <2>2, <2>3, LeadsLater
  <2> QED
    BY <2>1, <2>4
<1>4. ASSUME NEW k \in 1..Len(rest), rest[k].kind = "ProfileSaved", rest[k].id = i, rest[k].prev # NoGen,
             NoLoadAfter(rest, k)
      PROVE  Leads(n, rest, i, k, rest[k].prev)
  <2>1. PICK l : l = k + 1
    OBVIOUS
  <2>2. l \in 1..Len(answers) /\ rest[k] = answers[l] /\ k \in Nat \ {0}
    BY <2>1, FirstOrLater
  <2>3. NoLoadAfter(answers, l)
    <3>1. SUFFICES ASSUME NEW j \in 1..Len(answers), l < j PROVE ~IsLoad(answers[j])
      BY DEF NoLoadAfter
    <3>2. PICK h : h = j - 1
      OBVIOUS
    <3>3. h \in 1..Len(rest) /\ answers[j] = rest[h] /\ k < h
      BY <2>1, <2>2, <3>1, <3>2, FirstOrLater
    <3> QED
      BY <1>4, <3>3 DEF NoLoadAfter
  <2>4. Leads(m, answers, i, k + 1, rest[k].prev)
    BY <1>4, <2>1, <2>2, <2>3 DEF Agreed
  <2>5. (\A h \in 1..Len(answers) : 1 < h /\ h < k + 1 => ~Speaks(answers[h], i)) => NoLoadAfter(answers, 1)
    <3>1. ~IsLoad(answers[l])
      BY <1>4, <2>2 DEF IsLoad
    <3> QED
      BY <1>2, <2>1, <2>2, <2>3, <3>1 DEF NoLoadAfter
  <2> QED
    BY <1>0, <2>2, <2>4, <2>5, LeadsLater
<1> QED
  BY <1>3, <1>4 DEF Agreed

LEMMA LoadTakenLater ==
    ASSUME NEW answers, NEW e, NEW rest, FirstOf(answers, e, rest), NEW m, NEW n,
           Stays(m, n, e) \/ Loads(m, n, e) \/ Doubts(m, n, e), AnswersKnown(answers), LoadTaken(m, answers)
    PROVE  LoadTaken(n, rest)
<1>1. 1 \in 1..Len(answers) /\ answers[1] = e
  BY FirstOrLater
<1>2. SUFFICES ASSUME NEW k \in 1..Len(rest), IsLoad(rest[k]), NoLoadAfter(rest, k)
               PROVE  /\ rest[k].op > n.lastLoad
                      /\ \A j \in 1..Len(rest) : j < k /\ IsUncertain(rest[j]) => rest[j].op < rest[k].op
  BY DEF LoadTaken
<1>3. PICK l : l = k + 1
  OBVIOUS
<1>4. l \in 1..Len(answers) /\ rest[k] = answers[l] /\ 1 < l
  BY <1>3, FirstOrLater
<1>5. NoLoadAfter(answers, l)
  <2>1. SUFFICES ASSUME NEW j \in 1..Len(answers), l < j PROVE ~IsLoad(answers[j])
    BY DEF NoLoadAfter
  <2>2. PICK h : h = j - 1
    OBVIOUS
  <2>3. h \in 1..Len(rest) /\ answers[j] = rest[h] /\ k < h
    BY <1>3, <1>4, <2>1, <2>2, FirstOrLater
  <2> QED
    BY <1>2, <2>3 DEF NoLoadAfter
<1>6. /\ answers[l].op > m.lastLoad
      /\ \A j \in 1..Len(answers) : j < l /\ IsUncertain(answers[j]) => answers[j].op < answers[l].op
  BY <1>2, <1>4, <1>5 DEF LoadTaken
<1>7. rest[k].op > n.lastLoad
  <2>1. CASE Stays(m, n, e)
    BY <1>4, <1>6, <2>1 DEF Stays
  <2>2. CASE Loads(m, n, e)
    BY <1>1, <1>2, <1>4, <2>2 DEF Loads, AnswersKnown
  <2>3. CASE Doubts(m, n, e)
    BY <1>1, <1>4, <1>6, <2>3 DEF Doubts
  <2> QED
    BY <2>1, <2>2, <2>3
<1>8. ASSUME NEW j \in 1..Len(rest), j < k, IsUncertain(rest[j]) PROVE rest[j].op < rest[k].op
  <2>1. PICK h : h = j + 1
    OBVIOUS
  <2>2. h \in 1..Len(answers) /\ rest[j] = answers[h] /\ h < l
    BY <1>3, <1>8, <2>1, FirstOrLater
  <2> QED
    BY <1>4, <1>6, <1>8, <2>2
<1> QED
  BY <1>7, <1>8

LEMMA KnownLater ==
    ASSUME NEW answers, NEW e, NEW rest, FirstOf(answers, e, rest), AnswersKnown(answers)
    PROVE  AnswersKnown(rest)
<1>1. SUFFICES ASSUME NEW k \in 1..Len(rest)
               PROVE  /\ rest[k].kind # "ProfilesFailed"
                      /\ rest[k].kind = "ProfileSaved" /\ rest[k].id \in Ids => rest[k].gen # NoGen
                      /\ IsLoad(rest[k]) => \A j \in 1..Len(rest) : IsLoad(rest[j]) /\ j < k => rest[j].op < rest[k].op
  BY DEF AnswersKnown
<1>2. PICK l : l = k + 1
  OBVIOUS
<1>3. l \in 1..Len(answers) /\ rest[k] = answers[l]
  BY <1>2, FirstOrLater
<1>4. ASSUME IsLoad(rest[k]), NEW j \in 1..Len(rest), IsLoad(rest[j]), j < k PROVE rest[j].op < rest[k].op
  <2>1. PICK h : h = j + 1
    OBVIOUS
  <2>2. h \in 1..Len(answers) /\ rest[j] = answers[h] /\ h < l
    BY <1>2, <1>4, <2>1, FirstOrLater
  <2> QED
    BY <1>3, <1>4, <2>2 DEF AnswersKnown
<1> QED
  BY <1>3, <1>4 DEF AnswersKnown

LEMMA BlindLater ==
    ASSUME NEW answers, NEW e, NEW rest, FirstOf(answers, e, rest), NEW m, NEW n,
           Stays(m, n, e) \/ Loads(m, n, e) \/ Doubts(m, n, e), OpsNat(answers), m.lastLoad \in Nat, Blind(m, answers)
    PROVE  Blind(n, rest)
<1>1. 1 \in 1..Len(answers) /\ answers[1] = e
  BY FirstOrLater
<1>2. \A k \in 1..Len(rest) : IsLoad(rest[k]) \/ IsUncertain(rest[k]) => rest[k].op \in Nat
  BY FirstOrLater DEF OpsNat
<1>3. IsLoad(e) \/ IsUncertain(e) => e.op \in Nat
  BY <1>1 DEF OpsNat
<1>4. ASSUME NEW o \in Nat, n.uncertain, n.lastLoad >= o, n.lastLoad \in Nat,
             \A k \in 1..Len(answers) : IsLoad(answers[k]) => answers[k].op <= o
      PROVE  Blind(n, rest)
  <2>1. \A k \in 1..Len(rest) : IsLoad(rest[k]) => rest[k].op <= o
    BY <1>4, FirstOrLater
  <2>2. \A k \in 1..Len(rest) : IsLoad(rest[k]) => rest[k].op <= n.lastLoad
    BY <1>2, <1>4, <2>1
  <2> QED
    BY <1>4, <2>2 DEF Blind
<1>5. CASE m.uncertain /\ \A k \in 1..Len(answers) : IsLoad(answers[k]) => answers[k].op <= m.lastLoad
  <2>1. CASE Stays(m, n, e)
    <3>1. n.uncertain /\ n.lastLoad = m.lastLoad
      BY <1>5, <2>1 DEF Stays
    <3>2. n.lastLoad >= m.lastLoad
      BY <3>1
    <3> QED
      BY <1>4, <1>5, <3>1, <3>2
  <2>2. CASE Loads(m, n, e)
    <3>1. e.op <= m.lastLoad /\ e.op > m.lastLoad /\ e.op \in Nat
      BY <1>1, <1>3, <1>5, <2>2 DEF Loads
    <3> QED
      BY <3>1
  <2>3. CASE Doubts(m, n, e)
    <3>1. n.uncertain /\ n.lastLoad = e.op /\ e.op > m.lastLoad /\ e.op \in Nat
      BY <1>3, <2>3 DEF Doubts
    <3>2. n.lastLoad >= m.lastLoad
      BY <3>1
    <3> QED
      BY <1>4, <1>5, <3>1, <3>2
  <2> QED
    BY <2>1, <2>2, <2>3
<1>6. ASSUME NEW q \in 1..Len(answers), Doubted(answers, q, m.lastLoad) PROVE Blind(n, rest)
  <2>1. /\ IsUncertain(answers[q]) /\ answers[q].op > m.lastLoad /\ answers[q].op \in Nat
        /\ \A k \in 1..Len(answers) : IsLoad(answers[k]) =>
              answers[k].op <= answers[q].op /\ (k < q => answers[k].op < answers[q].op)
    BY <1>6 DEF Doubted, OpsNat
  <2>2. ASSUME q # 1, answers[q].op > n.lastLoad PROVE Blind(n, rest)
    <3>1. PICK r : r = q - 1
      OBVIOUS
    <3>2. r \in 1..Len(rest) /\ answers[q] = rest[r]
      BY <2>2, <3>1, FirstOrLater
    <3>3. ASSUME NEW k \in 1..Len(rest), IsLoad(rest[k])
          PROVE  rest[k].op <= rest[r].op /\ (k < r => rest[k].op < rest[r].op)
      <4>1. PICK h : h = k + 1
        OBVIOUS
      <4>2. h \in 1..Len(answers) /\ rest[k] = answers[h] /\ (k < r => h < q)
        BY <3>1, <4>1, FirstOrLater
      <4> QED
        BY <2>1, <3>2, <3>3, <4>2
    <3>4. Doubted(rest, r, n.lastLoad)
      BY <2>1, <2>2, <3>2, <3>3 DEF Doubted
    <3> QED
      BY <3>2, <3>4 DEF Blind
  <2>3. CASE Doubts(m, n, e)
    <3>1. n.uncertain /\ n.lastLoad = e.op /\ e.op \in Nat
      BY <1>3, <2>3 DEF Doubts
    <3>2. CASE e.op >= answers[q].op
      <4>1. n.lastLoad >= answers[q].op /\ n.lastLoad \in Nat
        BY <3>1, <3>2
      <4> QED
        BY <1>4, <2>1, <3>1, <4>1
    <3>3. CASE ~(e.op >= answers[q].op)
      <4>1. q # 1 /\ answers[q].op > n.lastLoad
        BY <1>1, <2>1, <3>1, <3>3
      <4> QED
        BY <2>2, <4>1
    <3> QED
      BY <3>2, <3>3
  <2>4. CASE Stays(m, n, e)
    <3>1. q # 1 /\ answers[q].op > n.lastLoad
      BY <1>1, <2>1, <2>4 DEF Stays
    <3> QED
      BY <2>2, <3>1
  <2>5. CASE Loads(m, n, e)
    <3>1. q # 1
      BY <1>1, <2>1, <2>5 DEF Loads, IsLoad, IsUncertain
    <3>2. 1 < q /\ IsLoad(answers[1])
      BY <1>1, <2>5, <3>1 DEF Loads
    <3>3. answers[1].op < answers[q].op
      BY <1>1, <2>1, <3>2
    <3>4. answers[q].op > n.lastLoad
      BY <1>1, <1>3, <2>1, <2>5, <3>3 DEF Loads
    <3> QED
      BY <2>2, <3>1, <3>4
  <2> QED
    BY <2>3, <2>4, <2>5
<1> QED
  BY <1>5, <1>6 DEF Blind

\* Other events change no generation.
LEMMA FoldAside ==
    ASSUME NEW m, ModelShaped(m), NEW e, e.kind \notin {"ProfilesLoaded", "ProfileSaved", "ProfileDeleted"},
           NEW n, n = Fold(m, e)
    PROVE  n.active = m.active /\ n.tombs = m.tombs
<1>1. CASE e.kind = "ProfilesFailed"
  <2>1. n = m \/ n = [m EXCEPT !.lastLoad = e.op]
    BY <1>1 DEF Fold, FoldLoadFailed
  <2> QED
    BY <2>1 DEF ModelShaped
<1>2. CASE e.kind = "ConfigUncertain"
  <2>1. PICK retags, conn : retags = [i \in Ids |-> NoRetag] /\ conn = [i \in Ids |-> Disconnected]
    OBVIOUS
  <2>2. n = m \/ n = [m EXCEPT !.lastLoad = e.op, !.uncertain = TRUE, !.retags = retags, !.conn = conn, !.executing = {}]
    BY <1>2, <2>1 DEF Fold, FoldUncertain
  <2> QED
    BY <2>2 DEF ModelShaped
<1>3. CASE e.kind = "CredentialsStored"
  <2>1. PICK profiles : profiles = [m.profiles EXCEPT ![e.id].secret = (@ \/ m.profiles[e.id] # NoProfile)]
    OBVIOUS
  <2>2. PICK conn : conn = [m.conn EXCEPT ![e.id] = IF @ = NeedsCredential THEN Disconnected ELSE @]
    OBVIOUS
  <2>3. n = m \/ n = [m EXCEPT !.profiles = profiles, !.conn = conn]
    <3>1. n = m \/ n = [m EXCEPT !.profiles[e.id].secret = (@ \/ m.profiles[e.id] # NoProfile),
                                 !.conn[e.id] = IF @ = NeedsCredential THEN Disconnected ELSE @]
      BY <1>3 DEF Fold, FoldStored
    <3> QED
      BY <3>1, <2>1, <2>2 DEF ModelShaped
  <2> QED
    BY <2>3 DEF ModelShaped
<1>4. CASE e.kind \in {"ConnectionReady", "ConnectionClosed"}
  <2>1. PICK state : n = FoldAnswer(m, e, state)
    BY <1>4 DEF Fold
  <2>2. n = m \/ n = [m EXCEPT !.conn[e.id] = state]
    BY <2>1 DEF FoldAnswer
  <2> QED
    BY <2>2 DEF ModelShaped
<1>5. CASE e.kind = "QueryFinished"
  <2>1. PICK executing, card : n = m \/ n = [m EXCEPT !.executing = executing, !.conn[e.id] = card]
    <3>1. n = FoldQueryFinished(m, e)
      BY <1>5 DEF Fold
    <3>2. PICK executing, card : /\ executing = m.executing \ {[id |-> e.id, gen |-> e.gen, op |-> e.op]}
                                 /\ card = Connected(e.session)
      OBVIOUS
    <3>3. n = m \/ n = [m EXCEPT !.executing = executing, !.conn[e.id] = card]
      BY <3>1, <3>2 DEF FoldQueryFinished
    <3> QED
      BY <3>3
  <2> QED
    BY <2>1 DEF ModelShaped
<1>6. CASE e.kind = "OperationFailed"
  <2>1. PICK executing : executing = IF e.of = "execute" THEN m.executing \ {[id |-> e.id, gen |-> e.gen, op |-> e.op]}
                                     ELSE m.executing
    OBVIOUS
  <2>2. PICK card : card = ConnAfterFailure(m.conn[e.id], e)
    OBVIOUS
  <2>3. n = m \/ n = [m EXCEPT !.executing = executing, !.conn[e.id] = card]
    <3>1. n = m \/ n = [m EXCEPT !.executing = IF e.of = "execute"
                            THEN @ \ {[id |-> e.id, gen |-> e.gen, op |-> e.op]} ELSE @,
                        !.conn[e.id] = ConnAfterFailure(@, e)]
      BY <1>6 DEF Fold, FoldFailed
    <3> QED
      BY <3>1, <2>1, <2>2 DEF ModelShaped
  <2> QED
    BY <2>3 DEF ModelShaped
<1>7. CASE e.kind = "CatalogPage"
  <2> DEFINE state == m.conn[e.id]
             protected == \/ state.is \in {"pending", "closing"}
                          \/ state.is = "connected" /\ state.n # e.session
             failures == Explored(m, e)
             card == IF e.session = 0 \/ e.disposition = "none" \/ protected THEN m.conn[e.id]
                     ELSE IF e.disposition = "keep" THEN Connected(e.session)
                     ELSE Disconnected
  <2>1. n = m \/ n = [m EXCEPT !.failures = failures, !.conn[e.id] = card]
    <3>1. n = m \/ n = [m EXCEPT !.failures = Explored(m, e),
                      !.conn[e.id] = IF e.session = 0 \/ e.disposition = "none" \/ protected THEN @
                               ELSE IF e.disposition = "keep" THEN Connected(e.session)
                               ELSE Disconnected]
      BY <1>7 DEF Fold, FoldCatalog
    <3> QED
      BY <3>1 DEF ModelShaped
  <2> HIDE DEF card, failures, protected
  <2> QED
    BY <2>1 DEF ModelShaped
<1>8. CASE e.kind = "RedisKeys"
  <2> DEFINE state == m.conn[e.id]
             failures == Explored(m, e)
             card == CASE e.session # 0 /\ e.disposition = "keep" -> Connected(e.session)
                       [] e.disposition = "evict" -> Disconnected
                       [] OTHER -> AfterFailure(e.outcome, state)
  <2>1. n = m \/ n = [m EXCEPT !.failures = failures, !.conn[e.id] = card]
    BY <1>8 DEF Fold, FoldRedis
  <2> HIDE DEF card, failures
  <2> QED
    BY <2>1 DEF ModelShaped
<1>9. CASE e.kind \notin {"ProfilesLoaded", "ProfilesFailed", "ProfileSaved", "ProfileDeleted", "ConfigUncertain",
                          "CredentialsStored", "ConnectionReady", "ConnectionClosed", "QueryFinished",
                          "OperationFailed", "CatalogPage", "RedisKeys"}
  BY <1>9 DEF Fold
<1> QED
  BY <1>1, <1>2, <1>3, <1>4, <1>5, <1>6, <1>7, <1>8, <1>9

LEMMA HearsLoaded ==
    ASSUME NEW m, ModelShaped(m), NEW e, EventSound(e), e.kind = "ProfilesLoaded", NEW n, n = FoldLoaded(m, e),
           NEW i \in Ids
    PROVE  /\ Acceptable(m, e, i) => n.active[i] = Told(e, i)
           /\ n.tombs[i] = m.tombs[i] \/ (Drops(e, i) /\ n.tombs[i] = m.active[i])
<1>1. CASE ~(e.op > m.lastLoad)
  BY <1>1 DEF FoldLoaded, Newer, Acceptable
<1>2. CASE e.op > m.lastLoad
  <2>1. PICK loaded : loaded = e.profiles
    OBVIOUS
  <2>2. PICK l : l = [m EXCEPT !.lastLoad = e.op]
    OBVIOUS
  <2>3. /\ l.active = m.active /\ l.tombs = m.tombs
        /\ l = [profiles |-> l.profiles, active |-> l.active, tombs |-> l.tombs, conn |-> l.conn,
                executing |-> l.executing, failures |-> l.failures, uncertain |-> l.uncertain,
                lastLoad |-> l.lastLoad, retags |-> l.retags, nextOp |-> l.nextOp]
    BY <2>2 DEF ModelShaped
  <2> DEFINE tombs == [j \in Ids |-> IF loaded[j].gen = NoGen /\ l.active[j] > l.tombs[j]
                                    THEN l.active[j] ELSE l.tombs[j]]
             kept == [j \in Ids |-> IF loaded[j].gen > tombs[j] THEN loaded[j] ELSE NoProfile]
             same(j) == /\ l.profiles[j] # NoProfile /\ kept[j] # NoProfile
                        /\ \/ /\ l.profiles[j].gen = kept[j].gen
                              /\ l.profiles[j].body = kept[j].body
                           \/ l.retags[j] = <<l.profiles[j].gen, kept[j].gen>>
             locked(j) == kept[j].body \in SessionBodies /\ ~kept[j].secret
             conn == [j \in Ids |-> IF locked(j) THEN NeedsCredential
                                    ELSE IF same(j) THEN l.conn[j] ELSE Disconnected]
             active == [j \in Ids |-> kept[j].gen]
             retags == [j \in Ids |-> NoRetag]
             executing == {x \in l.executing : x.gen = kept[x.id].gen}
             failures == {f \in l.failures : f.gen = kept[f.id].gen}
  <2>4. n = [l EXCEPT !.tombs = tombs, !.profiles = kept, !.active = active, !.conn = conn,
                      !.executing = executing, !.failures = failures, !.retags = retags, !.uncertain = FALSE]
    <3>1. n = FoldProfiles(l, loaded)
      BY <1>2, <2>1, <2>2 DEF FoldLoaded, Newer
    <3> QED
      BY <3>1 DEF FoldProfiles
  <2> HIDE DEF executing, failures, conn, same, locked, kept, tombs, active, retags
  <2>5. n.active = active /\ n.tombs = tombs
    BY <2>3, <2>4
  <2>6. tombs[i] = IF loaded[i].gen = NoGen /\ m.active[i] > m.tombs[i] THEN m.active[i] ELSE m.tombs[i]
    BY <2>3 DEF tombs
  <2>7. active[i] = kept[i].gen /\ kept[i] = IF loaded[i].gen > tombs[i] THEN loaded[i] ELSE NoProfile
    BY DEF active, kept
  <2>8. Told(e, i) = loaded[i].gen /\ loaded[i].gen \in Nat /\ m.tombs[i] \in Nat /\ m.active[i] \in Nat
    BY <2>1 DEF Told, EventSound, SnapshotsShaped, SnapshotShaped, ModelShaped
  <2>9. n.tombs[i] = m.tombs[i] \/ (Drops(e, i) /\ n.tombs[i] = m.active[i])
    BY <2>1, <2>5, <2>6 DEF Drops
  <2>10. ASSUME Acceptable(m, e, i) PROVE n.active[i] = Told(e, i)
    <3>1. CASE loaded[i].gen # NoGen
      <4>1. tombs[i] = m.tombs[i] /\ m.tombs[i] < loaded[i].gen
        BY <2>6, <2>8, <2>10, <3>1 DEF Acceptable
      <4>2. loaded[i].gen > tombs[i]
        BY <2>8, <4>1
      <4> QED
        BY <2>5, <2>7, <2>8, <4>2
    <3>2. CASE loaded[i].gen = NoGen
      <4>1. kept[i].gen = NoGen
        BY <2>7, <3>2 DEF NoProfile
      <4> QED
        BY <2>5, <2>7, <2>8, <3>2, <4>1
    <3> QED
      BY <3>1, <3>2
  <2> QED
    BY <2>9, <2>10
<1> QED
  BY <1>1, <1>2

LEMMA HearsSaved ==
    ASSUME NEW m, ModelShaped(m), NEW e, EventSound(e), e.kind = "ProfileSaved", NEW n, n = FoldSaved(m, e),
           NEW i \in Ids
    PROVE  /\ n.tombs[i] = m.tombs[i] /\ (e.id # i => n.active[i] = m.active[i])
           /\ e.id = i /\ Acceptable(m, e, i) => n.active[i] = e.gen
<1>1. PICK retags, conn : /\ retags = [m.retags EXCEPT ![e.id] = IF e.retained THEN <<e.prev, e.gen>> ELSE NoRetag]
                          /\ conn = [m.conn EXCEPT ![e.id] = IF e.retained THEN @ ELSE Disconnected]
  OBVIOUS
<1>2. PICK active : active = [m.active EXCEPT ![e.id] = e.gen]
  OBVIOUS
<1>3. PICK taken : taken = [m EXCEPT !.active = active, !.retags = retags, !.conn = conn]
  OBVIOUS
<1>4. n = IF /\ e.gen > m.tombs[e.id]
             /\ IF e.prev # NoGen THEN m.active[e.id] \in {e.prev, e.gen} ELSE m.active[e.id] <= e.gen
          THEN taken ELSE m
  <2>1. taken = [m EXCEPT !.active[e.id] = e.gen,
                   !.retags[e.id] = IF e.retained THEN <<e.prev, e.gen>> ELSE NoRetag,
                   !.conn[e.id] = IF e.retained THEN @ ELSE Disconnected]
    BY <1>1, <1>2, <1>3 DEF ModelShaped
  <2> QED
    BY <2>1 DEF FoldSaved
<1>5. taken.active = active /\ taken.tombs = m.tombs
  BY <1>3 DEF ModelShaped
<1>6. active[i] = IF e.id = i THEN e.gen ELSE m.active[i]
  BY <1>2 DEF ModelShaped
<1>7. ASSUME e.id = i, Acceptable(m, e, i) PROVE n = taken
  <2>1. m.tombs[i] \in Nat /\ e.gen \in Nat
    BY DEF ModelShaped, EventSound
  <2>2. e.gen > m.tombs[e.id]
    BY <1>7, <2>1 DEF Acceptable
  <2>3. IF e.prev # NoGen THEN m.active[e.id] \in {e.prev, e.gen} ELSE m.active[e.id] <= e.gen
    BY <1>7 DEF Acceptable
  <2> QED
    BY <1>4, <2>2, <2>3
<1>8. n \in {m, taken}
  BY <1>4
<1> QED
  BY <1>5, <1>6, <1>7, <1>8

LEMMA HearsDeleted ==
    ASSUME NEW m, ModelShaped(m), NEW e, EventSound(e), e.kind = "ProfileDeleted", NEW n, n = FoldDeleted(m, e),
           NEW i \in Ids
    PROVE  /\ n.tombs[i] = m.tombs[i] \/ (e.id = i /\ n.tombs[i] = e.gen)
           /\ e.id # i => n.active[i] = m.active[i]
           /\ e.id = i /\ Acceptable(m, e, i) => n.active[i] = NoGen
<1>1. PICK tombs, conn, failures :
          /\ tombs = [m.tombs EXCEPT ![e.id] = IF e.gen > @ THEN e.gen ELSE @]
          /\ conn = [m.conn EXCEPT ![e.id] = Disconnected] /\ failures = {f \in m.failures : f.id # e.id}
  OBVIOUS
<1>2. PICK active : active = [m.active EXCEPT ![e.id] = NoGen]
  OBVIOUS
<1>3. PICK profiles : profiles = [m.profiles EXCEPT ![e.id] = NoProfile]
  OBVIOUS
<1>4. PICK executing : executing = {x \in m.executing : x.id # e.id}
  OBVIOUS
<1>5. PICK taken : taken = [m EXCEPT !.tombs = tombs, !.active = active, !.profiles = profiles, !.conn = conn,
                                     !.executing = executing, !.failures = failures]
  OBVIOUS
<1>6. n = IF m.active[e.id] >= e.gen THEN m ELSE taken
  <2>1. taken = [m EXCEPT !.tombs[e.id] = IF e.gen > @ THEN e.gen ELSE @,
                   !.active[e.id] = NoGen,
                   !.profiles[e.id] = NoProfile,
                   !.conn[e.id] = Disconnected,
                   !.executing = {x \in @ : x.id # e.id},
                   !.failures = {f \in @ : f.id # e.id}]
    BY <1>1, <1>2, <1>3, <1>4, <1>5 DEF ModelShaped
  <2> QED
    BY <2>1 DEF FoldDeleted
<1>7. taken.active = active /\ taken.tombs = tombs
  BY <1>5 DEF ModelShaped
<1>8. active[i] = (IF e.id = i THEN NoGen ELSE m.active[i]) /\ (tombs[i] = m.tombs[i] \/ (e.id = i /\ tombs[i] = e.gen))
  BY <1>1, <1>2 DEF ModelShaped
<1>9. ASSUME e.id = i, Acceptable(m, e, i) PROVE n = taken
  <2>1. m.active[i] \in Nat /\ e.gen \in Nat /\ m.active[i] < e.gen
    BY <1>9 DEF ModelShaped, EventSound, Acceptable
  <2>2. ~(m.active[e.id] >= e.gen)
    BY <1>9, <2>1
  <2> QED
    BY <1>6, <2>2
<1>10. n \in {m, taken}
  BY <1>6
<1> QED
  BY <1>7, <1>8, <1>9, <1>10

LEMMA FoldHears ==
    ASSUME NEW m, NEW e, Takable(m, e), NEW n, n = Fold(m, e)
    PROVE  Hears(m, e, n)
<1>1. ModelShaped(m) /\ EventSound(e) /\ Foldable(m, e)
  BY DEF Takable, Foldable
<1>2. Stays(m, n, e) \/ Loads(m, n, e) \/ Doubts(m, n, e)
  BY FoldTurns DEF Turns
<1>3. ASSUME NEW i \in Ids PROVE HearsOf(m, e, n, i)
  <2>1. n.active[i] \in {m.active[i], NoGen, Told(e, i)}
    BY <1>1, FoldedEvent DEF Folded
  <2>2. CASE e.kind \notin {"ProfilesLoaded", "ProfileSaved", "ProfileDeleted"}
    <3>1. n.active = m.active /\ n.tombs = m.tombs
      BY <1>1, <2>2, FoldAside
    <3>2. ~Speaks(e, i)
      BY <2>2 DEF Speaks
    <3> QED
      BY <2>1, <3>1, <3>2 DEF HearsOf
  <2>3. CASE e.kind = "ProfilesLoaded"
    <3>1. n = FoldLoaded(m, e) /\ Speaks(e, i)
      BY <2>3 DEF Fold, Speaks
    <3>2. /\ Acceptable(m, e, i) => n.active[i] = Told(e, i)
          /\ n.tombs[i] = m.tombs[i] \/ (Drops(e, i) /\ n.tombs[i] = m.active[i])
      BY <1>1, <2>3, <3>1, HearsLoaded
    <3> QED
      BY <2>1, <3>1, <3>2 DEF HearsOf
  <2>4. CASE e.kind = "ProfileSaved"
    <3>1. n = FoldSaved(m, e) /\ (Speaks(e, i) <=> e.id = i) /\ (e.id = i => Told(e, i) = e.gen)
      BY <2>4 DEF Fold, Speaks, Told
    <3>2. /\ n.tombs[i] = m.tombs[i] /\ (e.id # i => n.active[i] = m.active[i])
          /\ e.id = i /\ Acceptable(m, e, i) => n.active[i] = e.gen
      BY <1>1, <2>4, <3>1, HearsSaved
    <3> QED
      BY <2>1, <3>1, <3>2 DEF HearsOf
  <2>5. CASE e.kind = "ProfileDeleted"
    <3>1. n = FoldDeleted(m, e) /\ (Speaks(e, i) <=> e.id = i) /\ Told(e, i) = NoGen /\ (e.id = i => Deletes(e, i))
      BY <2>5 DEF Fold, Speaks, Told, Deletes
    <3>2. /\ n.tombs[i] = m.tombs[i] \/ (e.id = i /\ n.tombs[i] = e.gen)
          /\ e.id # i => n.active[i] = m.active[i]
          /\ e.id = i /\ Acceptable(m, e, i) => n.active[i] = NoGen
      BY <1>1, <2>5, <3>1, HearsDeleted
    <3> QED
      BY <2>1, <3>1, <3>2 DEF HearsOf
  <2> QED
    BY <2>2, <2>3, <2>4, <2>5
<1> QED
  BY <1>2, <1>3 DEF Hears

-----------------------------------------------------------------------------
(* One event of poll_events, and generations                               *)

\* From w to v the event is folded, if it matters to generations.
Heard(w, e, v) == Shaped(v) /\ Hears(w.m, e, v.m) /\ Holds(w.p, v.p)

LEMMA HeardCalm ==
    ASSUME NEW w, NEW e, NEW u, Heard(w, e, u), NEW v, Calm(u, v)
    PROVE  Heard(w, e, v)
<1>1. Shaped(v) /\ v.m.active = u.m.active /\ v.m.tombs = u.m.tombs /\ v.m.lastLoad = u.m.lastLoad
      /\ v.m.uncertain = u.m.uncertain
  BY DEF Calm, Alike
<1>2. Hears(w.m, e, v.m)
  BY <1>1 DEF Heard, Hears, HearsOf, Stays, Loads, Doubts
<1>3. Holds(w.p, v.p)
  BY DEF Heard, Calm, Holds
<1> QED
  BY <1>1, <1>2, <1>3 DEF Heard

LEMMA HearsNothing ==
    ASSUME NEW m, NEW e, e.kind \notin {"ProfilesLoaded", "ProfileSaved", "ProfileDeleted", "ConfigUncertain"}
    PROVE  Hears(m, e, m)
BY DEF Hears, HearsOf, Stays, IsUncertain, Speaks

\* Only the application's own state changes besides.
LEMMA HeardBeside ==
    ASSUME NEW w, NEW e, NEW v, v = [m |-> v.m, a |-> v.a, p |-> v.p], ModelShaped(v.m), AppShaped(v.a), PortShaped(v.p),
           v.p = w.p, Hears(w.m, e, v.m)
    PROVE  Heard(w, e, v)
BY HoldsStill DEF Heard, Shaped

LEMMA HeardSaved ==
    ASSUME NEW w, NEW e, NEW v, Shaped(v), v.m = w.m, v.p = w.p, ModelShaped(Fold(v.m, e)), Hears(w.m, e, Fold(v.m, e))
    PROVE  Heard(w, e, HandleSaved(v, e))
<1>1. PICK f : f = [v EXCEPT !.m = Fold(@, e), !.a.editor = NoEditor]
  OBVIOUS
<1>2. PICK n : n = Fold(v.m, e)
  OBVIOUS
<1>3. f = [m |-> n, a |-> f.a, p |-> v.p] /\ AppShaped(f.a)
  BY <1>1, <1>2, EditorsOpened DEF Shaped, AppShaped
<1>4. Heard(w, e, f)
  BY <1>2, <1>3, HeardBeside DEF Shaped
<1>5. PICK s : s = SubmitRefresh(f)
  OBVIOUS
<1>6. Heard(w, e, s) /\ Shaped(s)
  BY <1>4, <1>5, CalmSubmitRefresh, HeardCalm DEF Heard
<1>7. PICK followUp : HandleSaved(v, e) = [s EXCEPT !.a.followUp = followUp]
  BY <1>1, <1>5 DEF HandleSaved, SubmitRefresh
<1>8. PICK h : h = [s EXCEPT !.a.followUp = followUp]
  OBVIOUS
<1>9. h = [m |-> h.m, a |-> h.a, p |-> h.p] /\ h.m = s.m /\ h.p = s.p /\ AppShaped(h.a)
  BY <1>6, <1>8 DEF Shaped, AppShaped
<1>10. Calm(s, h)
  BY <1>6, <1>9, CalmApp
<1> QED
  BY <1>6, <1>7, <1>8, <1>10, HeardCalm

LEMMA HeardFollow ==
    ASSUME NEW w, NEW e, NEW v, Shaped(v), v.m = w.m, v.p = w.p, ModelShaped(Fold(v.m, e)), Hears(w.m, e, Fold(v.m, e))
    PROVE  Heard(w, e, FoldAndFollow(v, e))
<1>1. PICK f : f = [v EXCEPT !.m = Fold(@, e)]
  OBVIOUS
<1>2. PICK n : n = Fold(v.m, e)
  OBVIOUS
<1>3. f = [m |-> n, a |-> v.a, p |-> v.p]
  BY <1>1, <1>2 DEF Shaped
<1>4. Heard(w, e, f) /\ Shaped(f)
  BY <1>2, <1>3, HeardBeside DEF Shaped
<1>5. PICK g : g = [f EXCEPT !.a.followUp = NoFollowUp]
  OBVIOUS
<1>6. g = [m |-> g.m, a |-> g.a, p |-> g.p] /\ g.m = f.m /\ g.p = f.p /\ AppShaped(g.a)
  BY <1>4, <1>5 DEF Shaped, AppShaped
<1>7. Heard(w, e, g) /\ Shaped(g)
  BY <1>4, <1>6, CalmApp, HeardCalm DEF Heard
<1>8. PICK h : h = SubmitTest(g, v.a.followUp.id)
  OBVIOUS
<1>9. Heard(w, e, h)
  BY <1>7, <1>8, CalmSubmitTest, HeardCalm
<1>10. FoldAndFollow(v, e) \in {f, g, h}
  BY <1>1, <1>5, <1>8 DEF FoldAndFollow
<1> QED
  BY <1>4, <1>7, <1>9, <1>10

LEMMA HandleHears ==
    ASSUME WindowInv, TrackInv, events # <<>>, NEW w, w = World, NEW e, e = Head(events)
    PROVE  Heard(w, e, Handle(w, e))
<1>0. PICK rest : rest = Tail(events)
  OBVIOUS
<1>1. FirstOf(events, e, rest) /\ Takable(w.m, e)
  BY <1>0, TakableNow DEF World
<1>2. Shaped(w) /\ AppTracks(w, events)
  BY WorldOf DEF TrackInv
<1>3. PICK prepared : prepared = FinishActive(HandleCredential(CaptureError(w, e), e), e)
  OBVIOUS
<1>4. Shaped(prepared) /\ prepared.m = w.m /\ prepared.p = w.p
  BY <1>1, <1>2, <1>3, PreparedTracks
<1>5. ModelShaped(Fold(w.m, e)) /\ Hears(w.m, e, Fold(w.m, e))
  <2>1. w.m = model
    BY DEF World
  <2> QED
    BY <1>1, <2>1, SoundFolds, FoldHears DEF WindowInv, Backstage
<1>6. RedisDisposition(w, e) \in {"ignore", "stale"} => e.kind = "RedisKeys"
  BY DEF RedisDisposition
<1>7. ASSUME e.kind = "RedisKeys" PROVE Heard(w, e, w)
  BY <1>2, <1>7, HearsNothing, HoldsStill DEF Heard
<1>8. PICK s : s = FinishActive(w, e)
  OBVIOUS
<1>9. PICK stale : stale = [s EXCEPT !.a.recipes = Without(@, e.op)]
  OBVIOUS
<1>10. ASSUME e.kind = "RedisKeys" PROVE Heard(w, e, stale)
  <2>1. Calm(w, s) /\ Shaped(s)
    BY <1>2, <1>8, CalmFinishActive DEF Calm
  <2>2. stale = [m |-> stale.m, a |-> stale.a, p |-> stale.p] /\ stale.m = s.m /\ stale.p = s.p /\ AppShaped(stale.a)
    BY <1>9, <2>1 DEF Shaped, AppShaped, Without
  <2>3. Calm(s, stale)
    BY <2>1, <2>2, CalmApp
  <2> QED
    BY <1>7, <1>10, <2>1, <2>3, HeardCalm
<1>11. Heard(w, e, HandleSaved(prepared, e))
  BY <1>4, <1>5, HeardSaved
<1>12. PICK unsaved : unsaved = [prepared EXCEPT !.a.editor.save = 0]
  OBVIOUS
<1>13. ASSUME e.kind \in {"ProfileCreateFailed", "ProfileUpdateFailed"} PROVE Heard(w, e, unsaved)
  <2>1. PICK editor : editor = [prepared.a.editor EXCEPT !.save = 0]
    OBVIOUS
  <2>2. EditorShaped(editor)
    <3>1. PICK x : x = prepared.a.editor
      OBVIOUS
    <3>2. EditorShaped(x) /\ editor = [x EXCEPT !.save = 0]
      BY <1>4, <2>1, <3>1 DEF Shaped, AppShaped
    <3> QED
      BY <3>2, EditorStays
  <2>3. unsaved = [prepared EXCEPT !.a.editor = editor]
    BY <1>4, <1>12, <2>1 DEF Shaped, AppShaped
  <2>4. unsaved = [m |-> prepared.m, a |-> unsaved.a, p |-> prepared.p] /\ AppShaped(unsaved.a)
    BY <1>4, <2>2, <2>3 DEF Shaped, AppShaped
  <2>5. Hears(w.m, e, prepared.m)
    BY <1>4, <1>13, HearsNothing
  <2> QED
    BY <1>4, <2>4, <2>5, HeardBeside DEF Shaped
<1>14. PICK warned : warned = IF e.kind = "ConfigUncertain" /\ w.a.editor # NoEditor
                              THEN [prepared EXCEPT !.a.editor.uncertain = TRUE] ELSE prepared
  OBVIOUS
<1>15. Shaped(warned) /\ warned.m = w.m /\ warned.p = w.p
  <2>1. PICK x : x = [prepared EXCEPT !.a.editor.uncertain = TRUE]
    OBVIOUS
  <2>2. x = [m |-> prepared.m, a |-> x.a, p |-> prepared.p] /\ AppShaped(x.a)
    <3>1. PICK editor : editor = [prepared.a.editor EXCEPT !.uncertain = TRUE]
      OBVIOUS
    <3>2. EditorShaped(editor)
      BY <1>4, <3>1, EditorStays DEF Shaped, AppShaped
    <3>3. x = [prepared EXCEPT !.a.editor = editor]
      BY <1>4, <2>1, <3>1 DEF Shaped, AppShaped
    <3> QED
      BY <1>4, <3>2, <3>3 DEF Shaped, AppShaped
  <2> QED
    BY <1>4, <1>14, <2>1, <2>2 DEF Shaped
<1>16. PICK followed : followed = FoldAndFollow(warned, e)
  OBVIOUS
<1>17. Heard(w, e, followed) /\ Shaped(followed)
  BY <1>5, <1>15, <1>16, HeardFollow DEF Heard
<1>18. PICK retried : retried = RetryRecipe(followed, w.a.prompt.recipe, w.a.prompt.source)
  OBVIOUS
<1>19. Heard(w, e, retried)
  BY <1>17, <1>18, CalmRetryRecipe, HeardCalm
<1>20. \/ RedisDisposition(w, e) = "ignore" /\ Handle(w, e) = w
       \/ RedisDisposition(w, e) = "stale" /\ Handle(w, e) = stale
       \/ EditorTakes(prepared, e, {"ProfileCreateFailed", "ProfileUpdateFailed"}) /\ Handle(w, e) = unsaved
       \/ Handle(w, e) \in {HandleSaved(prepared, e), retried, followed}
  <2>1. stale = Dropped(FinishActive(w, e), e)
    BY Zenon, <1>8, <1>9 DEF Dropped
  <2>2. unsaved = Unsaved(prepared)
    BY Zenon, <1>12 DEF Unsaved
  <2>3. warned = Marked(w, prepared, e)
    BY Zenon, <1>14 DEF Marked
  <2> QED
    BY SMT, <1>3, <1>16, <1>18, <2>1, <2>2, <2>3, HandleIs
<1>21. EditorTakes(prepared, e, {"ProfileCreateFailed", "ProfileUpdateFailed"}) =>
          e.kind \in {"ProfileCreateFailed", "ProfileUpdateFailed"}
  BY DEF EditorTakes
<1> QED
  BY <1>6, <1>7, <1>10, <1>11, <1>13, <1>17, <1>19, <1>20, <1>21

-----------------------------------------------------------------------------
(* The window's own steps, and generations                                 *)

LEMMA GensAreNat ==
    ASSUME WindowInv, NEW i \in Ids
    PROVE  GensNat(model, events, i) /\ service.gens[i] \in Nat /\ Len(service.bodies) \in Nat
<1>1. \A k \in 1..Len(events) : EventSound(events[k])
  BY DEF WindowInv, Answering
<1>2. ASSUME NEW k \in 1..Len(events)
      PROVE  Told(events[k], i) \in Nat /\ (Deletes(events[k], i) => events[k].gen \in Nat)
  BY <1>1, ToldNat DEF EventSound, Deletes
<1>3. model.active[i] \in Nat /\ model.tombs[i] \in Nat
  BY DEF WindowInv, ModelShaped
<1> QED
  BY <1>2, <1>3 DEF GensNat, WindowInv, Backstage, ServiceShaped, Queue

LEMMA ReloadingStill ==
    ASSUME NEW p, NEW q, Holds(p, q), Reloading(p)
    PROVE  Reloading(q)
BY DEF Holds, Reloading

LEMMA ConsistentLater ==
    ASSUME WindowInv, TrackInv, NEW w, w = World, Consistent(w, events), NEW e, NEW rest, FirstOf(events, e, rest),
           NEW v, Heard(w, e, v)
    PROVE  Consistent(v, rest)
<1>1. w.m = model /\ w.p = port
  BY DEF World
<1>2. \A i \in Ids : /\ GensNat(w.m, events, i) /\ service.gens[i] \in Nat /\ Len(service.bodies) \in Nat
                     /\ HearsOf(w.m, e, v.m, i) /\ Behind(w.m, events, i)
                     /\ Buried(w.m, events, i, Len(service.bodies), service.gens[i])
  BY <1>1, GensAreNat DEF Heard, Hears, WindowInv, ModelSound, Consistent
<1>3. Stays(w.m, v.m, e) \/ Loads(w.m, v.m, e) \/ Doubts(w.m, v.m, e)
  BY DEF Heard, Hears
<1>4. OpsNat(events) /\ w.m.lastLoad \in Nat
  BY DEF TrackInv, ModelTracks, OperationsNumbered, OpsNat
<1>5. ASSUME NEW i \in Ids PROVE Buried(v.m, rest, i, Len(service.bodies), service.gens[i])
  <2>1. w.m.active[i] <= Len(service.bodies)
    BY <1>2 DEF Behind
  <2> QED
    BY <1>2, <2>1, BuriedLater
<1>6. DeletionNewest(v.m, rest)
  <2>1. SUFFICES ASSUME Publishing, ~service.uncertain, job.kind = "delete", job.id \in Ids
                 PROVE  /\ service.gens[job.id] = NoGen /\ mutation.gen <= Len(service.bodies)
                        /\ Outdates(v.m, rest, job.id, mutation.gen, Len(rest) + 1)
    BY DEF DeletionNewest
  <2>2. /\ service.gens[job.id] = NoGen /\ mutation.gen <= Len(service.bodies)
        /\ Outdates(w.m, events, job.id, mutation.gen, Len(events) + 1)
    BY <2>1 DEF Consistent, DeletionNewest
  <2>3. PICK k : k = Len(rest) + 1
    OBVIOUS
  <2>4. k \in Nat \ {0} /\ Len(events) = k
    BY <2>3 DEF FirstOf
  <2>5. mutation.gen \in Nat
    BY DEF WindowInv, Backstage, MutationSound
  <2>6. Outdates(w.m, events, job.id, mutation.gen, k + 1)
    BY <2>2, <2>4
  <2>7. Outdates(v.m, rest, job.id, mutation.gen, k)
    BY <1>2, <2>1, <2>4, <2>5, <2>6, OutdatesLater
  <2> QED
    BY <2>2, <2>3, <2>7
<1>7. AnswersKnown(rest)
  BY KnownLater DEF Consistent
<1>8. Agreeing(v, rest)
  <2>1. CASE Reloading(w.p)
    BY <2>1, ReloadingStill DEF Heard, Agreeing
  <2>2. CASE Blind(w.m, events)
    BY <1>3, <1>4, <2>2, BlindLater DEF Agreeing
  <2>3. CASE LoadTaken(w.m, events) /\ \A i \in Ids : Agreed(w.m, events, i, Published(i))
    <3>1. LoadTaken(v.m, rest)
      BY <1>3, <2>3, LoadTakenLater DEF Consistent
    <3>2. ASSUME NEW i \in Ids PROVE Agreed(v.m, rest, i, Published(i))
      <4>1. Told(e, i) # NoGen => w.m.active[i] <= Told(e, i)
        BY <1>2, FirstOrLater DEF Behind
      <4>2. AnswersKnown(events) /\ LoadTaken(w.m, events) /\ Agreed(w.m, events, i, Published(i))
        BY <2>3 DEF Consistent
      <4> QED
        BY <1>2, <4>1, <4>2, AgreedLater
    <3> QED
      BY <3>1, <3>2 DEF Agreeing
  <2> QED
    BY <2>1, <2>2, <2>3 DEF Consistent, Agreeing
<1> QED
  BY <1>5, <1>6, <1>7, <1>8 DEF Consistent

\* Nothing changes behind the window.
LEMMA ConsistentStill ==
    ASSUME NEW v, NEW answers, Consistent(v, answers), UNCHANGED <<mutation, service, edited>>
    PROVE  Consistent(v, answers)'
<1>1. \A i \in Ids : Buried(v.m, answers, i, Len(service'.bodies), service'.gens[i])
  BY DEF Consistent
<1>2. DeletionNewest(v.m, answers)'
  BY DEF Consistent, DeletionNewest, Publishing, job
<1>3. Reloading(v.p)' <=> Reloading(v.p)
  BY DEF Reloading, job
<1>4. \A i \in Ids : Published(i)' = Published(i)
  BY DEF Published, Publishing, job
<1>5. Agreeing(v, answers)'
  BY <1>3, <1>4 DEF Consistent, Agreeing
<1> QED
  BY <1>1, <1>2, <1>5 DEF Consistent

LEMMA AgreeBecomes ==
    ASSUME NEW v, NEW answers, Shaped(v), Become(v), answers = events', Consistent(v, answers), FileKnown,
           UNCHANGED <<mutation, service, disk, edited>>
    PROVE  AgreeInv'
<1>1. Consistent(v, answers)'
  BY ConsistentStill
<1>2. World' = v
  BY DEF World, Become, Shaped
<1>3. FileKnown'
  BY DEF FileKnown, job
<1> QED
  BY <1>1, <1>2, <1>3 DEF AgreeInv

LEMMA ConsistentCalm ==
    ASSUME NEW w, NEW v, NEW answers, Consistent(w, answers), Calm(w, v)
    PROVE  Consistent(v, answers)
<1>1. /\ v.m.active = w.m.active /\ v.m.tombs = w.m.tombs /\ v.m.lastLoad = w.m.lastLoad
      /\ v.m.uncertain = w.m.uncertain /\ Holds(w.p, v.p)
  BY DEF Calm, Alike
<1>2. \A i, g, n : Outdates(v.m, answers, i, g, n) <=> Outdates(w.m, answers, i, g, n)
  BY <1>1 DEF Outdates
<1>3. \A i, g, n : Outlives(v.m, answers, i, g, n) <=> Outlives(w.m, answers, i, g, n)
  BY <1>1, <1>2 DEF Outlives
<1>4. \A i, top, g : Buried(v.m, answers, i, top, g) <=> Buried(w.m, answers, i, top, g)
  BY <1>1, <1>2, <1>3 DEF Buried
<1>5. DeletionNewest(v.m, answers)
  BY <1>2 DEF Consistent, DeletionNewest
<1>6. \A i, n, g : Leads(v.m, answers, i, n, g) <=> Leads(w.m, answers, i, n, g)
  BY <1>1 DEF Leads
<1>7. \A i, g : Agreed(v.m, answers, i, g) <=> Agreed(w.m, answers, i, g)
  BY <1>6 DEF Agreed
<1>8. (LoadTaken(v.m, answers) <=> LoadTaken(w.m, answers)) /\ (Blind(v.m, answers) <=> Blind(w.m, answers))
  BY <1>1 DEF LoadTaken, Blind
<1>9. Agreeing(v, answers)
  BY <1>1, <1>7, <1>8, ReloadingStill DEF Consistent, Agreeing
<1> QED
  BY <1>4, <1>5, <1>9 DEF Consistent

LEMMA PollAgrees ==
    ASSUME WindowInv, TrackInv, AgreeInv, Poll
    PROVE  AgreeInv'
<1>1. events # <<>> /\ Queue(events)
  BY DEF Poll, WindowInv, Answering
<1>2. PICK w : w = World
  OBVIOUS
<1>3. PICK e : e = Head(events)
  OBVIOUS
<1>4. PICK rest : rest = Tail(events)
  OBVIOUS
<1>5. PICK v : v = Handle(w, e)
  OBVIOUS
<1>6. FirstOf(events, e, rest)
  BY <1>1, <1>3, <1>4, FirstAnswer
<1>7. Heard(w, e, v)
  BY <1>1, <1>2, <1>3, <1>5, HandleHears
<1>8. Consistent(v, rest)
  BY <1>2, <1>6, <1>7, ConsistentLater DEF AgreeInv
<1>9. Become(v) /\ rest = events' /\ UNCHANGED <<mutation, service, disk, edited>>
  BY <1>2, <1>3, <1>4, <1>5 DEF Poll, outside
<1> QED
  BY <1>7, <1>8, <1>9, AgreeBecomes DEF AgreeInv, Heard

LEMMA CalmAgrees ==
    ASSUME WindowInv, AgreeInv, CalmStep
    PROVE  AgreeInv'
<1>1. PICK v : Become(v) /\ Calm(World, v)
  BY DEF CalmStep
<1>2. PICK answers : answers = events
  OBVIOUS
<1>3. Consistent(v, answers)
  BY <1>1, <1>2, ConsistentCalm DEF AgreeInv
<1>4. answers = events' /\ UNCHANGED <<mutation, service, disk, edited>>
  BY <1>2 DEF CalmStep, behind, outside
<1> QED
  BY <1>1, <1>3, <1>4, AgreeBecomes DEF AgreeInv, Calm

-----------------------------------------------------------------------------
(* An answer is added to the queue                                         *)

Appended(answers, e, more) ==
    /\ Len(answers) \in Nat /\ Len(more) = Len(answers) + 1 /\ more[Len(answers) + 1] = e
    /\ \A k \in 1..Len(answers) : more[k] = answers[k]

\* It tells of no generation.
Aside(e) == e.kind \notin {"ProfilesLoaded", "ProfilesFailed", "ProfileSaved", "ProfileDeleted"}

LEMMA AppendedNow ==
    ASSUME NEW answers, Queue(answers), NEW e
    PROVE  Appended(answers, e, Append(answers, e))
<1>1. Len(answers) \in Nat
  BY DEF Queue
<1> QED
  BY <1>1, QueueGrows DEF Appended

LEMMA AppendedOrBefore ==
    ASSUME NEW answers, NEW e, NEW more, Appended(answers, e, more)
    PROVE  /\ Len(answers) \in Nat /\ \A k \in 1..Len(answers) : k \in 1..Len(more) /\ more[k] = answers[k]
           /\ Len(answers) + 1 \in 1..Len(more) /\ more[Len(answers) + 1] = e /\ Len(more) = Len(answers) + 1
           /\ \A k \in 1..Len(more) : k = Len(answers) + 1 \/ k \in 1..Len(answers)
BY DEF Appended

LEMMA OutdatesMore ==
    ASSUME NEW answers, NEW e, NEW more, Appended(answers, e, more), NEW m, NEW i, NEW g, NEW n \in 1..(Len(answers) + 1),
           Outdates(m, answers, i, g, n)
    PROVE  Outdates(m, more, i, g, n)
<1>1. ASSUME NEW j \in 1..Len(more), j < n PROVE j \in 1..Len(answers) /\ more[j] = answers[j]
  BY <1>1, AppendedOrBefore
<1> QED
  BY <1>1 DEF Outdates

LEMMA OutlivesMore ==
    ASSUME NEW answers, NEW e, NEW more, Appended(answers, e, more), NEW m, NEW i, NEW g, NEW n \in 1..(Len(answers) + 1),
           Outlives(m, answers, i, g, n)
    PROVE  Outlives(m, more, i, g, n)
<1>1. SUFFICES ASSUME NEW j \in 1..Len(more), j < n
               PROVE  /\ Deletes(more[j], i) => more[j].gen < g
                      /\ Drops(more[j], i) => Outdates(m, more, i, g, j)
  BY DEF Outlives
<1>2. j \in 1..Len(answers) /\ more[j] = answers[j] /\ j \in 1..(Len(answers) + 1)
  BY <1>1, AppendedOrBefore
<1>3. Drops(answers[j], i) => Outdates(m, answers, i, g, j)
  BY <1>1, <1>2 DEF Outlives
<1>4. Deletes(answers[j], i) => answers[j].gen < g
  BY <1>1, <1>2 DEF Outlives
<1>5. Drops(answers[j], i) => Outdates(m, more, i, g, j)
  BY <1>2, <1>3, OutdatesMore
<1> QED
  BY <1>2, <1>4, <1>5

\* The answer fits what the window is told before, and what the service holds.
Fitting(m, answers, i, top, g, e) ==
    /\ Deletes(e, i) => e.gen <= top /\ Outdates(m, answers, i, e.gen, Len(answers) + 1)
    /\ Told(e, i) # NoGen => Outlives(m, answers, i, Told(e, i), Len(answers) + 1)
    /\ g # NoGen => ~Deletes(e, i) /\ ~Drops(e, i)

LEMMA BuriedMore ==
    ASSUME NEW answers, NEW e, NEW more, Appended(answers, e, more), NEW m, NEW i, NEW top, NEW g,
           Buried(m, answers, i, top, g), Fitting(m, answers, i, top, g, e)
    PROVE  Buried(m, more, i, top, g)
<1>0. PICK l : l = Len(answers) + 1
  OBVIOUS
<1>1. Len(answers) \in Nat /\ l \in 1..(Len(answers) + 1) /\ Len(more) = l /\ more[l] = e
  BY <1>0, AppendedOrBefore
<1>2. ASSUME NEW k \in 1..Len(more)
      PROVE  /\ Deletes(more[k], i) => more[k].gen <= top /\ Outdates(m, more, i, more[k].gen, k)
             /\ Told(more[k], i) # NoGen => Outlives(m, more, i, Told(more[k], i), k)
  <2>1. CASE k \in 1..Len(answers)
    <3>1. more[k] = answers[k] /\ k \in 1..(Len(answers) + 1)
      BY <1>1, <2>1, AppendedOrBefore
    <3>2. Deletes(answers[k], i) => answers[k].gen <= top /\ Outdates(m, answers, i, answers[k].gen, k)
      BY <2>1 DEF Buried
    <3>3. Told(answers[k], i) # NoGen => Outlives(m, answers, i, Told(answers[k], i), k)
      BY <2>1 DEF Buried
    <3> QED
      BY <3>1, <3>2, <3>3, OutdatesMore, OutlivesMore
  <2>2. CASE k = l
    <3>1. Deletes(e, i) => e.gen <= top /\ Outdates(m, answers, i, e.gen, l)
      BY <1>0 DEF Fitting
    <3>2. Told(e, i) # NoGen => Outlives(m, answers, i, Told(e, i), l)
      BY <1>0 DEF Fitting
    <3> QED
      BY <1>1, <2>2, <3>1, <3>2, OutdatesMore, OutlivesMore
  <2> QED
    BY <1>0, <1>2, <2>1, <2>2, AppendedOrBefore
<1>3. ASSUME g # NoGen PROVE Outlives(m, more, i, g, Len(more) + 1)
  <2>1. Outlives(m, answers, i, g, l)
    BY <1>0, <1>3 DEF Buried
  <2>2. Outlives(m, more, i, g, l)
    BY <1>1, <2>1, OutlivesMore
  <2>3. ~Deletes(more[l], i) /\ ~Drops(more[l], i)
    BY <1>1, <1>3 DEF Fitting
  <2>4. \A j \in 1..Len(more) : j < l \/ j = l
    BY <1>1
  <2> QED
    BY <2>2, <2>3, <2>4 DEF Outlives
<1> QED
  BY <1>2, <1>3 DEF Buried

LEMMA LeadsMore ==
    ASSUME NEW answers, NEW e, NEW more, Appended(answers, e, more), NEW m, NEW i, NEW g, NEW n \in 1..(Len(answers) + 1),
           Leads(m, answers, i, n, g)
    PROVE  Leads(m, more, i, n, g)
<1>1. \A j \in 1..Len(more) : j < n => j \in 1..Len(answers) /\ more[j] = answers[j]
  BY AppendedOrBefore
<1>2. CASE m.active[i] = g /\ \A j \in 1..Len(answers) : j < n => ~Speaks(answers[j], i)
  BY <1>1, <1>2 DEF Leads
<1>3. ASSUME NEW j \in 1..Len(answers), j < n, Speaks(answers[j], i), Told(answers[j], i) = g,
             \A h \in 1..Len(answers) : j < h /\ h < n => ~Speaks(answers[h], i)
      PROVE  Leads(m, more, i, n, g)
  <2>1. j \in 1..Len(more) /\ more[j] = answers[j]
    BY AppendedOrBefore
  <2>2. \A h \in 1..Len(more) : j < h /\ h < n => ~Speaks(more[h], i)
    BY <1>1, <1>3
  <2> QED
    BY <1>3, <2>1, <2>2 DEF Leads
<1> QED
  BY <1>2, <1>3 DEF Leads

\* After the answer, g is active if the answer says so, or says nothing and it was.
LEMMA LeadsOn ==
    ASSUME NEW answers, NEW e, NEW more, Appended(answers, e, more), NEW m, NEW i, NEW g,
           IF Speaks(e, i) THEN Told(e, i) = g ELSE Leads(m, answers, i, Len(answers) + 1, g)
    PROVE  Leads(m, more, i, Len(more) + 1, g)
<1>0. PICK l : l = Len(answers) + 1
  OBVIOUS
<1>1. l \in 1..(Len(answers) + 1) /\ l \in 1..Len(more) /\ Len(more) = l /\ more[l] = e /\ l \in Nat
  BY <1>0, AppendedOrBefore
<1>2. CASE Speaks(e, i)
  <2>1. \A h \in 1..Len(more) : ~(l < h /\ h < l + 1)
    BY <1>1
  <2> QED
    BY <1>1, <1>2, <2>1 DEF Leads
<1>3. CASE ~Speaks(e, i)
  <2>1. Leads(m, answers, i, l, g)
    BY <1>0, <1>3
  <2>2. Leads(m, more, i, l, g)
    BY <1>1, <2>1, LeadsMore
  <2>3. \A h \in 1..Len(more) : h < l \/ (h = l /\ ~Speaks(more[h], i))
    BY <1>1, <1>3
  <2>4. \A h \in 1..Len(more) : h < l => h < l + 1
    BY <1>1
  <2>5. Leads(m, more, i, l + 1, g)
    BY <2>2, <2>3, <2>4 DEF Leads
  <2> QED
    BY <1>1, <2>5
<1> QED
  BY <1>2, <1>3

\* The answer is not a load: it is of the generation that was to be known before it.
LEMMA AgreedMore ==
    ASSUME NEW answers, NEW e, NEW more, Appended(answers, e, more), ~IsLoad(e), NEW m, NEW i, NEW g, NEW h,
           Agreed(m, answers, i, g), IF Speaks(e, i) THEN Told(e, i) = h ELSE g = h,
           e.kind = "ProfileSaved" /\ e.id = i /\ e.prev # NoGen => e.prev = g
    PROVE  Agreed(m, more, i, h)
<1>0. PICK l : l = Len(answers) + 1
  OBVIOUS
<1>1. l \in 1..(Len(answers) + 1) /\ l \in 1..Len(more) /\ Len(more) = l /\ more[l] = e /\ l \in Nat
  BY <1>0, AppendedOrBefore
<1>2. Leads(m, answers, i, l, g)
  BY <1>0 DEF Agreed
<1>3. Leads(m, more, i, Len(more) + 1, h)
  BY <1>0, <1>2, LeadsOn
<1>4. ASSUME NEW k \in 1..Len(more), more[k].kind = "ProfileSaved", more[k].id = i, more[k].prev # NoGen,
             NoLoadAfter(more, k)
      PROVE  Leads(m, more, i, k, more[k].prev)
  <2>1. CASE k = l
    <3>1. more[k].prev = g
      BY <1>1, <1>4, <2>1
    <3> QED
      BY <1>1, <1>2, <2>1, <3>1, LeadsMore
  <2>2. CASE k \in 1..Len(answers)
    <3>1. more[k] = answers[k] /\ k \in 1..(Len(answers) + 1)
      BY <1>1, <2>2, AppendedOrBefore
    <3>2. NoLoadAfter(answers, k)
      BY <1>4, AppendedOrBefore DEF NoLoadAfter
    <3>3. Leads(m, answers, i, k, answers[k].prev)
      BY <1>4, <2>2, <3>1, <3>2 DEF Agreed
    <3> QED
      BY <3>1, <3>3, LeadsMore
  <2> QED
    BY <1>0, <1>4, <2>1, <2>2, AppendedOrBefore
<1> QED
  BY <1>3, <1>4 DEF Agreed

\* A load is agreed with what it brings.
LEMMA AgreedLoad ==
    ASSUME NEW answers, NEW e, NEW more, Appended(answers, e, more), e.kind = "ProfilesLoaded", NEW m, NEW i
    PROVE  Agreed(m, more, i, Told(e, i))
<1>0. PICK l : l = Len(answers) + 1
  OBVIOUS
<1>1. l \in 1..Len(more) /\ Len(more) = l /\ more[l] = e /\ l \in Nat
  BY <1>0, AppendedOrBefore
<1>2. Speaks(e, i) /\ IsLoad(e)
  BY DEF Speaks, IsLoad
<1>3. Leads(m, more, i, Len(more) + 1, Told(e, i))
  BY <1>2, LeadsOn
<1>4. ASSUME NEW k \in 1..Len(more), more[k].kind = "ProfileSaved", NoLoadAfter(more, k) PROVE FALSE
  <2>1. k = l \/ k < l
    BY <1>1
  <2>2. k # l
    BY <1>1, <1>4
  <2> QED
    BY <1>1, <1>2, <1>4, <2>1, <2>2 DEF NoLoadAfter
<1> QED
  BY <1>3, <1>4 DEF Agreed

LEMMA KnownMore ==
    ASSUME NEW answers, NEW e, NEW more, Appended(answers, e, more), AnswersKnown(answers), e.kind # "ProfilesFailed",
           e.kind = "ProfileSaved" /\ e.id \in Ids => e.gen # NoGen,
           IsLoad(e) => \A j \in 1..Len(answers) : IsLoad(answers[j]) => answers[j].op < e.op
    PROVE  AnswersKnown(more)
<1>0. PICK l : l = Len(answers) + 1
  OBVIOUS
<1>1. l \in 1..Len(more) /\ Len(more) = l /\ more[l] = e /\ l \in Nat
  BY <1>0, AppendedOrBefore
<1>2. SUFFICES ASSUME NEW k \in 1..Len(more)
               PROVE  /\ more[k].kind # "ProfilesFailed"
                      /\ more[k].kind = "ProfileSaved" /\ more[k].id \in Ids => more[k].gen # NoGen
                      /\ IsLoad(more[k]) => \A j \in 1..Len(more) : IsLoad(more[j]) /\ j < k => more[j].op < more[k].op
  BY DEF AnswersKnown
<1>3. \A j \in 1..Len(more) : j < k => j \in 1..Len(answers) /\ more[j] = answers[j]
  BY <1>0, <1>1, AppendedOrBefore
<1>4. CASE k = l
  BY <1>1, <1>3, <1>4
<1>5. CASE k \in 1..Len(answers)
  BY <1>3, <1>5, AppendedOrBefore DEF AnswersKnown
<1> QED
  BY <1>0, <1>4, <1>5, AppendedOrBefore

LEMMA LoadTakenMore ==
    ASSUME NEW answers, NEW e, NEW more, Appended(answers, e, more), NEW m,
           IF IsLoad(e) THEN /\ e.op > m.lastLoad
                             /\ \A j \in 1..Len(answers) : IsUncertain(answers[j]) => answers[j].op < e.op
           ELSE LoadTaken(m, answers)
    PROVE  LoadTaken(m, more)
<1>0. PICK l : l = Len(answers) + 1
  OBVIOUS
<1>1. l \in 1..Len(more) /\ Len(more) = l /\ more[l] = e /\ l \in Nat
  BY <1>0, AppendedOrBefore
<1>2. SUFFICES ASSUME NEW k \in 1..Len(more), IsLoad(more[k]), NoLoadAfter(more, k)
               PROVE  /\ more[k].op > m.lastLoad
                      /\ \A j \in 1..Len(more) : j < k /\ IsUncertain(more[j]) => more[j].op < more[k].op
  BY DEF LoadTaken
<1>3. \A j \in 1..Len(more) : j < k => j \in 1..Len(answers) /\ more[j] = answers[j]
  BY <1>0, <1>1, AppendedOrBefore
<1>4. CASE k = l
  BY <1>1, <1>2, <1>3, <1>4
<1>5. CASE k \in 1..Len(answers)
  <2>1. ~IsLoad(e)
    BY <1>0, <1>1, <1>2, <1>5 DEF NoLoadAfter
  <2>2. NoLoadAfter(answers, k) /\ more[k] = answers[k]
    BY <1>2, <1>5, AppendedOrBefore DEF NoLoadAfter
  <2> QED
    BY <1>2, <1>3, <1>5, <2>1, <2>2 DEF LoadTaken
<1> QED
  BY <1>0, <1>4, <1>5, AppendedOrBefore

LEMMA BlindMore ==
    ASSUME NEW answers, NEW e, NEW more, Appended(answers, e, more), ~IsLoad(e), NEW m, Blind(m, answers)
    PROVE  Blind(m, more)
<1>1. \A k \in 1..Len(more) : IsLoad(more[k]) => k \in 1..Len(answers) /\ more[k] = answers[k]
  BY AppendedOrBefore
<1>2. CASE m.uncertain /\ \A k \in 1..Len(answers) : IsLoad(answers[k]) => answers[k].op <= m.lastLoad
  BY <1>1, <1>2 DEF Blind
<1>3. ASSUME NEW q \in 1..Len(answers), Doubted(answers, q, m.lastLoad) PROVE Blind(m, more)
  <2>1. q \in 1..Len(more) /\ more[q] = answers[q]
    BY AppendedOrBefore
  <2>2. Doubted(more, q, m.lastLoad)
    BY <1>1, <1>3, <2>1 DEF Doubted
  <2> QED
    BY <2>1, <2>2 DEF Blind
<1> QED
  BY <1>2, <1>3 DEF Blind

-----------------------------------------------------------------------------
(* Steps behind the port that make no generation and tell of none          *)

LEMMA OutdatesOn ==
    ASSUME NEW answers, NEW e, NEW more, Appended(answers, e, more), NEW m, NEW i, NEW g,
           Outdates(m, answers, i, g, Len(answers) + 1), Told(e, i) < g
    PROVE  Outdates(m, more, i, g, Len(more) + 1)
<1>1. ASSUME NEW j \in 1..Len(more) PROVE Told(more[j], i) < g
  <2>1. CASE j = Len(answers) + 1
    BY <2>1, AppendedOrBefore
  <2>2. CASE j \in 1..Len(answers)
    <3>1. j < Len(answers) + 1 /\ more[j] = answers[j]
      BY <2>2, AppendedOrBefore
    <3> QED
      BY <2>2, <3>1 DEF Outdates
  <2> QED
    BY <2>1, <2>2, AppendedOrBefore
<1> QED
  BY <1>1 DEF Outdates

LEMMA ConsistentAside ==
    ASSUME WindowInv, NEW w, w.m = model, NEW answers, Consistent(w, answers), NEW e, Aside(e),
           NEW more, Appended(answers, e, more)
    PROVE  Consistent(w, more)
<1>1. ~IsLoad(e) /\ e.kind \notin {"ProfilesFailed", "ProfileSaved"}
      /\ \A i \in Ids : ~Speaks(e, i) /\ ~Deletes(e, i) /\ ~Drops(e, i) /\ Told(e, i) = NoGen
  BY DEF Aside, IsLoad, Speaks, Deletes, Drops, Told
<1>2. ASSUME NEW i \in Ids PROVE Buried(w.m, more, i, Len(service.bodies), service.gens[i])
  <2>1. Fitting(w.m, answers, i, Len(service.bodies), service.gens[i], e)
    BY <1>1 DEF Fitting
  <2> QED
    BY <2>1, BuriedMore DEF Consistent
<1>3. DeletionNewest(w.m, more)
  <2>1. SUFFICES ASSUME Publishing, ~service.uncertain, job.kind = "delete", job.id \in Ids
                 PROVE  /\ service.gens[job.id] = NoGen /\ mutation.gen <= Len(service.bodies)
                        /\ Outdates(w.m, more, job.id, mutation.gen, Len(more) + 1)
    BY DEF DeletionNewest
  <2>2. /\ service.gens[job.id] = NoGen /\ mutation.gen <= Len(service.bodies)
        /\ Outdates(w.m, answers, job.id, mutation.gen, Len(answers) + 1)
    BY <2>1 DEF Consistent, DeletionNewest
  <2>3. w.m.active[job.id] \in Nat /\ mutation.gen \in Nat /\ w.m.active[job.id] < mutation.gen
    BY <2>1, <2>2 DEF WindowInv, ModelShaped, Backstage, MutationSound, Outdates
  <2>4. Told(e, job.id) < mutation.gen
    BY <1>1, <2>1, <2>3 DEF NoGen
  <2> QED
    BY <2>2, <2>4, OutdatesOn
<1>4. AnswersKnown(more)
  BY <1>1, KnownMore DEF Consistent
<1>5. Agreeing(w, more)
  <2>1. CASE Blind(w.m, answers)
    BY <1>1, <2>1, BlindMore DEF Agreeing
  <2>2. CASE LoadTaken(w.m, answers) /\ \A i \in Ids : Agreed(w.m, answers, i, Published(i))
    <3>1. LoadTaken(w.m, more)
      BY <1>1, <2>2, LoadTakenMore
    <3>2. ASSUME NEW i \in Ids PROVE Agreed(w.m, more, i, Published(i))
      BY <1>1, <2>2, AgreedMore
    <3> QED
      BY <3>1, <3>2 DEF Agreeing
  <2> QED
    BY <2>1, <2>2 DEF Consistent, Agreeing
<1> QED
  BY <1>2, <1>3, <1>4, <1>5 DEF Consistent

\* The service holds what it held, and the mutation that is made stays.
StageStill ==
    /\ service'.bodies = service.bodies /\ service'.gens = service.gens /\ service'.profiles = service.profiles
    /\ service'.uncertain = service.uncertain
    /\ mutation'.pc \in {"published", "join"} <=> mutation.pc \in {"published", "join"}
    /\ mutation.pc \in {"published", "join"} => mutation'.command = mutation.command /\ mutation'.gen = mutation.gen

LEMMA ConsistentStage ==
    ASSUME NEW w, NEW v, v.m = w.m, NEW answers, Consistent(w, answers), StageStill, edited => edited',
           Reloading(w.p) => Reloading(v.p)'
    PROVE  Consistent(v, answers)'
<1>1. \A i \in Ids : Buried(v.m, answers, i, Len(service'.bodies), service'.gens[i])
  BY DEF Consistent, StageStill
<1>2. DeletionNewest(v.m, answers)'
  BY DEF Consistent, DeletionNewest, Publishing, job, StageStill
<1>3. \A i \in Ids : Published(i)' = Published(i)
  BY DEF Published, Publishing, job, StageStill
<1>4. Agreeing(v, answers)'
  BY <1>3 DEF Consistent, Agreeing, StageStill
<1> QED
  BY <1>1, <1>2, <1>4 DEF Consistent

LEMMA AsideAgrees ==
    ASSUME WindowInv, AgreeInv, UNCHANGED window, StageStill, Reloading(port) => Reloading(port)', UNCHANGED <<disk, edited>>,
           mutation'.pc = "run" /\ service.uncertain => mutation'.command.kind = "refresh",
           Silent \/ \E e : Aside(e) /\ events' = Append(events, e)
    PROVE  AgreeInv'
<1>1. PICK w : w = World
  OBVIOUS
<1>2. PICK v : v = World'
  OBVIOUS
<1>3. w.m = model /\ v.m = w.m /\ w.p = port /\ v.p = port' /\ Consistent(w, events)
  BY <1>1, <1>2 DEF World, window, AgreeInv
<1>4. PICK more : more = events'
  OBVIOUS
<1>5. Consistent(w, more)
  <2>1. CASE Silent
    BY <1>3, <1>4, <2>1 DEF Silent
  <2>2. ASSUME NEW e, Aside(e), events' = Append(events, e) PROVE Consistent(w, more)
    <3>1. Appended(events, e, more)
      BY <1>4, <2>2, AppendedNow DEF WindowInv, Answering
    <3> QED
      BY <1>3, <2>2, <3>1, ConsistentAside
  <2> QED
    BY <2>1, <2>2
<1>6. Reloading(w.p) => Reloading(v.p)'
  BY <1>3 DEF Reloading, job
<1>7. Consistent(v, more)'
  BY <1>3, <1>5, <1>6, ConsistentStage
<1>8. FileKnown'
  BY DEF AgreeInv, FileKnown, StageStill, job
<1> QED
  BY <1>2, <1>4, <1>7, <1>8 DEF AgreeInv

\* The mutation and its lane stay.
LEMMA WorkAgrees ==
    ASSUME WindowInv, AgreeInv, UNCHANGED <<window, mutation, disk, edited>>, port'.mutation = port.mutation,
           service'.bodies = service.bodies, service'.gens = service.gens, service'.profiles = service.profiles,
           service'.uncertain = service.uncertain, Silent \/ \E e : Aside(e) /\ events' = Append(events, e)
    PROVE  AgreeInv'
<1>1. StageStill
  BY DEF StageStill
<1>2. Reloading(port) => Reloading(port)'
  BY DEF Reloading, job
<1>3. mutation'.pc = "run" /\ service.uncertain => mutation'.command.kind = "refresh"
  BY DEF AgreeInv, FileKnown, job
<1> QED
  BY <1>1, <1>2, <1>3, AsideAgrees

LEMMA AsideAnswers ==
    ASSUME NEW c, NEW op, NEW ok \in BOOLEAN, NEW session, NEW disposition, NEW outcome
    PROVE  Aside(Uncertain(op)) /\ Aside(Failure(c, outcome)) /\ Aside(Answer(c, ok, session, disposition, outcome))
<1>1. Aside(Uncertain(op)) /\ Aside(Failure(c, outcome))
  BY DEF Aside, Uncertain, Failure
<1>2. PICK e : e = Answer(c, ok, session, disposition, outcome)
  OBVIOUS
<1>3. e = Failure(c, outcome) \/ e.kind \in {"RedisKeys", "CatalogPage", "QueryFinished", "ConnectionReady"}
  BY <1>2 DEF Answer
<1> QED
  BY <1>1, <1>2, <1>3 DEF Aside

LEMMA PollControlAgrees ==
    ASSUME WindowInv, AgreeInv, PollControl
    PROVE  AgreeInv'
<1>0. PortShaped(port)
  BY DEF WindowInv
<1>1. PICK c : c = Head(port.control)
  OBVIOUS
<1>2. PICK p : p = Popped("control")
  OBVIOUS
<1>3. PortShaped(p) /\ p.mutation = port.mutation
  BY <1>0, <1>2, PortPops, PoppedLanes DEF Popped
<1>4. UNCHANGED <<window, mutation, service, disk, edited>>
  BY DEF PollControl, outside
<1>5. ASSUME NEW q, PortShaped(q), q.mutation = port.mutation, NEW e, Aside(e), Emit(q, e) PROVE AgreeInv'
  <2>1. port'.mutation = port.mutation /\ events' = Append(events, e)
    BY <1>5, EmittedLanes
  <2> QED
    BY <1>4, <1>5, <2>1, WorkAgrees
<1>6. CASE Cancel(c)
  <2>1. PICK keys : keys = IF {t \in tasks : t.op = c.op} = {} /\ mutation.command.op # c.op THEN p.keys \ {ControlKey(c)} ELSE p.keys
    OBVIOUS
  <2>2. port' = [p EXCEPT !.keys = keys] /\ events' = events
    BY <1>2, <1>3, <1>6, <2>1 DEF Cancel, PortShaped
  <2>3. port'.mutation = port.mutation
    BY <1>3, <2>2 DEF PortShaped
  <2> QED
    BY <1>4, <2>2, <2>3, WorkAgrees DEF Silent
<1>7. CASE Emit([Popped("control") EXCEPT !.keys = @ \ {ControlKey(c)}], Uncertain(c.op))
  <2>1. PICK keys : keys = p.keys \ {ControlKey(c)}
    OBVIOUS
  <2>2. PICK q : q = [p EXCEPT !.keys = keys]
    OBVIOUS
  <2>3. Emit(q, Uncertain(c.op)) /\ PortShaped(q) /\ q.mutation = port.mutation
    BY <1>2, <1>3, <1>7, <2>1, <2>2, PortReleases DEF PortShaped
  <2> QED
    BY <1>5, <2>3, AsideAnswers
<1>8. CASE StartControl(c)
  <2>1. \/ Emit(p, Failure(c, "preserve"))
        \/ port' = p /\ events' = events
    BY <1>2, <1>8 DEF StartControl
  <2> QED
    BY <1>3, <1>4, <1>5, <2>1, AsideAnswers, WorkAgrees DEF Silent
<1> QED
  BY <1>1, <1>6, <1>7, <1>8 DEF PollControl

LEMMA PollWorkAgrees ==
    ASSUME WindowInv, AgreeInv, PollWork
    PROVE  AgreeInv'
<1>0. PortShaped(port)
  BY DEF WindowInv
<1>1. PICK p : p = Popped("work")
  OBVIOUS
<1>2. PortShaped(p) /\ p.mutation = port.mutation
  BY <1>0, <1>1, PortPops, PoppedLanes DEF Popped
<1>3. UNCHANGED <<window, mutation, service, disk, edited>>
  BY DEF PollWork, outside
<1>4. \/ \E e : Aside(e) /\ Emit(p, e)
      \/ port' = p /\ events' = events
  BY <1>1, AsideAnswers DEF PollWork
<1>5. port'.mutation = port.mutation /\ (Silent \/ \E e : Aside(e) /\ events' = Append(events, e))
  BY <1>2, <1>4, EmittedLanes DEF Silent
<1> QED
  BY <1>3, <1>5, WorkAgrees

\* A network operation changes sessions only, and answers or not.
LEMMA TaskAgrees ==
    ASSUME WindowInv, AgreeInv, NEW t \in tasks,
           Disconnect(t) \/ Reconnect(t) \/ Acquire(t) \/ AcquireFails(t) \/ OperateEnds(t) \/ OperateEvicts(t)
    PROVE  AgreeInv'
<1>1. PortShaped(port) /\ ServiceShaped(service)
  BY DEF WindowInv, Backstage
<1>2. UNCHANGED <<window, mutation, disk, edited>>
  BY DEF Disconnect, Reconnect, Acquire, AcquireFails, OperateEnds, OperateEvicts, taskFrame, outside
<1>3. \/ UNCHANGED service
      \/ \E sessions, opened : service' = [service EXCEPT !.sessions = sessions, !.opened = opened]
  <2>1. ASSUME NEW sessions, service' = [service EXCEPT !.sessions = sessions]
        PROVE  \E s, o : service' = [service EXCEPT !.sessions = s, !.opened = o]
    <3>1. service' = [service EXCEPT !.sessions = sessions, !.opened = service.opened]
      BY <1>1, <2>1 DEF ServiceShaped
    <3> QED
      BY <3>1
  <2>2. CASE Disconnect(t) \/ Reconnect(t) \/ OperateEvicts(t)
    <3>1. PICK sessions : sessions = Evicted(service.sessions, {<<t.id, [n |-> t.session, gen |-> t.gen]>>})
      OBVIOUS
    <3>2. UNCHANGED service \/ service' = [service EXCEPT !.sessions = sessions]
      BY <1>1, <2>2, <3>1 DEF Disconnect, Reconnect, OperateEvicts, ServiceShaped
    <3> QED
      BY <2>1, <3>2
  <2>3. CASE OperateEnds(t)
    <3>1. PICK sessions : sessions = Evicted(service.sessions, {<<t.id, [n |-> t.session, gen |-> t.gen]>>})
      OBVIOUS
    <3>2. PICK ok \in BOOLEAN : service' = [service EXCEPT !.sessions =
                IF ok \/ t.kind \in {"execute", "browse"} THEN @
                ELSE Evicted(@, {<<t.id, [n |-> t.session, gen |-> t.gen]>>})]
      BY <2>3 DEF OperateEnds
    <3>3. UNCHANGED service \/ service' = [service EXCEPT !.sessions = sessions]
      BY <1>1, <3>1, <3>2 DEF ServiceShaped
    <3> QED
      BY <2>1, <3>3
  <2>4. CASE Acquire(t)
    <3>1. PICK n : n = IF service.sessions[t.id].gen = t.gen THEN service.sessions[t.id].n ELSE Len(service.opened) + 1
      OBVIOUS
    <3>2. PICK sessions, opened : /\ sessions = [service.sessions EXCEPT ![t.id] = [n |-> n, gen |-> t.gen]]
                                  /\ opened = Append(service.opened, service.profiles[t.id])
      OBVIOUS
    <3>3. PICK x : x = [service EXCEPT !.sessions[t.id] = [n |-> n, gen |-> t.gen],
                                       !.opened = Append(@, service.profiles[t.id])]
      OBVIOUS
    <3>4. x = [service EXCEPT !.sessions = sessions, !.opened = opened]
      BY <1>1, <3>2, <3>3 DEF ServiceShaped
    <3>5. service' = service \/ service' = x
      BY <2>4, <3>1, <3>3 DEF Acquire
    <3> QED
      BY <3>4, <3>5
  <2>5. CASE AcquireFails(t)
    BY <2>5 DEF AcquireFails
  <2> QED
    BY <2>2, <2>3, <2>4, <2>5
<1>4. /\ service'.bodies = service.bodies /\ service'.gens = service.gens /\ service'.profiles = service.profiles
      /\ service'.uncertain = service.uncertain
  BY <1>1, <1>3 DEF ServiceShaped
<1>5. (port' = port /\ Silent) \/ \E e : Aside(e) /\ Emit(port, e)
  <2>1. CASE Disconnect(t)
    <3>1. \A post : Aside([kind |-> "ConnectionClosed", op |-> t.op, id |-> t.id, gen |-> t.gen, post |-> post])
      BY DEF Aside
    <3> QED
      BY <2>1, <3>1, AsideAnswers DEF Disconnect, Finish
  <2>2. CASE Reconnect(t) \/ Acquire(t)
    BY <2>2, AsideAnswers DEF Reconnect, Acquire, Finish, Silent
  <2>3. CASE AcquireFails(t) \/ OperateEnds(t) \/ OperateEvicts(t)
    BY <2>3, AsideAnswers DEF AcquireFails, OperateEnds, OperateEvicts, Finish
  <2> QED
    BY <2>1, <2>2, <2>3
<1>6. port'.mutation = port.mutation /\ (Silent \/ \E e : Aside(e) /\ events' = Append(events, e))
  BY <1>1, <1>5, EmittedLanes
<1> QED
  BY <1>2, <1>4, <1>6, WorkAgrees

LEMMA PollMutationAgrees ==
    ASSUME WindowInv, AgreeInv, PollMutation
    PROVE  AgreeInv'
<1>0. PortShaped(port) /\ Queue(port.mutation) /\ port.mutation # <<>> /\ mutation.pc = "none"
  BY DEF WindowInv, PortShaped, PollMutation, NoMutation
<1>1. PICK c : c = Head(port.mutation)
  OBVIOUS
<1>2. PICK p : p = Popped("mutation")
  OBVIOUS
<1>3. PortShaped(p) /\ p.mutation = Tail(port.mutation)
  BY <1>0, <1>2, PortPops, PoppedLanes DEF Popped
<1>4. UNCHANGED <<window, service, disk, edited>>
  BY DEF PollMutation, outside
<1>5. Behead(port.mutation, p.mutation, c)
  BY <1>0, <1>1, <1>3, BeheadTail
<1>6. ASSUME Reloading(port) PROVE c.kind = "refresh" \/ \E j \in 1..Len(p.mutation) : p.mutation[j].kind = "refresh"
  <2>1. PICK k \in 1..Len(port.mutation) : port.mutation[k].kind = "refresh"
    BY <1>0, <1>6 DEF Reloading
  <2> QED
    BY <1>5, <2>1 DEF Behead
<1>7. CASE c.kind # "refresh" /\ Emit(p, Uncertain(c.op)) /\ UNCHANGED mutation
  <2>1. port'.mutation = p.mutation /\ events' = Append(events, Uncertain(c.op)) /\ Aside(Uncertain(c.op))
    BY <1>3, <1>7, EmittedLanes, AsideAnswers
  <2>2. Reloading(port) => Reloading(port)'
    BY <1>6, <1>7, <2>1 DEF Reloading
  <2>3. StageStill
    BY <1>4, <1>7 DEF StageStill
  <2> QED
    BY <1>0, <1>4, <1>7, <2>1, <2>2, <2>3, AsideAgrees
<1>8. CASE /\ ~service.uncertain \/ c.kind = "refresh"
           /\ mutation' = [NoMutation EXCEPT !.pc = "run", !.command = c] /\ port' = p /\ UNCHANGED events
  <2>1. mutation'.pc = "run" /\ mutation'.command = c
    BY <1>8, NoMutationShaped DEF MutationShaped
  <2>2. Reloading(port) => Reloading(port)'
    BY <1>6, <1>8, <2>1 DEF Reloading, job
  <2>3. StageStill
    BY <1>0, <1>4, <2>1 DEF StageStill
  <2> QED
    BY <1>4, <1>8, <2>1, <2>2, <2>3, AsideAgrees DEF Silent
<1> QED
  BY <1>1, <1>2, <1>7, <1>8 DEF PollMutation

\* A mutation that has not begun is answered.
LEMMA DroppedAgrees ==
    ASSUME WindowInv, AgreeInv, UNCHANGED <<window, disk, edited>>, mutation.pc = "run", job.kind # "refresh",
           mutation' = NoMutation, service'.bodies = service.bodies, service'.gens = service.gens,
           service'.profiles = service.profiles, service'.uncertain = service.uncertain, NEW e, Emit(port, e), Aside(e)
    PROVE  AgreeInv'
<1>1. port'.mutation = port.mutation /\ events' = Append(events, e)
  BY EmittedLanes DEF WindowInv
<1>2. mutation'.pc = "none"
  BY DEF NoMutation
<1>3. Reloading(port) => Reloading(port)'
  BY <1>1 DEF Reloading
<1>4. StageStill
  BY <1>2 DEF StageStill
<1> QED
  BY <1>1, <1>2, <1>3, <1>4, AsideAgrees

LEMMA StoreSecretAgrees ==
    ASSUME WindowInv, AgreeInv, StoreSecret
    PROVE  AgreeInv'
<1>1. ServiceShaped(service)
  BY DEF WindowInv, Backstage
<1>2. /\ service'.bodies = service.bodies /\ service'.gens = service.gens /\ service'.profiles = service.profiles
      /\ service'.uncertain = service.uncertain
  BY <1>1 DEF StoreSecret, ServiceShaped
<1>3. PICK e : Emit(port, e) /\ e.kind \in {"CredentialsStored", "CredentialsStoreFailed"}
  BY DEF StoreSecret
<1>4. Aside(e)
  BY <1>3 DEF Aside
<1>5. UNCHANGED <<window, disk, edited>> /\ mutation.pc = "run" /\ job.kind # "refresh" /\ mutation' = NoMutation
  BY DEF StoreSecret, mutationFrame, outside
<1> QED
  BY <1>2, <1>3, <1>4, <1>5, DroppedAgrees

LEMMA RefuseAgrees ==
    ASSUME WindowInv, AgreeInv, Refuse
    PROVE  AgreeInv'
<1>1. PICK e : Emit(port, e) /\ Aside(e)
  <2>1. CASE job.kind = "delete"
    BY <2>1, AsideAnswers DEF Refuse
  <2>2. CASE job.kind = "create"
    <3>1. Aside([kind |-> "ProfileCreateFailed", op |-> job.op])
      BY DEF Aside
    <3> QED
      BY <2>2, <3>1 DEF Refuse
  <2>3. CASE job.kind = "update"
    <3>1. Aside([kind |-> "ProfileUpdateFailed", op |-> job.op])
      BY DEF Aside
    <3> QED
      BY <2>3, <3>1 DEF Refuse
  <2> QED
    BY <2>1, <2>2, <2>3 DEF Refuse
<1>2. UNCHANGED <<window, service, disk, edited>> /\ mutation.pc = "run" /\ job.kind # "refresh" /\ mutation' = NoMutation
  BY DEF Refuse, mutationFrame, outside
<1> QED
  BY <1>1, <1>2, DroppedAgrees

LEMMA CompleteAgrees ==
    ASSUME WindowInv, AgreeInv, Complete
    PROVE  AgreeInv'
<1>1. UNCHANGED <<window, port, events, service, disk, edited>> /\ mutation.pc = "published"
  BY DEF Complete, mutationFrame, outside
<1>2. PICK waits, active : mutation' = [mutation EXCEPT !.pc = "join", !.waits = waits, !.active = active]
  BY DEF Complete
<1>3. mutation'.pc = "join" /\ mutation'.command = mutation.command /\ mutation'.gen = mutation.gen
  BY <1>2 DEF WindowInv, Backstage, MutationShaped
<1>4. StageStill
  BY <1>1, <1>3 DEF StageStill
<1>5. Reloading(port) => Reloading(port)'
  BY <1>1, <1>3 DEF Reloading, job
<1> QED
  BY <1>1, <1>3, <1>4, <1>5, AsideAgrees DEF Silent

LEMMA EditDiskAgrees ==
    ASSUME WindowInv, AgreeInv, EditDisk
    PROVE  AgreeInv'
<1>1. UNCHANGED <<window, port, events, mutation, service>> /\ edited'
  BY DEF EditDisk
<1>2. PICK v : v = World
  OBVIOUS
<1>3. PICK answers : answers = events
  OBVIOUS
<1>4. StageStill
  BY <1>1 DEF StageStill
<1>5. Consistent(v, answers)'
  <2>1. Reloading(v.p) => Reloading(v.p)'
    BY <1>1 DEF Reloading, job
  <2> QED
    BY <1>1, <1>2, <1>3, <1>4, <2>1, ConsistentStage DEF AgreeInv
<1>6. World' = v /\ events' = answers
  BY <1>1, <1>2, <1>3 DEF World, window
<1>7. FileKnown'
  BY <1>1 DEF AgreeInv, FileKnown, job
<1> QED
  BY <1>5, <1>6, <1>7 DEF AgreeInv

LEMMA AgreeStutters ==
    ASSUME WindowInv, AgreeInv, UNCHANGED vars
    PROVE  AgreeInv'
<1>1. UNCHANGED <<window, port, events, mutation, service, disk, edited>>
  BY DEF vars
<1> QED
  BY <1>1, WorkAgrees DEF Silent

-----------------------------------------------------------------------------
(* A mutation is made: its generations are newer than all the window has   *)
(* heard and will hear of.                                                 *)

LEMMA OutdatesNew ==
    ASSUME WindowInv, NEW i \in Ids, NEW g \in Nat, g > Len(service.bodies), NEW n
    PROVE  Outdates(model, events, i, g, n)
<1>1. Len(service.bodies) \in Nat /\ GensNat(model, events, i)
  BY GensAreNat
<1>2. model.active[i] < g
  BY <1>1 DEF WindowInv, ModelSound, Behind, GensNat
<1>3. ASSUME NEW j \in 1..Len(events) PROVE Told(events[j], i) < g
  <2>1. Told(events[j], i) # NoGen => Told(events[j], i) <= Len(service.bodies)
    BY DEF WindowInv, Answering, AnswersInOrder
  <2> QED
    BY <1>1, <2>1 DEF GensNat, NoGen
<1> QED
  BY <1>2, <1>3 DEF Outdates

LEMMA BuriedGrows ==
    ASSUME WindowInv, AgreeInv, ServiceGrows, GensGrow, NEW i \in Ids
    PROVE  Buried(model, events, i, Len(service'.bodies), service'.gens[i])
<1>1. /\ Len(service.bodies) \in Nat /\ Len(service'.bodies) \in Nat /\ Len(service.bodies) <= Len(service'.bodies)
      /\ GensNat(model, events, i)
  BY GensAreNat DEF ServiceGrows
<1>2. Buried(model, events, i, Len(service.bodies), service.gens[i])
  BY DEF AgreeInv, Consistent, World
<1>3. model.tombs[i] <= Len(service'.bodies)
  BY <1>1, <1>2 DEF Buried, GensNat
<1>4. ASSUME NEW k \in 1..Len(events), Deletes(events[k], i)
      PROVE  events[k].gen <= Len(service'.bodies) /\ Outdates(model, events, i, events[k].gen, k)
  BY <1>1, <1>2, <1>4 DEF Buried, GensNat
<1>5. ASSUME service'.gens[i] # NoGen PROVE Outlives(model, events, i, service'.gens[i], Len(events) + 1)
  <2>1. CASE service'.gens[i] = service.gens[i]
    BY <1>2, <1>5, <2>1 DEF Buried
  <2>2. CASE service'.gens[i] \in Nat /\ service'.gens[i] > Len(service.bodies)
    <3>1. PICK g : g = service'.gens[i]
      OBVIOUS
    <3>2. g \in Nat /\ g > Len(service.bodies)
      BY <2>2, <3>1
    <3>3. model.tombs[i] < g
      BY <1>1, <1>2, <3>2 DEF Buried, GensNat
    <3>4. ASSUME NEW j \in 1..Len(events)
          PROVE  /\ Deletes(events[j], i) => events[j].gen < g
                 /\ Drops(events[j], i) => Outdates(model, events, i, g, j)
      <4>1. Deletes(events[j], i) => events[j].gen <= Len(service.bodies) /\ events[j].gen \in Nat
        BY <1>1, <1>2 DEF Buried, GensNat
      <4> QED
        BY <1>1, <3>2, <4>1, OutdatesNew
    <3> QED
      BY <3>1, <3>3, <3>4 DEF Outlives
  <2> QED
    BY <1>5, <2>1, <2>2 DEF GensGrow
<1> QED
  BY <1>2, <1>3, <1>4, <1>5 DEF Buried

LEMMA MadeAgrees ==
    ASSUME WindowInv, AgreeInv, UNCHANGED <<window, port, events>>, ServiceGrows, GensGrow,
           DeletionNewest(model, events)', Agreeing(World, events)', FileKnown'
    PROVE  AgreeInv'
<1>1. \A i \in Ids : Buried(model, events, i, Len(service'.bodies), service'.gens[i])
  BY BuriedGrows
<1>2. World'.m = model' /\ model' = model /\ events' = events
  BY DEF World, window
<1>3. AnswersKnown(events)'
  BY <1>2 DEF AgreeInv, Consistent, AnswersKnown, IsLoad
<1> QED
  BY <1>1, <1>2, <1>3 DEF AgreeInv, Consistent

LEMMA UncertainAgrees ==
    ASSUME WindowInv, AgreeInv, UNCHANGED <<window, port, events>>, mutation.pc = "run", EnterUncertain
    PROVE  AgreeInv'
<1>1. ServiceShaped(service) /\ MutationShaped(mutation)
  BY DEF WindowInv, Backstage
<1>2. PICK live : live = {i \in Ids : service.gens[i] # NoGen}
  OBVIOUS
<1>3. PICK gens : gens = [i \in Ids |-> IF i \in live THEN Fresh(live, i) ELSE NoGen]
  OBVIOUS
<1>4. PICK bodies : bodies = Numbered(live, service.profiles)
  OBVIOUS
<1>5. service' = [service EXCEPT !.gens = gens, !.bodies = bodies, !.uncertain = TRUE]
  BY <1>2, <1>3, <1>4 DEF EnterUncertain
<1>6. service'.gens = gens /\ service'.bodies = bodies /\ service'.uncertain = TRUE /\ service'.opened = service.opened
  BY <1>1, <1>5 DEF ServiceShaped
<1>7. NumbersOn(bodies, live, service.profiles)
  BY <1>1, <1>2, <1>4, NumberedOn
<1>8. ServiceGrows
  BY <1>1, <1>6, <1>7 DEF ServiceGrows, NumbersOn, ServiceShaped, Queue
<1>9. GensGrow
  BY <1>3, <1>6, <1>7 DEF GensGrow, NumbersOn
<1>10. mutation'.pc = "published"
  BY <1>1 DEF EnterUncertain, MutationShaped
<1>11. DeletionNewest(model, events)' /\ Agreeing(World, events)' /\ FileKnown'
  BY <1>6, <1>10 DEF DeletionNewest, Agreeing, FileKnown
<1> QED
  BY <1>8, <1>9, <1>11, MadeAgrees

\* What a configuration is published with
Publication(id, loaded, fresh) ==
    /\ mutation'.pc = "published" /\ mutation'.gen = Fresh(fresh, id)
    /\ job'.kind = job.kind /\ job'.id = id /\ job'.gen = job.gen
    /\ service'.profiles = loaded /\ service'.uncertain = FALSE
    /\ service'.gens = [i \in Ids |-> IF i \in Renewed(id, loaded) THEN Fresh(fresh, i)
                                      ELSE IF loaded[i] = NoBody THEN NoGen ELSE service.gens[i]]
    /\ NumbersOn(service'.bodies, fresh, loaded)

LEMMA PublishMade ==
    ASSUME WindowInv, NEW id, NEW loaded, Publish(id, loaded), NEW fresh, fresh = Renewed(id, loaded) \cup Removed(id, loaded)
    PROVE  Publication(id, loaded, fresh) /\ ServiceGrows /\ GensGrow
<1>1. ServiceShaped(service) /\ MutationShaped(mutation) /\ CommandShaped(mutation.command)
  BY DEF WindowInv, Backstage, MutationShaped
<1> DEFINE gens == [i \in Ids |-> IF i \in Renewed(id, loaded) THEN Fresh(fresh, i)
                                  ELSE IF loaded[i] = NoBody THEN NoGen ELSE service.gens[i]]
           shown == [i \in Ids |-> IF loaded[i] = NoBody THEN NoProfile
                                   ELSE [gen |-> gens[i], body |-> loaded[i], secret |-> i \in service.secrets]]
           targets == {Target(i) : i \in Outdated(id, loaded)}
           retag == /\ job.kind = "update"
                    /\ Endpoint[service.profiles[id]] = Endpoint[loaded[id]]
                    /\ loaded[id] \in SessionBodies => job.secret = "Keep"
<1>2. service' = [service EXCEPT !.profiles = loaded, !.gens = gens, !.bodies = Numbered(fresh, loaded), !.uncertain = FALSE]
  BY DEF Publish
<1>3. mutation' = [mutation EXCEPT !.pc = "published", !.command.id = id, !.gen = Fresh(fresh, id),
                                   !.profiles = shown, !.targets = targets, !.retag = retag]
  BY DEF Publish
<1>4. \A i \in Ids : gens[i] \in {NoGen, service.gens[i], Fresh(fresh, i)}
  OBVIOUS
<1> HIDE DEF gens, shown, targets, retag
<1>5. /\ mutation'.pc = "published" /\ mutation'.command = [mutation.command EXCEPT !.id = id]
      /\ mutation'.gen = Fresh(fresh, id)
  BY <1>1, <1>3 DEF MutationShaped
<1>6. job'.kind = job.kind /\ job'.id = id /\ job'.gen = job.gen
  BY <1>1, <1>5 DEF CommandShaped, job
<1>7. /\ service'.bodies = Numbered(fresh, loaded) /\ service'.gens = gens /\ service'.uncertain = FALSE
      /\ service'.profiles = loaded /\ service'.opened = service.opened
  BY <1>1, <1>2 DEF ServiceShaped
<1>8. fresh \subseteq Ids
  BY DEF Renewed, Removed
<1>9. NumbersOn(service'.bodies, fresh, loaded)
  BY <1>1, <1>7, <1>8, NumberedOn
<1>10. Len(service.opened) \in Nat
  BY <1>1 DEF ServiceShaped, Queue
<1>11. ServiceGrows
  <2>1. /\ Len(service.bodies) \in Nat /\ Len(service'.bodies) \in Nat /\ Len(service.bodies) <= Len(service'.bodies)
        /\ \A g \in 1..Len(service.bodies) : service'.bodies[g] = service.bodies[g]
    BY <1>9 DEF NumbersOn
  <2>2. service'.opened = service.opened
    BY <1>7
  <2>3. Len(service.opened) <= Len(service'.opened) /\ Len(service'.opened) \in Nat
    BY <1>10, <2>2
  <2> QED
    BY <1>10, <2>1, <2>2, <2>3 DEF ServiceGrows
<1>12. GensGrow
  BY ZenonT(60), <1>4, <1>7, <1>9 DEF GensGrow, NumbersOn
<1>13. Publication(id, loaded, fresh)
  BY <1>5, <1>6, <1>7, <1>9 DEF Publication, gens
<1> QED
  BY <1>11, <1>12, <1>13

LEMMA ReloadAgrees ==
    ASSUME WindowInv, AgreeInv, Reload
    PROVE  AgreeInv'
<1>1. mutation.pc = "run" /\ job.kind = "refresh" /\ UNCHANGED <<window, port, events, disk, edited>>
  BY DEF Reload, mutationFrame, outside
<1>2. PICK id, loaded : id = NoId /\ loaded = disk
  OBVIOUS
<1>3. CASE Publish(NoId, disk)
  <2>1. PICK fresh : fresh = Renewed(id, loaded) \cup Removed(id, loaded)
    OBVIOUS
  <2>2. Publication(id, loaded, fresh) /\ ServiceGrows /\ GensGrow
    BY <1>2, <1>3, <2>1, PublishMade
  <2>3. mutation'.pc = "published" /\ job'.kind = "refresh" /\ service'.profiles = disk'
    BY <1>1, <1>2, <2>2 DEF Publication
  <2>4. DeletionNewest(model, events)' /\ Agreeing(World, events)' /\ FileKnown'
    BY <2>3 DEF DeletionNewest, Agreeing, Reloading, FileKnown
  <2> QED
    BY <1>1, <2>2, <2>4, MadeAgrees
<1>4. CASE EnterUncertain
  BY <1>1, <1>4, UncertainAgrees
<1> QED
  BY <1>3, <1>4 DEF Reload

\* The profile that is written was of the generation the command names, or is new.
LEMMA WrittenFrom ==
    ASSUME WindowInv, mutation.pc = "run", job.kind \in {"create", "update", "delete"}, NEW id \in Ids, WriteAllowed(id)
    PROVE  service.gens[id] = job.gen /\ (job.kind = "delete" => service.profiles[id] # NoBody)
<1>1. service.profiles[id] = NoBody <=> service.gens[id] = NoGen
  BY DEF WindowInv, Backstage, GenerationsNamed
<1>2. CASE job.kind = "create"
  BY <1>1, <1>2 DEF WriteAllowed, WindowInv, Backstage, MutationShaped, CommandShaped, job
<1>3. CASE job.kind # "create"
  BY <1>1, <1>3 DEF WriteAllowed, Current
<1> QED
  BY <1>2, <1>3

LEMMA WriteAgrees ==
    ASSUME WindowInv, AgreeInv, Write
    PROVE  AgreeInv'
<1>1. mutation.pc = "run" /\ job.kind \in {"create", "update", "delete"} /\ UNCHANGED <<window, port, events, edited>>
  BY DEF Write, mutationFrame, outside
<1>2. PICK id : /\ WriteAllowed(id) /\ disk' = [disk EXCEPT ![id] = job.body]
                /\ Publish(id, disk') \/ EnterUncertain
  BY DEF Write
<1>3. CASE EnterUncertain
  BY <1>1, <1>3, UncertainAgrees
<1>4. CASE Publish(id, disk')
  <2>1. PICK loaded : loaded = disk'
    OBVIOUS
  <2>2. PICK fresh : fresh = Renewed(id, loaded) \cup Removed(id, loaded)
    OBVIOUS
  <2>3. Publication(id, loaded, fresh) /\ ServiceGrows /\ GensGrow
    BY <1>4, <2>1, <2>2, PublishMade
  <2>4. /\ mutation'.pc = "published" /\ mutation'.gen = Fresh(fresh, id) /\ job'.kind = job.kind /\ job'.id = id
        /\ job'.gen = job.gen /\ service'.profiles = loaded
        /\ NumbersOn(service'.bodies, fresh, loaded)
    BY <2>3 DEF Publication
  <2>5. \A i \in Ids : service'.gens[i] = IF i \in Renewed(id, loaded) THEN Fresh(fresh, i)
                                          ELSE IF loaded[i] = NoBody THEN NoGen ELSE service.gens[i]
    BY <2>3 DEF Publication
  <2>6. /\ loaded = [i \in Ids |-> loaded[i]] /\ \A i \in Ids : loaded[i] = IF i = id THEN job.body ELSE disk[i]
    BY <1>2, <2>1 DEF WindowInv, Backstage
  <2>7. FileKnown'
    BY <2>1, <2>4 DEF FileKnown
  <2>8. DeletionNewest(model, events)'
    <3>1. ASSUME job.kind = "delete", id \in Ids
          PROVE  /\ service'.gens[id] = NoGen /\ mutation'.gen <= Len(service'.bodies)
                 /\ Outdates(model, events, id, mutation'.gen, Len(events) + 1)
      <4>1. loaded[id] = NoBody
        BY <2>6, <3>1 DEF WindowInv, Backstage, MutationShaped, CommandShaped, job
      <4>2. service'.gens[id] = NoGen
        BY <2>5, <3>1, <4>1 DEF Renewed
      <4>3. service.profiles[id] # NoBody
        BY <1>1, <1>2, <3>1, WrittenFrom
      <4>4. id \in fresh
        BY <2>2, <3>1, <4>1, <4>3 DEF Removed
      <4>5. mutation'.gen \in Nat /\ mutation'.gen > Len(service.bodies) /\ mutation'.gen \in 1..Len(service'.bodies)
        BY <2>4, <4>4 DEF NumbersOn
      <4>6. PICK g, n : g = mutation'.gen /\ n = Len(events) + 1
        OBVIOUS
      <4>7. Outdates(model, events, id, g, n)
        BY <3>1, <4>5, <4>6, OutdatesNew
      <4>8. mutation'.gen <= Len(service'.bodies)
        BY <2>4, <4>5 DEF NumbersOn
      <4> QED
        BY <4>2, <4>6, <4>7, <4>8
    <3>2. model' = model /\ events' = events
      BY <1>1 DEF window
    <3>3. ASSUME job.kind = "delete", id \in Ids PROVE Outdates(model, events, id, mutation.gen, Len(events) + 1)'
      BY <3>1, <3>2, <3>3 DEF Outdates, Told
    <3> QED
      BY <2>4, <3>1, <3>3 DEF DeletionNewest
  <2>9. Agreeing(World, events)'
    <3>0. World'.m = model /\ World'.p = port /\ events' = events /\ edited' = edited /\ World.m = model /\ World.p = port
      BY <1>1 DEF World, window
    <3>1. ~service.uncertain
      BY <1>1 DEF AgreeInv, FileKnown
    <3>2. edited \/ Reloading(port) \/ Blind(model, events)
          \/ (LoadTaken(model, events) /\ \A i \in Ids : Agreed(model, events, i, Published(i)))
      BY <3>0, <3>1 DEF AgreeInv, Consistent, Agreeing
    <3>3. CASE edited
      BY <3>0, <3>3 DEF Agreeing
    <3>4. CASE Reloading(port)
      <4>1. \E k \in 1..Len(port.mutation) : port.mutation[k].kind = "refresh"
        BY <1>1, <3>4 DEF Reloading
      <4> QED
        BY <3>0, <4>1 DEF Agreeing, Reloading
    <3>5. CASE Blind(model, events)
      BY <3>0, <3>5 DEF Agreeing, Blind, Doubted, IsLoad, IsUncertain
    <3>6. CASE ~edited /\ LoadTaken(model, events) /\ \A i \in Ids : Agreed(model, events, i, Published(i))
      <4>1. disk = service.profiles
        BY <3>1, <3>6 DEF AgreeInv, FileKnown
      <4>2. ASSUME NEW i \in Ids PROVE Published(i)' = service.gens[i]
        <5>1. CASE i = id
          BY <1>1, <1>2, <2>4, <5>1, WrittenFrom DEF Published, Publishing
        <5>2. CASE i # id
          <6>1. Published(i)' = service'.gens[i]
            BY <2>4, <5>2 DEF Published
          <6>2. loaded[i] = service.profiles[i] /\ i \notin Renewed(id, loaded)
            BY <2>6, <4>1, <5>2 DEF Renewed
          <6>3. loaded[i] = NoBody => service.gens[i] = NoGen
            BY <6>2 DEF WindowInv, Backstage, GenerationsNamed
          <6> QED
            BY <2>5, <6>1, <6>2, <6>3
        <5> QED
          BY <5>1, <5>2
      <4>3. \A i \in Ids : Published(i) = service.gens[i]
        BY <1>1 DEF Published, Publishing
      <4>4. PICK m, answers : m = model /\ answers = events
        OBVIOUS
      <4>5. World'.m = m /\ events' = answers /\ LoadTaken(m, answers) /\ \A i \in Ids : Agreed(m, answers, i, Published(i)')
        BY <3>0, <3>6, <4>2, <4>3, <4>4
      <4>6. PICK v : v = World'
        OBVIOUS
      <4>7. LoadTaken(v.m, answers) /\ \A i \in Ids : Agreed(v.m, answers, i, Published(i)')
        BY <4>5, <4>6
      <4>8. Agreeing(v, answers)'
        BY <4>7 DEF Agreeing
      <4> QED
        BY <4>5, <4>6, <4>8
    <3> QED
      BY <3>2, <3>3, <3>4, <3>5, <3>6
  <2> QED
    BY <1>1, <2>3, <2>7, <2>8, <2>9, MadeAgrees
<1> QED
  BY <1>2, <1>3, <1>4

-----------------------------------------------------------------------------
(* The mutation is answered                                                *)

\* The window will know what the service holds.
WillAgree(m, answers) ==
    \/ edited \/ service.uncertain \/ \E k \in 1..Len(port.mutation) : port.mutation[k].kind = "refresh"
    \/ Blind(m, answers)
    \/ LoadTaken(m, answers) /\ \A i \in Ids : Agreed(m, answers, i, service.gens[i])

\* The service holds what it held, and has no mutation to make.
MutationDone ==
    /\ UNCHANGED <<window, disk, edited>> /\ mutation.pc = "join" /\ mutation' = NoMutation
    /\ service'.bodies = service.bodies /\ service'.gens = service.gens /\ service'.profiles = service.profiles
    /\ service'.uncertain = service.uncertain /\ port'.mutation = port.mutation

LEMMA FinishedAgrees ==
    ASSUME WindowInv, AgreeInv, MutationDone, NEW e, NEW more, more = events', Appended(events, e, more),
           \A i \in Ids : Fitting(model, events, i, Len(service.bodies), service.gens[i], e),
           AnswersKnown(more), WillAgree(model, more)
    PROVE  AgreeInv'
<1>1. PICK v : v = World'
  OBVIOUS
<1>2. v.m = model /\ v.p.mutation = port.mutation /\ mutation'.pc = "none" /\ World.m = model
  BY <1>1 DEF World, MutationDone, window, NoMutation
<1>3. ASSUME NEW i \in Ids PROVE Buried(v.m, more, i, Len(service'.bodies), service'.gens[i])
  <2>1. Buried(model, events, i, Len(service.bodies), service.gens[i])
    BY <1>2 DEF AgreeInv, Consistent
  <2>2. Buried(model, more, i, Len(service.bodies), service.gens[i])
    BY <2>1, BuriedMore
  <2> QED
    BY <1>2, <2>2 DEF MutationDone
<1>4. DeletionNewest(v.m, more)'
  BY <1>2 DEF DeletionNewest, Publishing
<1>5. \A i \in Ids : Published(i)' = service.gens[i]
  BY <1>2 DEF Published, Publishing, MutationDone
<1>6. Agreeing(v, more)'
  BY <1>2, <1>5 DEF Agreeing, WillAgree, Reloading, MutationDone
<1>7. FileKnown'
  BY <1>2 DEF AgreeInv, FileKnown, MutationDone
<1>8. Consistent(v, more)'
  BY <1>3, <1>4, <1>6 DEF Consistent
<1> QED
  BY <1>1, <1>7, <1>8 DEF AgreeInv

\* What the window is to know is what it is told, and it is not asked to load anything.
LEMMA SettledMore ==
    ASSUME AgreeInv, mutation.pc = "join", job.kind # "refresh", ~service.uncertain,
           NEW e, NEW more, Appended(events, e, more), ~IsLoad(e),
           \A i \in Ids : /\ IF Speaks(e, i) THEN Told(e, i) = service.gens[i] ELSE Published(i) = service.gens[i]
                          /\ e.kind = "ProfileSaved" /\ e.id = i /\ e.prev # NoGen => e.prev = Published(i)
    PROVE  WillAgree(model, more)
<1>1. World.m = model /\ World.p = port
  BY DEF World
<1>2. edited \/ Reloading(port) \/ Blind(model, events)
      \/ (LoadTaken(model, events) /\ \A i \in Ids : Agreed(model, events, i, Published(i)))
  BY <1>1 DEF AgreeInv, Consistent, Agreeing
<1>3. CASE edited
  BY <1>3 DEF WillAgree
<1>4. CASE Reloading(port)
  BY <1>4 DEF WillAgree, Reloading
<1>5. CASE Blind(model, events)
  BY <1>5, BlindMore DEF WillAgree
<1>6. CASE LoadTaken(model, events) /\ \A i \in Ids : Agreed(model, events, i, Published(i))
  <2>1. LoadTaken(model, more)
    BY <1>6, LoadTakenMore
  <2>2. ASSUME NEW i \in Ids PROVE Agreed(model, more, i, service.gens[i])
    <3>1. PICK g : g = Published(i)
      OBVIOUS
    <3>2. Agreed(model, events, i, g)
      BY <1>6, <3>1
    <3>3. IF Speaks(e, i) THEN Told(e, i) = service.gens[i] ELSE g = service.gens[i]
      BY <3>1
    <3>4. e.kind = "ProfileSaved" /\ e.id = i /\ e.prev # NoGen => e.prev = g
      BY <3>1
    <3> QED
      BY <3>2, <3>3, <3>4, AgreedMore
  <2> QED
    BY <2>1, <2>2 DEF WillAgree
<1> QED
  BY <1>2, <1>3, <1>4, <1>5, <1>6

\* A load is taken, unless an answer of an uncertain configuration is newer.
LEMMA SettledLoad ==
    ASSUME WindowInv, TrackInv, mutation.pc = "join", NEW e, NEW more, Appended(events, e, more),
           e.kind = "ProfilesLoaded", e.op = job.op, \A i \in Ids : Told(e, i) = service.gens[i]
    PROVE  WillAgree(model, more)
<1>1. OperationsNumbered(World, events) /\ World.m = model /\ World.p = port
  BY DEF TrackInv, ModelTracks, World
<1>2. PICK M : M = job.op
  OBVIOUS
<1>3. PICK N : N = model.lastLoad
  OBVIOUS
<1>4. M \in Nat /\ N \in Nat /\ e.op = M /\ IsLoad(e) /\ Len(events) \in Nat
  BY <1>1, <1>2, <1>3 DEF OperationsNumbered, job, IsLoad, Appended
<1>5. \A k \in 1..Len(events) : IsLoad(events[k]) \/ IsUncertain(events[k]) => events[k].op \in Nat
  BY <1>1 DEF OperationsNumbered
<1>6. \A k \in 1..Len(events) : IsLoad(events[k]) => events[k].op < M
  BY <1>1, <1>2 DEF OperationsNumbered, MutationsAbove, job
<1>7. \A k \in 1..Len(more) : IsLoad(more[k]) => more[k].op \in Nat /\ more[k].op <= M
  <2>1. SUFFICES ASSUME NEW k \in 1..Len(more), IsLoad(more[k]) PROVE more[k].op \in Nat /\ more[k].op <= M
    OBVIOUS
  <2>2. CASE k = Len(events) + 1
    BY <1>4, <2>2, AppendedOrBefore
  <2>3. CASE k \in 1..Len(events)
    <3>1. more[k] = events[k]
      BY <2>3, AppendedOrBefore
    <3> QED
      BY <1>4, <1>5, <1>6, <2>1, <2>3, <3>1
  <2> QED
    BY <2>2, <2>3, AppendedOrBefore
<1>8. CASE M <= N
  <2>1. ~MutationsAbove(port, N)
    BY <1>2, <1>4, <1>8 DEF MutationsAbove, job
  <2>2. model.uncertain
    BY <1>1, <1>3, <2>1 DEF OperationsNumbered
  <2>3. \A k \in 1..Len(more) : IsLoad(more[k]) => more[k].op <= model.lastLoad
    BY <1>3, <1>4, <1>7, <1>8
  <2> QED
    BY <2>2, <2>3 DEF WillAgree, Blind
<1>9. ASSUME M > N, NEW q \in 1..Len(events), IsUncertain(events[q]), events[q].op >= M PROVE WillAgree(model, more)
  <2>1. q \in 1..Len(more) /\ more[q] = events[q] /\ events[q].op \in Nat
    BY <1>5, <1>9, AppendedOrBefore
  <2>2. ASSUME NEW k \in 1..Len(more), IsLoad(more[k]) PROVE more[k].op <= more[q].op /\ (k < q => more[k].op < more[q].op)
    <3>1. more[k].op <= more[q].op
      BY <1>4, <1>7, <1>9, <2>1, <2>2
    <3>2. ASSUME k < q PROVE more[k].op < more[q].op
      <4>1. k \in 1..Len(events)
        BY <1>4, <3>2
      <4>2. more[k] = events[k]
        BY <4>1, AppendedOrBefore
      <4> QED
        BY <1>4, <1>5, <1>6, <1>9, <2>1, <2>2, <4>1, <4>2
    <3> QED
      BY <3>1, <3>2
  <2>3. more[q].op > model.lastLoad
    BY <1>3, <1>4, <1>9, <2>1
  <2>4. Doubted(more, q, model.lastLoad)
    BY <1>9, <2>1, <2>2, <2>3 DEF Doubted
  <2> QED
    BY <2>1, <2>4 DEF WillAgree, Blind
<1>10. CASE M > N /\ \A q \in 1..Len(events) : IsUncertain(events[q]) => ~(events[q].op >= M)
  <2>1. e.op > model.lastLoad /\ \A j \in 1..Len(events) : IsUncertain(events[j]) => events[j].op < e.op
    BY <1>3, <1>4, <1>5, <1>10
  <2>2. LoadTaken(model, more)
    BY <1>4, <2>1, LoadTakenMore
  <2>3. ASSUME NEW i \in Ids PROVE Agreed(model, more, i, service.gens[i])
    <3>1. Agreed(model, more, i, Told(e, i))
      BY AgreedLoad
    <3> QED
      BY <3>1
  <2> QED
    BY <2>2, <2>3 DEF WillAgree
<1> QED
  BY <1>4, <1>8, <1>9, <1>10

LEMMA FinishMutationAgrees ==
    ASSUME WindowInv, TrackInv, AgreeInv, FinishMutation
    PROVE  AgreeInv'
<1>0. PortShaped(port) /\ ServiceShaped(service) /\ Queue(events)
  BY DEF WindowInv, Backstage, Answering
<1>1. UNCHANGED <<window, disk, edited>> /\ mutation.pc = "join" /\ mutation' = NoMutation
  BY DEF FinishMutation, mutationFrame, outside
<1>2. PICK secrets, sessions : service' = [service EXCEPT !.secrets = secrets, !.sessions = sessions]
  BY DEF FinishMutation
<1>3. /\ service'.bodies = service.bodies /\ service'.gens = service.gens /\ service'.profiles = service.profiles
      /\ service'.uncertain = service.uncertain /\ service.uncertain \in BOOLEAN
  BY <1>0, <1>2 DEF ServiceShaped
<1>4. job.kind \in {"refresh", "create", "update", "delete"}
  BY <1>1 DEF WindowInv, Backstage, MutationSound
<1>5. ASSUME NEW e, Emit(port, e) PROVE MutationDone /\ Appended(events, e, events')
  <2>1. port'.mutation = port.mutation /\ events' = Append(events, e)
    BY <1>0, <1>5, EmittedLanes
  <2>2. MutationDone
    BY <1>1, <1>3, <2>1 DEF MutationDone
  <2> QED
    BY <1>0, <2>1, <2>2, AppendedNow
<1>6. World.m = model /\ World.p = port /\ AnswersKnown(events)
      /\ \A i \in Ids : Buried(model, events, i, Len(service.bodies), service.gens[i])
  BY DEF World, AgreeInv, Consistent
<1>7. PICK more : more = events'
  OBVIOUS
<1>8. CASE service.uncertain
  <2>1. PICK e : e = Uncertain(job.op)
    OBVIOUS
  <2>2. Emit(port, e) /\ Aside(e)
    BY <1>8, <2>1, AsideAnswers DEF FinishMutation
  <2>3. MutationDone /\ Appended(events, e, more)
    BY <1>5, <1>7, <2>2
  <2>4. ~IsLoad(e) /\ e.kind \notin {"ProfilesFailed", "ProfileSaved"}
        /\ \A i \in Ids : ~Deletes(e, i) /\ ~Drops(e, i) /\ Told(e, i) = NoGen
    BY <2>2 DEF Aside, IsLoad, Deletes, Drops, Told
  <2>5. \A i \in Ids : Fitting(model, events, i, Len(service.bodies), service.gens[i], e)
    BY <2>4 DEF Fitting
  <2>6. AnswersKnown(more)
    BY <1>6, <2>3, <2>4, KnownMore
  <2>7. WillAgree(model, more)
    BY <1>8 DEF WillAgree
  <2> QED
    BY <1>7, <2>3, <2>5, <2>6, <2>7, FinishedAgrees
<1>9. CASE ~service.uncertain /\ job.kind = "refresh"
  <2>1. PICK e : e = [kind |-> "ProfilesLoaded", op |-> job.op, profiles |-> mutation.profiles]
    OBVIOUS
  <2>2. Emit(port, e)
    BY <1>9, <2>1 DEF FinishMutation
  <2>3. MutationDone /\ Appended(events, e, more)
    BY <1>5, <1>7, <2>2
  <2>4. e.kind = "ProfilesLoaded" /\ e.op = job.op /\ IsLoad(e) /\ e.profiles = mutation.profiles
    BY <2>1 DEF IsLoad
  <2>5. \A i \in Ids : Told(e, i) = service.gens[i] /\ e.profiles[i].gen = service.gens[i]
    BY <1>1, <1>9, <2>4 DEF WindowInv, Backstage, MutationSound, Told
  <2>6. ASSUME NEW i \in Ids PROVE Fitting(model, events, i, Len(service.bodies), service.gens[i], e)
    <3>1. ~Deletes(e, i) /\ (service.gens[i] # NoGen => ~Drops(e, i))
      BY <2>4, <2>5 DEF Deletes, Drops
    <3>2. Told(e, i) # NoGen => Outlives(model, events, i, Told(e, i), Len(events) + 1)
      BY <1>6, <2>5 DEF Buried
    <3> QED
      BY <3>1, <3>2 DEF Fitting
  <2>7. AnswersKnown(more)
    <3>1. OperationsNumbered(World, events)
      BY DEF TrackInv, ModelTracks
    <3>2. \A j \in 1..Len(events) : IsLoad(events[j]) => events[j].op < e.op
      BY <1>1, <1>6, <2>4, <3>1 DEF OperationsNumbered, MutationsAbove, job
    <3> QED
      BY <1>6, <2>3, <2>4, <3>2, KnownMore
  <2>8. WillAgree(model, more)
    BY <1>1, <2>3, <2>4, <2>5, SettledLoad
  <2> QED
    BY <1>7, <2>3, <2>6, <2>7, <2>8, FinishedAgrees
<1>10. CASE ~service.uncertain /\ job.kind = "delete"
  <2>1. PICK e : e = [kind |-> "ProfileDeleted", op |-> job.op, id |-> job.id, gen |-> mutation.gen]
    OBVIOUS
  <2>2. Emit(port, e)
    BY <1>10, <2>1 DEF FinishMutation
  <2>3. MutationDone /\ Appended(events, e, more)
    BY <1>5, <1>7, <2>2
  <2>4. e.kind = "ProfileDeleted" /\ ~IsLoad(e) /\ e.id = job.id /\ e.gen = mutation.gen
    BY <2>1 DEF IsLoad
  <2>5. ASSUME job.id \in Ids
        PROVE  /\ service.gens[job.id] = NoGen /\ mutation.gen <= Len(service.bodies)
               /\ Outdates(model, events, job.id, mutation.gen, Len(events) + 1)
    BY <1>1, <1>6, <1>10, <2>5 DEF AgreeInv, Consistent, DeletionNewest, Publishing
  <2>6. ASSUME NEW i \in Ids PROVE Fitting(model, events, i, Len(service.bodies), service.gens[i], e)
    BY <2>4, <2>5 DEF Fitting, Deletes, Drops, Told
  <2>7. AnswersKnown(more)
    BY <1>6, <2>3, <2>4, KnownMore
  <2>8. ASSUME NEW i \in Ids
        PROVE  /\ IF Speaks(e, i) THEN Told(e, i) = service.gens[i] ELSE Published(i) = service.gens[i]
               /\ e.kind = "ProfileSaved" /\ e.id = i /\ e.prev # NoGen => e.prev = Published(i)
    BY <2>4, <2>5 DEF Speaks, Told, Published
  <2>9. WillAgree(model, more)
    BY <1>1, <1>10, <2>3, <2>4, <2>8, SettledMore
  <2> QED
    BY <1>7, <2>3, <2>6, <2>7, <2>9, FinishedAgrees
<1>11. CASE ~service.uncertain /\ job.kind \notin {"refresh", "delete"}
  <2>1. PICK e : e = [kind |-> "ProfileSaved", op |-> job.op, id |-> job.id, prev |-> job.gen,
                      gen |-> mutation.gen, retained |-> Retained]
    OBVIOUS
  <2>2. Emit(port, e)
    BY <1>11, <2>1 DEF FinishMutation
  <2>3. MutationDone /\ Appended(events, e, more)
    BY <1>5, <1>7, <2>2
  <2>4. e.kind = "ProfileSaved" /\ ~IsLoad(e) /\ e.id = job.id /\ e.gen = mutation.gen /\ e.prev = job.gen
    BY <2>1 DEF IsLoad
  <2>5. job.id \in Ids => mutation.gen = service.gens[job.id] /\ mutation.gen # NoGen
    BY <1>1, <1>4, <1>11 DEF WindowInv, Backstage, MutationSound
  <2>6. ASSUME NEW i \in Ids PROVE Fitting(model, events, i, Len(service.bodies), service.gens[i], e)
    <3>1. ~Deletes(e, i) /\ ~Drops(e, i)
      BY <2>4 DEF Deletes, Drops
    <3>2. Told(e, i) # NoGen => Told(e, i) = service.gens[i]
      BY <2>4, <2>5 DEF Told
    <3>3. Told(e, i) # NoGen => Outlives(model, events, i, Told(e, i), Len(events) + 1)
      BY <1>6, <3>2 DEF Buried
    <3> QED
      BY <3>1, <3>3 DEF Fitting
  <2>7. AnswersKnown(more)
    BY <1>6, <2>3, <2>4, <2>5, KnownMore
  <2>8. ASSUME NEW i \in Ids
        PROVE  /\ IF Speaks(e, i) THEN Told(e, i) = service.gens[i] ELSE Published(i) = service.gens[i]
               /\ e.kind = "ProfileSaved" /\ e.id = i /\ e.prev # NoGen => e.prev = Published(i)
    BY <1>1, <1>11, <2>4, <2>5 DEF Speaks, Told, Published, Publishing
  <2>9. WillAgree(model, more)
    BY <1>1, <1>11, <2>3, <2>4, <2>8, SettledMore
  <2> QED
    BY <1>7, <2>3, <2>6, <2>7, <2>9, FinishedAgrees
<1> QED
  BY <1>3, <1>4, <1>8, <1>9, <1>10, <1>11

-----------------------------------------------------------------------------
(* The third inductive invariant, and what it says when all is answered    *)

\* The window begins by asking for the profiles.
LEMMA FirstLoad ==
    ASSUME NEW empty, empty = [m |-> EmptyModel, a |-> EmptyApp, p |-> EmptyPort], NEW start, start = SubmitRefresh(empty)
    PROVE  Reloading(start.p)
<1>1. PICK c : c = Command(empty.m, "refresh", NoId, NoGen)
  OBVIOUS
<1>2. c.kind = "refresh" /\ Lane(c.kind) = "mutation"
  BY <1>1 DEF Command, Lane
<1>3. empty.p = EmptyPort /\ EmptyPort.mutation = <<>> /\ Queue(<<>>) /\ Len(<<>>) = 0
  BY EmptyQueue DEF EmptyPort
<1>4. Accepts(empty.p, c) /\ ~Coalesced(empty.p, c)
  BY <1>2, <1>3, DbotterAppAssumption DEF Accepts, Coalesced, EmptyPort
<1>5. PICK u : u = [empty EXCEPT !.m.nextOp = c.op + 1]
  OBVIOUS
<1>6. start = [u EXCEPT !.p = Sent(@, c)]
  BY <1>1, <1>4, <1>5 DEF SubmitRefresh, TrySubmit
<1>7. Sends(empty, c, start)
  BY <1>5, <1>6, Sending, EmptyShaped
<1>8. start.p = Sent(EmptyPort, c)
  BY <1>3, <1>7 DEF Sends
<1>9. PortShaped(EmptyPort)
  BY <1>3, EmptyShaped DEF Shaped
<1>10. PICK q : q = start.p
  OBVIOUS
<1>11. PICK none : none = EmptyPort.mutation
  OBVIOUS
<1>12. q.mutation = Append(none, c)
  <2>1. q = Sent(EmptyPort, c)
    BY <1>8, <1>10
  <2>2. q.mutation = IF Lane(c.kind) = "mutation" THEN Append(EmptyPort.mutation, c) ELSE EmptyPort.mutation
    BY <1>9, <2>1, SentLanes
  <2> QED
    BY <1>2, <1>11, <2>2
<1>13. Queue(none) /\ Len(none) = 0
  BY <1>3, <1>11
<1>14. Len(q.mutation) = Len(none) + 1 /\ q.mutation[Len(none) + 1] = c
  BY <1>12, <1>13, QueueGrows
<1>15. Len(start.p.mutation) = 1 /\ start.p.mutation[1] = c
  BY <1>10, <1>13, <1>14
<1> QED
  BY <1>2, <1>15 DEF Reloading

LEMMA AgreeStarts ==
    ASSUME Init
    PROVE  AgreeInv
<1>0. WindowInv
  BY WindowStarts
<1>1. PICK empty : empty = [m |-> EmptyModel, a |-> EmptyApp, p |-> EmptyPort]
  OBVIOUS
<1>2. PICK start : start = SubmitRefresh(empty)
  OBVIOUS
<1>3. /\ model = start.m /\ port = start.p /\ events = <<>> /\ mutation = NoMutation /\ service = Loaded(disk)
  BY <1>1, <1>2 DEF Init
<1>4. Len(events) = 0 /\ 1..Len(events) = {}
  BY <1>3, EmptyQueue
<1>5. Calm(empty, start)
  BY <1>1, <1>2, EmptyShaped, CalmSubmitRefresh
<1>6. model.tombs = EmptyModel.tombs
  BY <1>1, <1>3, <1>5 DEF Calm, Alike
<1>7. mutation.pc = "none" /\ service.profiles = disk
  BY <1>3, NoMutationShaped DEF Loaded
<1>8. ASSUME NEW i \in Ids PROVE Buried(model, events, i, Len(service.bodies), service.gens[i])
  <2>1. model.tombs[i] = 0 /\ service.gens[i] \in Nat /\ Len(service.bodies) \in Nat
    BY <1>0, <1>6, GensAreNat DEF EmptyModel, NoGen
  <2>2. service.gens[i] # NoGen => Outlives(model, events, i, service.gens[i], Len(events) + 1)
    BY <1>4, <2>1 DEF Outlives, NoGen
  <2> QED
    BY <1>4, <2>1, <2>2 DEF Buried
<1>9. Reloading(port)
  BY <1>1, <1>2, <1>3, FirstLoad
<1>10. World.p = port /\ World.m = model
  BY DEF World
<1>11. DeletionNewest(model, events) /\ AnswersKnown(events) /\ FileKnown
  BY <1>4, <1>7 DEF DeletionNewest, Publishing, AnswersKnown, FileKnown
<1> QED
  BY <1>8, <1>9, <1>10, <1>11 DEF AgreeInv, Consistent, Agreeing

LEMMA AgreeSteps ==
    ASSUME WindowInv, TrackInv, AgreeInv, Next
    PROVE  AgreeInv'
<1>1. CASE Poll
  BY <1>1, PollAgrees
<1>2. CASE FinishFrame
  BY <1>2, FinishFrameCalm, CalmAgrees
<1>3. CASE User
  BY <1>3, UserCalm, CalmAgrees
<1>4. CASE PollControl
  BY <1>4, PollControlAgrees
<1>5. CASE PollMutation
  BY <1>5, PollMutationAgrees
<1>6. CASE PollWork
  BY <1>6, PollWorkAgrees
<1>7. ASSUME NEW t \in tasks,
             \/ Disconnect(t) \/ Reconnect(t) \/ Acquire(t) \/ AcquireFails(t) \/ OperateEnds(t) \/ OperateEvicts(t)
      PROVE  AgreeInv'
  BY <1>7, TaskAgrees
<1>8. CASE StoreSecret
  BY <1>8, StoreSecretAgrees
<1>9. CASE Refuse
  BY <1>9, RefuseAgrees
<1>10. CASE Write
  BY <1>10, WriteAgrees
<1>11. CASE Reload
  BY <1>11, ReloadAgrees
<1>12. CASE Complete
  BY <1>12, CompleteAgrees
<1>13. CASE FinishMutation
  BY <1>13, FinishMutationAgrees
<1>14. CASE EditDisk
  BY <1>14, EditDiskAgrees
<1> QED
  BY <1>1, <1>2, <1>3, <1>4, <1>5, <1>6, <1>7, <1>8, <1>9, <1>10, <1>11, <1>12, <1>13, <1>14 DEF Next

\* The third inductive invariant, of every behaviour: what is gone is older than what the
\* window is told of afterwards, and unless it is left uncertain or a load is on the way,
\* the answers in the queue lead it to the generations that the service holds.
THEOREM WindowAgrees == Spec => []AgreeInv
<1>1. Init => AgreeInv
  BY AgreeStarts
<1>2. WindowInv /\ TrackInv /\ AgreeInv /\ [Next]_vars => AgreeInv'
  BY AgreeSteps, AgreeStutters
<1> QED
  BY <1>1, <1>2, WindowSafe, WindowTracks, PTL DEF Spec

\* When all is answered, the window that does not hold the configuration for uncertain
\* agrees with the service on every generation, unless another program has edited the
\* file; and no generation it holds for active is older than a deletion of its id
\* (fold_profiles, fold_deleted, accept_profiles_operation).
THEOREM WindowGenerationsSound == Spec => []GenerationsSound
<1>1. ASSUME WindowInv, TrackInv, AgreeInv PROVE GenerationsAgree
  <2>1. SUFFICES ASSUME Quiet, ~edited, ~model.uncertain PROVE ~service.uncertain /\ model.active = service.gens
    BY DEF GenerationsAgree
  <2>2. Len(<<>>) = 0 /\ 1..Len(<<>>) = {}
    BY EmptyQueue
  <2>3. /\ 1..Len(events) = {} /\ 1..Len(port.mutation) = {} /\ mutation.pc = "none"
        /\ World.m = model /\ World.p = port
    BY <2>1, <2>2, NoMutationShaped DEF Quiet, World
  <2>4. ~service.uncertain
    <3>1. Warnings(model, events)
      BY <1>1, <2>3 DEF TrackInv, ModelTracks
    <3> QED
      BY <2>1, <2>3, <3>1 DEF Warnings, Warned, Aware
  <2>5. ~Reloading(port) /\ ~Blind(model, events)
    BY <2>1, <2>3 DEF Reloading, Blind
  <2>6. \A i \in Ids : Agreed(model, events, i, Published(i))
    BY <1>1, <2>1, <2>3, <2>4, <2>5 DEF AgreeInv, Consistent, Agreeing
  <2>7. ASSUME NEW i \in Ids PROVE model.active[i] = service.gens[i]
    <3>1. Published(i) = service.gens[i]
      BY <2>3 DEF Published, Publishing
    <3> QED
      BY <2>3, <2>6, <3>1 DEF Agreed, Leads
  <2>8. model.active = [i \in Ids |-> model.active[i]] /\ service.gens = [i \in Ids |-> service.gens[i]]
    BY <1>1 DEF WindowInv, ModelShaped, Backstage, ServiceShaped
  <2> QED
    BY <2>4, <2>7, <2>8
<1>2. WindowInv /\ TrackInv /\ AgreeInv => GenerationsAgree
  BY <1>1
<1> QED
  BY <1>2, WindowSafe, WindowTracks, WindowAgrees, WindowAboveTombstones, PTL DEF GenerationsSound
=============================================================================
