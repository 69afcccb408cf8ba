---------------------------- MODULE WindowProofs ----------------------------
(***************************************************************************)
(* The window, the port, the controller and the service as one system, for *)
(* any profiles, contents, scenarios and numbers of operations: what the   *)
(* cards say of connections.                                               *)
(*                                                                         *)
(* Mutations are made one after the other and their answers are folded in  *)
(* that order, so that a load the window folds is never older than what it *)
(* holds for active (AnswersInOrder).  Nothing else is needed of the       *)
(* application's own bookkeeping: a session's number and the generation it *)
(* was opened for travel together from the session cache through a task    *)
(* and an event to the card (SessionFits).                                 *)
(***************************************************************************)
EXTENDS Window, FiniteSetTheorems, SequenceTheorems, TLAPS

\* A sequence of anything
Queue(s) == Len(s) \in Nat /\ s = [k \in 1..Len(s) |-> s[k]]

\* Records with the fields they are made with
SnapshotShaped(x) == x = [gen |-> x.gen, body |-> x.body, secret |-> x.secret] /\ x.gen \in Nat
SnapshotsShaped(x) == x = [i \in Ids |-> x[i]] /\ \A i \in Ids : SnapshotShaped(x[i])
ModelShaped(m) ==
    /\ m = [profiles |-> m.profiles, active |-> m.active, tombs |-> m.tombs, conn |-> m.conn,
            executing |-> m.executing, failures |-> m.failures, uncertain |-> m.uncertain,
            lastLoad |-> m.lastLoad, retags |-> m.retags, nextOp |-> m.nextOp]
    /\ m.active \in [Ids -> Nat] /\ m.tombs \in [Ids -> Nat]
    /\ m.conn = [i \in Ids |-> m.conn[i]] /\ m.retags = [i \in Ids |-> m.retags[i]]
    /\ SnapshotsShaped(m.profiles)
\* A profile that is added has no generation yet.
EditorShaped(x) ==
    /\ x = [mode |-> x.mode, id |-> x.id, gen |-> x.gen, secret |-> x.secret, save |-> x.save,
            connect |-> x.connect, uncertain |-> x.uncertain]
    /\ x.mode = "add" => x.gen = NoGen
\* Only connections and pages are retried.
AppShaped(a) ==
    /\ a = [ops |-> a.ops, deletes |-> a.deletes, recipes |-> a.recipes, prompt |-> a.prompt, error |-> a.error,
            confirm |-> a.confirm, editor |-> a.editor, followUp |-> a.followUp]
    /\ \A r \in a.recipes : r.kind \in {"connect", "reconnect", "browse"}
    /\ EditorShaped(a.editor)
CommandShaped(c) ==
    /\ c = [kind |-> c.kind, op |-> c.op, id |-> c.id, gen |-> c.gen, body |-> c.body, secret |-> c.secret]
    /\ c.kind \in {"create", "update"} <=> c.body # NoBody
    /\ c.kind = "create" => c.gen = NoGen
PortShaped(p) ==
    /\ p = [control |-> p.control, mutation |-> p.mutation, work |-> p.work, keys |-> p.keys]
    /\ Queue(p.mutation) /\ \A k \in 1..Len(p.mutation) : CommandShaped(p.mutation[k])
TaskShaped(t) ==
    t = [op |-> t.op, kind |-> t.kind, id |-> t.id, gen |-> t.gen, pc |-> t.pc, session |-> t.session,
         waits |-> t.waits, cancel |-> t.cancel]
MutationShaped(x) ==
    /\ x = [pc |-> x.pc, command |-> x.command, profiles |-> x.profiles, targets |-> x.targets,
            waits |-> x.waits, retag |-> x.retag, active |-> x.active, gen |-> x.gen]
    /\ x.pc \in {"none", "run", "published", "join"} /\ CommandShaped(x.command)
ServiceShaped(s) ==
    /\ s = [profiles |-> s.profiles, gens |-> s.gens, bodies |-> s.bodies, sessions |-> s.sessions,
            opened |-> s.opened, secrets |-> s.secrets, uncertain |-> s.uncertain]
    /\ Queue(s.bodies) /\ Queue(s.opened) /\ s.gens \in [Ids -> Nat] /\ s.uncertain \in BOOLEAN
    /\ s.sessions = [i \in Ids |-> s.sessions[i]]
    /\ \A i \in Ids : s.sessions[i] = [n |-> s.sessions[i].n, gen |-> s.sessions[i].gen]

\* The session was opened for the connection fields of the generation.
SessionFits(n, gen) ==
    /\ n \in 1..Len(service.opened) /\ gen \in 1..Len(service.bodies)
    /\ Endpoint[service.opened[n]] = Endpoint[service.bodies[gen]]

SameEndpoint(old, new) ==
    /\ old \in 1..Len(service.bodies) /\ new \in 1..Len(service.bodies)
    /\ Endpoint[service.bodies[old]] = Endpoint[service.bodies[new]]

\* A current generation was made of the profile as published.
GenerationsNamed ==
    \A i \in Ids : /\ service.profiles[i] = NoBody <=> service.gens[i] = NoGen
                   /\ service.gens[i] # NoGen =>
                        /\ service.gens[i] \in 1..Len(service.bodies)
                        /\ service.bodies[service.gens[i]] = service.profiles[i]

\* A cached session fits its generation, which is current or about to be cleaned up.
SessionsFit ==
    \A i \in Ids : service.sessions[i] # NoSession =>
        /\ SessionFits(service.sessions[i].n, service.sessions[i].gen)
        /\ \/ service.sessions[i].gen = service.gens[i]
           \/ \E g \in mutation.targets : g.id = i /\ g.session = service.sessions[i]

TasksFit ==
    \A t \in tasks : TaskShaped(t) /\ (t.pc = "operate" /\ t.id \in Ids => SessionFits(t.session, t.gen))

\* What the mutation under way will answer, and clean up.
MutationSound ==
    /\ mutation.pc \in {"none", "run"} => mutation.targets = {} /\ ~mutation.retag
    /\ mutation.retag \in BOOLEAN /\ mutation.gen \in Nat
    /\ \A g \in mutation.targets : /\ g.session = NoSession \/ g.session.gen = g.gen
                                   /\ mutation.retag /\ g.id = job.id => g.gen = job.gen
    /\ mutation.pc \in {"published", "join"} =>
         /\ job.kind \in {"refresh", "create", "update", "delete"}
         /\ mutation.retag => ~service.uncertain /\ job.kind = "update"
         /\ ~service.uncertain =>
              /\ job.kind = "refresh" => /\ SnapshotsShaped(mutation.profiles)
                                         /\ \A i \in Ids : mutation.profiles[i].gen = service.gens[i]
              /\ job.kind \in {"create", "update"} /\ job.id \in Ids =>
                    /\ mutation.gen = service.gens[job.id] /\ mutation.gen # NoGen
                    /\ mutation.retag => SameEndpoint(job.gen, mutation.gen)

-----------------------------------------------------------------------------
(* Events                                                                  *)

Outcomes == {"preserve", "disconnected", "rejected", "unknown", "credential"}

EventSound(e) ==
    /\ e.kind \in {"QueryFinished", "ConnectionReady"} /\ e.id \in Ids => SessionFits(e.session, e.gen)
    /\ e.kind \in {"CatalogPage", "RedisKeys"} =>
         /\ e.outcome \in Outcomes
         /\ e.id \in Ids /\ e.session # 0 /\ e.disposition = "keep" => SessionFits(e.session, e.gen)
    /\ e.kind = "OperationFailed" => e.outcome \in Outcomes
    /\ e.kind = "ConnectionClosed" => e.post \in {NeedsCredential, Disconnected}
    /\ e.kind = "ProfilesLoaded" => SnapshotsShaped(e.profiles)
    /\ e.kind = "ProfileSaved" => /\ e.retained \in BOOLEAN /\ e.gen \in Nat
                                  /\ e.retained /\ e.id \in Ids => SameEndpoint(e.prev, e.gen)
    /\ e.kind = "ProfileDeleted" => e.gen \in Nat

\* The generation an answer makes active
Told(e, i) ==
    IF e.kind = "ProfilesLoaded" THEN e.profiles[i].gen
    ELSE IF e.kind = "ProfileSaved" /\ e.id = i THEN e.gen ELSE NoGen

\* The generations the window is told of are in order, up to the one that is current.
AnswersInOrder ==
    \A i \in Ids : \A k \in 1..Len(events) : Told(events[k], i) # NoGen =>
        /\ Told(events[k], i) <= Len(service.bodies)
        /\ service.gens[i] # NoGen => Told(events[k], i) <= service.gens[i]
        /\ \A j \in 1..k : Told(events[j], i) <= Told(events[k], i)

-----------------------------------------------------------------------------
(* The window, whose model is m                                            *)

\* What the window holds for active is no newer than what it will be told.
Behind(m, answers, i) ==
    /\ m.active[i] <= Len(service.bodies)
    /\ service.gens[i] # NoGen => m.active[i] <= service.gens[i]
    /\ \A k \in 1..Len(answers) : Told(answers[k], i) # NoGen => m.active[i] <= Told(answers[k], i)

\* What is shown is no newer than what is active; a retag leads to what is active.
Shown(m, i) ==
    /\ m.profiles[i].gen <= m.active[i]
    /\ \/ m.retags[i] = NoRetag
       \/ /\ m.retags[i][1] # NoGen
          /\ m.retags[i][2] = m.active[i] \/ m.profiles[i].gen = NoGen

CardFits(m, i) == m.conn[i].is = "connected" => SessionFits(m.conn[i].n, m.active[i])

Above(m, i) == m.active[i] # NoGen => m.active[i] > m.tombs[i]

ModelSound(m, answers) ==
    \A i \in Ids : Behind(m, answers, i) /\ Shown(m, i) /\ CardFits(m, i) /\ Above(m, i)

-----------------------------------------------------------------------------
(* The invariant                                                           *)

Backstage ==
    /\ MutationShaped(mutation) /\ ServiceShaped(service)
    /\ scenario \in Scenarios /\ disk = [i \in Ids |-> disk[i]]
    /\ GenerationsNamed /\ SessionsFit /\ TasksFit /\ MutationSound

Answering ==
    /\ Queue(events) /\ (\A k \in 1..Len(events) : EventSound(events[k])) /\ AnswersInOrder

WindowInv ==
    /\ ModelShaped(model) /\ AppShaped(app) /\ PortShaped(port)
    /\ Backstage /\ Answering /\ ModelSound(model, events)

-----------------------------------------------------------------------------
(* Queues                                                                  *)

\* What is appended comes last.
LEMMA QueueGrows ==
    ASSUME NEW s, Queue(s), NEW x
    PROVE  /\ Queue(Append(s, x)) /\ Len(Append(s, x)) = Len(s) + 1 /\ Append(s, x)[Len(s) + 1] = x
           /\ \A k \in 1..Len(s) : Append(s, x)[k] = s[k]
<1>0. PICK t : t = Append(s, x)
  OBVIOUS
<1>1. PICK S : S = {s[k] : k \in 1..Len(s)} \cup {x}
  OBVIOUS
<1>2. s \in [1..Len(s) -> S]
  BY <1>1 DEF Queue
<1>3. s \in Seq(S) /\ x \in S
  BY <1>1, <1>2, SeqDef DEF Queue
<1>4. /\ t \in Seq(S) /\ Len(t) = Len(s) + 1 /\ t[Len(s) + 1] = x /\ \A k \in 1..Len(s) : t[k] = s[k]
  BY <1>0, <1>3, AppendProperties
<1>5. t \in [1..Len(t) -> S] /\ Len(t) \in Nat
  BY <1>4, LenProperties
<1>6. Queue(t)
  BY <1>5 DEF Queue
<1> QED
  BY <1>0, <1>4, <1>6

\* What is taken was first.
LEMMA QueueShrinks ==
    ASSUME NEW s, Queue(s), s # <<>>, NEW t, t = Tail(s)
    PROVE  /\ Queue(t) /\ Len(s) \in Nat \ {0} /\ Len(t) = Len(s) - 1 /\ Head(s) = s[1]
           /\ \A k \in 1..Len(t) : t[k] = s[k + 1] /\ k + 1 \in 1..Len(s)
<1>1. PICK S : S = {s[k] : k \in 1..Len(s)}
  OBVIOUS
<1>2. s \in [1..Len(s) -> S]
  BY <1>1 DEF Queue
<1>3. s \in Seq(S)
  BY <1>2, SeqDef DEF Queue
<1>4. t \in Seq(S) /\ Len(t) = Len(s) - 1 /\ Len(s) \in Nat \ {0} /\ \A k \in 1..Len(t) : t[k] = s[k + 1]
  BY <1>3
<1>5. t \in [1..Len(t) -> S] /\ Len(t) \in Nat
  BY <1>4, LenProperties
<1>6. Queue(t)
  BY <1>5 DEF Queue
<1>7. Head(s) = s[1] /\ \A k \in 1..Len(t) : k + 1 \in 1..Len(s)
  BY <1>3, <1>4
<1> QED
  BY <1>4, <1>6, <1>7

\* A function on the first n numbers is a queue.
LEMMA QueueOf ==
    ASSUME NEW n \in Nat, NEW s, s = [k \in 1..n |-> s[k]]
    PROVE  Queue(s) /\ Len(s) = n
<1>1. PICK S : S = {s[k] : k \in 1..n}
  OBVIOUS
<1>2. s \in [1..n -> S]
  BY <1>1
<1>3. s \in Seq(S) /\ Len(s) = n
  BY <1>2, SeqDef
<1> QED
  BY <1>3 DEF Queue

-----------------------------------------------------------------------------
(* The user, and what the application does besides folding an event        *)

Shaped(w) ==
    w = [m |-> w.m, a |-> w.a, p |-> w.p] /\ ModelShaped(w.m) /\ AppShaped(w.a) /\ PortShaped(w.p)

\* From m to n nothing is loaded.
Alike(m, n) ==
    /\ n.profiles = m.profiles /\ n.active = m.active /\ n.tombs = m.tombs /\ n.retags = m.retags
    /\ n.lastLoad = m.lastLoad /\ n.uncertain = m.uncertain

\* What waits in the lane of mutations goes on waiting there.
Holds(p, q) == \A k \in 1..Len(p.mutation) : k \in 1..Len(q.mutation) /\ q.mutation[k] = p.mutation[k]

\* From w to v no generation changes, and a card may only begin to wait.
Calm(w, v) ==
    /\ Shaped(v) /\ Holds(w.p, v.p) /\ Alike(w.m, v.m)
    /\ \A i \in Ids : v.m.conn[i] = w.m.conn[i] \/ v.m.conn[i].is # "connected"

LEMMA HoldsStill == \A p : Holds(p, p)
BY DEF Holds

LEMMA CalmStays ==
    ASSUME NEW w, Shaped(w)
    PROVE  Calm(w, w)
BY HoldsStill DEF Calm, Alike

LEMMA CalmThen ==
    ASSUME NEW u, NEW v, NEW w, Calm(u, v), Calm(v, w)
    PROVE  Calm(u, w)
<1>1. Holds(u.p, w.p)
  BY DEF Calm, Holds
<1>2. Alike(u.m, w.m)
  BY DEF Calm, Alike
<1> QED
  BY <1>1, <1>2 DEF Calm

LEMMA CalmSpends ==
    ASSUME NEW w, Shaped(w), NEW n
    PROVE  Calm(w, [w EXCEPT !.m.nextOp = n])
<1>1. PICK v : v = [w EXCEPT !.m.nextOp = n]
  OBVIOUS
<1>2. PICK m : m = [w.m EXCEPT !.nextOp = n]
  OBVIOUS
<1>3. v = [m |-> m, a |-> w.a, p |-> w.p]
  BY <1>1, <1>2 DEF Shaped
<1>4. ModelShaped(m) /\ Alike(w.m, m) /\ m.conn = w.m.conn
  BY <1>2 DEF Shaped, ModelShaped, Alike
<1> QED
  BY <1>1, <1>3, <1>4, HoldsStill DEF Calm, Shaped

LEMMA CalmWaits ==
    ASSUME NEW w, Shaped(w), NEW id, NEW x, x.is # "connected"
    PROVE  Calm(w, [w EXCEPT !.m.conn[id] = x])
<1>1. PICK conn : conn = [w.m.conn EXCEPT ![id] = x]
  OBVIOUS
<1>2. conn = [i \in Ids |-> conn[i]] /\ \A i \in Ids : conn[i] = w.m.conn[i] \/ conn[i].is # "connected"
  BY <1>1 DEF Shaped, ModelShaped
<1>3. [w EXCEPT !.m.conn[id] = x] = [w EXCEPT !.m = [w.m EXCEPT !.conn = conn]]
  BY <1>1 DEF Shaped
<1>4. PICK m : m = [w.m EXCEPT !.conn = conn]
  OBVIOUS
<1>5. ModelShaped(m) /\ m.conn = conn /\ Alike(w.m, m)
  BY <1>2, <1>4 DEF Shaped, ModelShaped, Alike
<1>6. PICK v : v = [w EXCEPT !.m.conn[id] = x]
  OBVIOUS
<1>7. v = [m |-> m, a |-> w.a, p |-> w.p]
  BY <1>3, <1>4, <1>6 DEF Shaped
<1>8. Calm(w, v)
  BY <1>2, <1>5, <1>7, HoldsStill DEF Calm, Shaped
<1> QED
  BY <1>6, <1>8

LEMMA CalmExecutes ==
    ASSUME NEW w, Shaped(w), NEW x
    PROVE  Calm(w, [w EXCEPT !.m.executing = x])
<1>1. PICK v : v = [w EXCEPT !.m.executing = x]
  OBVIOUS
<1>2. PICK m : m = [w.m EXCEPT !.executing = x]
  OBVIOUS
<1>3. v = [m |-> m, a |-> w.a, p |-> w.p]
  BY <1>1, <1>2 DEF Shaped
<1>4. ModelShaped(m) /\ Alike(w.m, m) /\ m.conn = w.m.conn
  BY <1>2 DEF Shaped, ModelShaped, Alike
<1> QED
  BY <1>1, <1>3, <1>4, HoldsStill DEF Calm, Shaped

LEMMA CalmFails ==
    ASSUME NEW w, Shaped(w), NEW x
    PROVE  Calm(w, [w EXCEPT !.m.failures = x])
<1>1. PICK v : v = [w EXCEPT !.m.failures = x]
  OBVIOUS
<1>2. PICK m : m = [w.m EXCEPT !.failures = x]
  OBVIOUS
<1>3. v = [m |-> m, a |-> w.a, p |-> w.p]
  BY <1>1, <1>2 DEF Shaped
<1>4. ModelShaped(m) /\ Alike(w.m, m) /\ m.conn = w.m.conn
  BY <1>2 DEF Shaped, ModelShaped, Alike
<1> QED
  BY <1>1, <1>3, <1>4, HoldsStill DEF Calm, Shaped

\* A command goes into a lane of the port.
LEMMA PortSends ==
    ASSUME NEW p, PortShaped(p), NEW c, CommandShaped(c)
    PROVE  PortShaped(Sent(p, c)) /\ Holds(p, Sent(p, c))
<1>1. CASE Coalesced(p, c)
  BY <1>1, HoldsStill DEF Sent
<1>2. CASE ~Coalesced(p, c)
  <2>1. Lane(c.kind) \in {"control", "mutation", "work"}
    BY DEF Lane
  <2>2. PICK keys : keys = IF Lane(c.kind) = "control" THEN p.keys \cup {ControlKey(c)} ELSE p.keys
    OBVIOUS
  <2>3. Sent(p, c) = [p EXCEPT ![Lane(c.kind)] = Append(@, c), !.keys = keys]
    BY <1>2, <2>1, <2>2 DEF Sent, PortShaped
  <2>4. CASE Lane(c.kind) # "mutation"
    <3>1. Sent(p, c).mutation = p.mutation
      BY <2>1, <2>3, <2>4 DEF PortShaped
    <3>2. Sent(p, c) = [control |-> Sent(p, c).control, mutation |-> Sent(p, c).mutation,
                        work |-> Sent(p, c).work, keys |-> Sent(p, c).keys]
      BY <2>1, <2>3 DEF PortShaped
    <3> QED
      BY <3>1, <3>2 DEF PortShaped, Holds
  <2>5. CASE Lane(c.kind) = "mutation"
    <3>1. PICK t : t = Append(p.mutation, c)
      OBVIOUS
    <3>2. /\ Queue(t) /\ Len(t) = Len(p.mutation) + 1 /\ t[Len(p.mutation) + 1] = c
          /\ \A k \in 1..Len(p.mutation) : t[k] = p.mutation[k]
      <4>1. PICK s : s = p.mutation
        OBVIOUS
      <4>2. Queue(s) /\ t = Append(s, c)
        BY <3>1, <4>1 DEF PortShaped
      <4>3. /\ Queue(t) /\ Len(t) = Len(s) + 1 /\ t[Len(s) + 1] = c
            /\ \A k \in 1..Len(s) : t[k] = s[k]
        BY <4>2, QueueGrows
      <4> QED
        BY <4>1, <4>3
    <3>3. \A k \in 1..Len(t) : CommandShaped(t[k])
      <4>1. \A k \in 1..Len(t) : k \in 1..Len(p.mutation) \/ k = Len(p.mutation) + 1
        BY <3>2 DEF PortShaped, Queue
      <4> QED
        BY <3>2, <4>1 DEF PortShaped
    <3>4. Sent(p, c) = [control |-> p.control, mutation |-> t, work |-> p.work, keys |-> keys]
      BY <2>3, <2>5, <3>1 DEF PortShaped
    <3>5. Len(p.mutation) \in Nat
      BY DEF PortShaped, Queue
    <3>6. \A k \in 1..Len(p.mutation) : k \in 1..Len(t) /\ t[k] = p.mutation[k]
      BY <3>2, <3>5
    <3>7. Holds(p, Sent(p, c))
      BY <3>4, <3>6 DEF Holds
    <3> QED
      BY <3>2, <3>3, <3>4, <3>7 DEF PortShaped
  <2> QED
    BY <2>4, <2>5
<1> QED
  BY <1>1, <1>2

LEMMA CalmSends ==
    ASSUME NEW w, Shaped(w), NEW c, CommandShaped(c)
    PROVE  Calm(w, [w EXCEPT !.p = Sent(@, c)])
<1>1. PortShaped(Sent(w.p, c)) /\ Holds(w.p, Sent(w.p, c))
  BY PortSends DEF Shaped
<1> QED
  BY <1>1 DEF Calm, Shaped, Alike

\* A command about a profile, or any but a save.
LEMMA CommandMade ==
    ASSUME NEW m, NEW kind, NEW id, NEW gen, kind \notin {"create", "update"}
    PROVE  CommandShaped(Command(m, kind, id, gen)) /\ Command(m, kind, id, gen).kind = kind
BY DEF CommandShaped, Command

\* The two outcomes of try_submit
LEMMA TrySends ==
    ASSUME NEW w, Shaped(w), NEW c, CommandShaped(c), NEW u, u = [w EXCEPT !.m.nextOp = c.op + 1],
           NEW v, v = [u EXCEPT !.p = Sent(@, c)]
    PROVE  Calm(w, u) /\ Shaped(u) /\ Calm(w, v) /\ Shaped(v)
<1>1. Calm(w, u) /\ Shaped(u)
  BY CalmSpends DEF Calm
<1>2. Calm(u, v)
  BY <1>1, CalmSends
<1> QED
  BY <1>1, <1>2, CalmThen DEF Calm

\* Besides the application's own state, a card begins to wait.
LEMMA CalmCard ==
    ASSUME NEW w, Shaped(w), NEW id, NEW x, x.is # "connected", NEW v, v = [m |-> v.m, a |-> v.a, p |-> v.p],
           v.m = [w.m EXCEPT !.conn[id] = x], v.p = w.p, AppShaped(v.a)
    PROVE  Calm(w, v)
<1>1. PICK u : u = [w EXCEPT !.m.conn[id] = x]
  OBVIOUS
<1>2. Calm(w, u) /\ u.m = v.m /\ u.p = v.p
  BY <1>1, CalmWaits DEF Shaped
<1> QED
  BY <1>2 DEF Calm, Shaped

\* Only the application's own state changes.
LEMMA CalmApp ==
    ASSUME NEW w, Shaped(w), NEW v, v = [m |-> v.m, a |-> v.a, p |-> v.p], v.m = w.m, v.p = w.p,
           AppShaped(v.a)
    PROVE  Calm(w, v)
BY HoldsStill DEF Calm, Shaped, Alike

LEMMA CalmCancelPrompt ==
    ASSUME NEW w, Shaped(w)
    PROVE  Calm(w, CancelPrompt(w))
<1>1. PICK v : v = CancelPrompt(w)
  OBVIOUS
<1>2. v = [m |-> w.m, a |-> v.a, p |-> w.p]
  BY <1>1 DEF CancelPrompt, Shaped
<1>3. AppShaped(v.a)
  BY <1>1 DEF CancelPrompt, Shaped, AppShaped, Without
<1>4. Calm(w, v)
  BY <1>2, <1>3, CalmApp
<1> QED
  BY <1>1, <1>4

LEMMA CalmOpenPrompt ==
    ASSUME NEW w, Shaped(w), NEW id, NEW gen, NEW source, NEW recipe
    PROVE  Calm(w, OpenPrompt(w, id, gen, source, recipe))
<1>1. PICK v : v = OpenPrompt(w, id, gen, source, recipe)
  OBVIOUS
<1>2. PICK u : u = CancelPrompt(w)
  OBVIOUS
<1>3. Calm(w, u) /\ Shaped(u)
  BY <1>2, CalmCancelPrompt DEF Calm
<1>4. v = [m |-> u.m, a |-> v.a, p |-> u.p] \/ v = [m |-> w.m, a |-> v.a, p |-> w.p]
  BY <1>1, <1>2, <1>3 DEF OpenPrompt, Shaped
<1>0. AppShaped(v.a)
  BY <1>1, <1>2, <1>3 DEF OpenPrompt, Shaped, AppShaped, Without
<1>5. CASE v = [m |-> u.m, a |-> v.a, p |-> u.p]
  <2>1. Calm(u, v)
    BY <1>0, <1>3, <1>5, CalmApp
  <2> QED
    BY <1>1, <1>3, <2>1, CalmThen
<1>6. CASE v = [m |-> w.m, a |-> v.a, p |-> w.p]
  <2>1. Calm(w, v)
    BY <1>0, <1>6, CalmApp
  <2> QED
    BY <1>1, <2>1
<1> QED
  BY <1>4, <1>5, <1>6

LEMMA CalmOpenSessionPrompt ==
    ASSUME NEW w, Shaped(w), NEW id
    PROVE  Calm(w, OpenSessionPrompt(w, id))
<1>1. PICK seed : seed = Command(w.m, "connect", id, w.m.profiles[id].gen)
  OBVIOUS
<1>2. PICK u : u = [w EXCEPT !.m.nextOp = @ + 1, !.a.recipes = @ \cup {Recipe(seed)}]
  OBVIOUS
<1>3. PICK v : v = OpenPrompt(u, id, w.m.profiles[id].gen, "connect", seed.op)
  OBVIOUS
<1>4. OpenSessionPrompt(w, id) \in {w, v}
  BY <1>1, <1>2, <1>3 DEF OpenSessionPrompt
<1>5. PICK n : n = w.m.nextOp + 1
  OBVIOUS
<1>6. PICK x : x = [w EXCEPT !.m.nextOp = n]
  OBVIOUS
<1>7. Calm(w, x) /\ Shaped(x)
  BY <1>6, CalmSpends DEF Calm
<1>8. u = [m |-> x.m, a |-> u.a, p |-> x.p] /\ AppShaped(u.a)
  <2>1. u = [m |-> x.m, a |-> u.a, p |-> x.p] /\ u.a = [w.a EXCEPT !.recipes = w.a.recipes \cup {Recipe(seed)}]
    BY <1>2, <1>5, <1>6 DEF Shaped
  <2>2. Recipe(seed).kind = "connect"
    BY <1>1 DEF Recipe, Command
  <2> QED
    BY <2>1, <2>2 DEF Shaped, AppShaped
<1>9. Calm(w, u) /\ Shaped(u)
  BY <1>7, <1>8, CalmApp, CalmThen DEF Calm
<1>10. Calm(w, v)
  BY <1>3, <1>9, CalmOpenPrompt, CalmThen
<1> QED
  BY <1>4, <1>10, CalmStays

LEMMA CalmSubmitPrompt ==
    ASSUME NEW w, Shaped(w)
    PROVE  Calm(w, SubmitPrompt(w))
<1>1. PICK c : c = Command(w.m, "store", w.a.prompt.id, w.a.prompt.gen)
  OBVIOUS
<1>2. PICK u : u = [w EXCEPT !.m.nextOp = c.op + 1]
  OBVIOUS
<1>3. PICK v : v = [u EXCEPT !.p = Sent(@, c)]
  OBVIOUS
<1>4. Calm(w, u) /\ Shaped(u) /\ Calm(w, v) /\ Shaped(v)
  BY <1>1, <1>2, <1>3, CommandMade, TrySends
<1>5. PICK x : x = [v EXCEPT !.a.prompt.store = c.op]
  OBVIOUS
<1>6. Calm(w, x)
  <2>1. x = [m |-> v.m, a |-> x.a, p |-> v.p] /\ AppShaped(x.a)
    BY <1>4, <1>5 DEF Shaped, AppShaped
  <2>2. Calm(v, x)
    BY <1>4, <2>1, CalmApp
  <2> QED
    BY <1>4, <2>2, CalmThen
<1>7. SubmitPrompt(w) \in {w, CancelPrompt(w), u, x}
  BY <1>1, <1>2, <1>3, <1>5 DEF SubmitPrompt, TrySubmit
<1> QED
  BY <1>4, <1>6, <1>7, CalmStays, CalmCancelPrompt

LEMMA CalmSubmitRefresh ==
    ASSUME NEW w, Shaped(w)
    PROVE  Calm(w, SubmitRefresh(w))
<1>1. PICK c : c = Command(w.m, "refresh", NoId, NoGen)
  OBVIOUS
<1>2. PICK u : u = [w EXCEPT !.m.nextOp = c.op + 1]
  OBVIOUS
<1>3. PICK v : v = [u EXCEPT !.p = Sent(@, c)]
  OBVIOUS
<1>4. Calm(w, u) /\ Calm(w, v)
  BY <1>1, <1>2, <1>3, CommandMade, TrySends
<1>5. SubmitRefresh(w) \in {u, v}
  BY <1>1, <1>2, <1>3 DEF SubmitRefresh, TrySubmit
<1> QED
  BY <1>4, <1>5

LEMMA CalmSubmitAttempt ==
    ASSUME NEW w, Shaped(w), NEW kind \in {"connect", "reconnect"}, NEW id, NEW gen
    PROVE  Calm(w, SubmitAttempt(w, kind, id, gen))
<1>1. PICK c : c = Command(w.m, kind, id, gen)
  OBVIOUS
<1>2. PICK u : u = [w EXCEPT !.m.nextOp = c.op + 1]
  OBVIOUS
<1>3. PICK v : v = [u EXCEPT !.p = Sent(@, c)]
  OBVIOUS
<1>4. Calm(w, u) /\ Shaped(u) /\ Calm(w, v) /\ Shaped(v)
  BY <1>1, <1>2, <1>3, CommandMade, TrySends
<1>5. PICK x : x = [v EXCEPT !.a.recipes = @ \cup {Recipe(c)}, !.m.conn[id] = Pending(c.op),
                             !.a.ops[id] = ActiveOperation(c)]
  OBVIOUS
<1>6. Calm(w, x)
  <2>1. PICK s : s = Pending(c.op)
    OBVIOUS
  <2>2. s.is # "connected"
    BY <2>1 DEF Pending
  <2>3. x = [m |-> x.m, a |-> x.a, p |-> x.p] /\ x.m = [v.m EXCEPT !.conn[id] = s] /\ x.p = v.p
    BY <1>4, <1>5, <2>1 DEF Shaped
  <2>4. AppShaped(x.a)
    <3>1. Recipe(c).kind \in {"connect", "reconnect", "browse"}
      BY <1>1 DEF Recipe, Command
    <3> QED
      BY <1>4, <1>5, <3>1 DEF Shaped, AppShaped
  <2>5. Calm(v, x)
    BY <1>4, <2>2, <2>3, <2>4, CalmCard
  <2> QED
    BY <1>4, <2>5, CalmThen
<1>7. SubmitAttempt(w, kind, id, gen) \in {w, u, x}
  BY <1>1, <1>2, <1>3, <1>5 DEF SubmitAttempt, TrySubmit
<1> QED
  BY <1>4, <1>6, <1>7, CalmStays

LEMMA CalmSubmitTest ==
    ASSUME NEW w, Shaped(w), NEW id
    PROVE  Calm(w, SubmitTest(w, id))
<1>1. SubmitTest(w, id) \in {w, OpenSessionPrompt(w, id), SubmitAttempt(w, "connect", id, w.m.profiles[id].gen)}
  BY DEF SubmitTest
<1> QED
  BY <1>1, CalmStays, CalmOpenSessionPrompt, CalmSubmitAttempt

LEMMA CalmSubmitDisconnect ==
    ASSUME NEW w, Shaped(w), NEW id
    PROVE  Calm(w, SubmitDisconnect(w, id))
<1>1. PICK c : c = Command(w.m, "disconnect", id, w.m.active[id])
  OBVIOUS
<1>2. PICK u : u = [w EXCEPT !.m.nextOp = c.op + 1]
  OBVIOUS
<1>3. PICK v : v = [u EXCEPT !.p = Sent(@, c)]
  OBVIOUS
<1>4. Calm(w, u) /\ Shaped(u) /\ Calm(w, v) /\ Shaped(v)
  BY <1>1, <1>2, <1>3, CommandMade, TrySends
<1>5. PICK x : x = [v EXCEPT !.m.conn[id] = Pending(c.op), !.a.ops[id] = ActiveOperation(c)]
  OBVIOUS
<1>6. Calm(w, x)
  <2>1. PICK s : s = Pending(c.op)
    OBVIOUS
  <2>2. s.is # "connected"
    BY <2>1 DEF Pending
  <2>3. x = [m |-> x.m, a |-> x.a, p |-> x.p] /\ x.m = [v.m EXCEPT !.conn[id] = s] /\ x.p = v.p
    BY <1>4, <1>5, <2>1 DEF Shaped
  <2>4. AppShaped(x.a)
    BY <1>4, <1>5 DEF Shaped, AppShaped
  <2>5. Calm(v, x)
    BY <1>4, <2>2, <2>3, <2>4, CalmCard
  <2> QED
    BY <1>4, <2>5, CalmThen
<1>7. SubmitDisconnect(w, id) \in {w, u, x}
  BY <1>1, <1>2, <1>3, <1>5 DEF SubmitDisconnect, TrySubmit
<1> QED
  BY <1>4, <1>6, <1>7, CalmStays

LEMMA CalmSubmitReconnect ==
    ASSUME NEW w, Shaped(w), NEW id
    PROVE  Calm(w, SubmitReconnect(w, id))
<1>1. SubmitReconnect(w, id) \in {w, SubmitAttempt(w, "reconnect", id, w.m.active[id])}
  BY DEF SubmitReconnect
<1> QED
  BY <1>1, CalmStays, CalmSubmitAttempt

\* What runs, what failed and the numbering are of no matter.
LEMMA CalmModel ==
    ASSUME NEW w, Shaped(w), NEW executing, NEW failures, NEW v, v = [m |-> v.m, a |-> v.a, p |-> v.p],
           v.m = [w.m EXCEPT !.executing = executing, !.failures = failures], v.p = w.p, AppShaped(v.a)
    PROVE  Calm(w, v)
<1>1. ModelShaped(v.m) /\ v.m.conn = w.m.conn /\ Alike(w.m, v.m)
  BY DEF Shaped, ModelShaped, Alike
<1> QED
  BY <1>1, HoldsStill DEF Calm, Shaped

LEMMA CalmSubmitExecute ==
    ASSUME NEW w, Shaped(w), NEW id
    PROVE  Calm(w, SubmitExecute(w, id))
<1>0. PICK gen : gen = w.m.profiles[id].gen
  OBVIOUS
<1>1. PICK c : c = Command(w.m, "execute", id, gen)
  OBVIOUS
<1>2. PICK u : u = [w EXCEPT !.m.nextOp = c.op + 1]
  OBVIOUS
<1>3. PICK v : v = [u EXCEPT !.p = Sent(@, c)]
  OBVIOUS
<1>4. Calm(w, u) /\ Shaped(u) /\ Calm(w, v) /\ Shaped(v)
  BY <1>1, <1>2, <1>3, CommandMade, TrySends
<1>5. PICK x : x = [v EXCEPT !.m.executing = @ \cup {[id |-> id, gen |-> gen, op |-> c.op]},
                             !.a.ops[id] = ActiveOperation(c)]
  OBVIOUS
<1>6. Calm(w, x)
  <2>1. PICK executing : executing = v.m.executing \cup {[id |-> id, gen |-> gen, op |-> c.op]}
    OBVIOUS
  <2>2. x = [m |-> x.m, a |-> x.a, p |-> x.p] /\ x.m = [v.m EXCEPT !.executing = executing] /\ x.p = v.p
    BY <1>4, <1>5, <2>1 DEF Shaped
  <2>3. x.m = [v.m EXCEPT !.executing = executing, !.failures = v.m.failures]
    BY <1>4, <2>2 DEF Shaped, ModelShaped
  <2>4. AppShaped(x.a)
    BY <1>4, <1>5 DEF Shaped, AppShaped
  <2>5. Calm(v, x)
    BY <1>4, <2>2, <2>3, <2>4, CalmModel
  <2> QED
    BY <1>4, <2>5, CalmThen
<1>7. SubmitExecute(w, id) \in {w, u, x}
  BY <1>0, <1>1, <1>2, <1>3, <1>5 DEF SubmitExecute, TrySubmit
<1> QED
  BY <1>4, <1>6, <1>7, CalmStays

LEMMA CalmSubmitCancel ==
    ASSUME NEW w, Shaped(w), NEW op
    PROVE  Calm(w, SubmitCancel(w, op))
<1>1. PICK c : c = [Command(w.m, "cancel", NoId, NoGen) EXCEPT !.op = op]
  OBVIOUS
<1>2. CommandShaped(c)
  BY <1>1 DEF Command, CommandShaped
<1>3. SubmitCancel(w, op) \in {w, [w EXCEPT !.p = Sent(@, c)]}
  BY <1>1 DEF SubmitCancel
<1> QED
  BY <1>2, <1>3, CalmStays, CalmSends

LEMMA CalmSubmitBrowseExact ==
    ASSUME NEW w, Shaped(w), NEW id, NEW gen
    PROVE  Calm(w, SubmitBrowseExact(w, id, gen))
<1>1. PICK c : c = Command(w.m, "browse", id, gen)
  OBVIOUS
<1>2. PICK u : u = [w EXCEPT !.m.nextOp = c.op + 1]
  OBVIOUS
<1>3. PICK v : v = [u EXCEPT !.p = Sent(@, c)]
  OBVIOUS
<1>4. Calm(w, u) /\ Shaped(u) /\ Calm(w, v) /\ Shaped(v)
  BY <1>1, <1>2, <1>3, CommandMade, TrySends
<1>5. PICK x : x = [v EXCEPT !.a.recipes = @ \cup {Recipe(c)}, !.a.ops[id] = ActiveOperation(c)]
  OBVIOUS
<1>6. Calm(w, x)
  <2>1. x = [m |-> v.m, a |-> x.a, p |-> v.p]
    BY <1>4, <1>5 DEF Shaped
  <2>2. AppShaped(x.a)
    <3>1. Recipe(c).kind \in {"connect", "reconnect", "browse"}
      BY <1>1 DEF Recipe, Command
    <3> QED
      BY <1>4, <1>5, <3>1 DEF Shaped, AppShaped
  <2>3. Calm(v, x)
    BY <1>4, <2>1, <2>2, CalmApp
  <2> QED
    BY <1>4, <2>3, CalmThen
<1>7. SubmitBrowseExact(w, id, gen) \in {w, u, x}
  BY <1>1, <1>2, <1>3, <1>5 DEF SubmitBrowseExact, TrySubmit
<1> QED
  BY <1>4, <1>6, <1>7, CalmStays

LEMMA CalmSubmitBrowse ==
    ASSUME NEW w, Shaped(w), NEW id
    PROVE  Calm(w, SubmitBrowse(w, id))
<1>1. SubmitBrowse(w, id) \in {w, SubmitBrowseExact(w, id, w.m.profiles[id].gen)}
  BY DEF SubmitBrowse
<1> QED
  BY <1>1, CalmStays, CalmSubmitBrowseExact

LEMMA CalmRetryRecipe ==
    ASSUME NEW w, Shaped(w), NEW op, NEW kind
    PROVE  Calm(w, RetryRecipe(w, op, kind))
<1>1. PICK v : v = [w EXCEPT !.a.recipes = Without(@, op)]
  OBVIOUS
<1>2. v = [m |-> w.m, a |-> v.a, p |-> w.p] /\ AppShaped(v.a)
  BY <1>1 DEF Shaped, AppShaped, Without
<1>3. Calm(w, v) /\ Shaped(v)
  BY <1>2, CalmApp DEF Calm
<1> DEFINE current(r) == r.op = op /\ r.kind = kind /\ ~w.m.uncertain /\ w.m.active[r.id] = r.gen
<1>4. CASE ~\E r \in w.a.recipes : current(r)
  <2>1. RetryRecipe(w, op, kind) = v
    BY <1>1, <1>4 DEF RetryRecipe
  <2> QED
    BY <1>3, <2>1
<1>5. CASE \E r \in w.a.recipes : current(r)
  <2>1. PICK r : r = CHOOSE x \in w.a.recipes : current(x)
    OBVIOUS
  <2>2. r \in w.a.recipes /\ r.kind = kind
    BY <1>5, <2>1
  <2>3. kind \in {"connect", "reconnect", "browse"}
    BY <2>2 DEF Shaped, AppShaped
  <2>4. RetryRecipe(w, op, kind) = IF kind = "browse" THEN SubmitBrowseExact(v, r.id, r.gen)
                                   ELSE SubmitAttempt(v, kind, r.id, r.gen)
    BY <1>1, <1>5, <2>1 DEF RetryRecipe
  <2>5. CASE kind = "browse"
    <3>1. Calm(v, SubmitBrowseExact(v, r.id, r.gen))
      BY <1>3, CalmSubmitBrowseExact
    <3> QED
      BY <1>3, <2>4, <2>5, <3>1, CalmThen
  <2>6. CASE kind # "browse"
    <3>1. Calm(v, SubmitAttempt(v, kind, r.id, r.gen))
      BY <1>3, <2>3, <2>6, CalmSubmitAttempt
    <3> QED
      BY <1>3, <2>4, <2>6, <3>1, CalmThen
  <2> QED
    BY <2>5, <2>6
<1> QED
  BY <1>4, <1>5

LEMMA CalmDismiss ==
    ASSUME NEW w, Shaped(w), NEW f
    PROVE  Calm(w, Dismiss(w, f))
<1>1. PICK v : v = Dismiss(w, f)
  OBVIOUS
<1>2. PICK failures : failures = {x \in w.m.failures : x.op # f.op}
  OBVIOUS
<1>3. v = [m |-> v.m, a |-> v.a, p |-> v.p] /\ v.m = [w.m EXCEPT !.failures = failures] /\ v.p = w.p
  BY <1>1, <1>2 DEF Dismiss, Shaped
<1>4. v.m = [w.m EXCEPT !.executing = w.m.executing, !.failures = failures]
  BY <1>3 DEF Shaped, ModelShaped
<1>5. AppShaped(v.a)
  BY <1>1 DEF Dismiss, Shaped, AppShaped, Without
<1>6. Calm(w, v)
  BY <1>3, <1>4, <1>5, CalmModel
<1> QED
  BY <1>1, <1>6

LEMMA CalmRecoverCredential ==
    ASSUME NEW w, Shaped(w), NEW f
    PROVE  Calm(w, RecoverCredential(w, f))
<1>1. \E recipe : RecoverCredential(w, f) \in {w, OpenPrompt(w, f.id, w.m.active[f.id], f.of, recipe)}
  BY DEF RecoverCredential
<1> QED
  BY <1>1, CalmStays, CalmOpenPrompt

LEMMA EditorsOpened ==
    /\ EditorShaped(NoEditor) /\ EditorShaped([NoEditor EXCEPT !.mode = "add"])
    /\ \A id, gen, secret :
          EditorShaped([NoEditor EXCEPT !.mode = "edit", !.id = id, !.gen = gen, !.secret = secret])
<1>1. EditorShaped(NoEditor) /\ NoEditor.gen = NoGen
  BY DEF EditorShaped, NoEditor
<1>2. PICK x : x = [NoEditor EXCEPT !.mode = "add"]
  OBVIOUS
<1>3. EditorShaped(x)
  BY <1>1, <1>2 DEF EditorShaped
<1>4. ASSUME NEW id, NEW gen, NEW secret
      PROVE  EditorShaped([NoEditor EXCEPT !.mode = "edit", !.id = id, !.gen = gen, !.secret = secret])
  <2>1. PICK y : y = [NoEditor EXCEPT !.mode = "edit", !.id = id, !.gen = gen, !.secret = secret]
    OBVIOUS
  <2>2. y = [mode |-> "edit", id |-> id, gen |-> gen, secret |-> secret, save |-> NoEditor.save,
             connect |-> NoEditor.connect, uncertain |-> NoEditor.uncertain]
    BY <2>1 DEF NoEditor
  <2> QED
    BY <2>1, <2>2 DEF EditorShaped
<1> QED
  BY <1>1, <1>2, <1>3, <1>4

LEMMA EditorStays ==
    ASSUME NEW x, EditorShaped(x), NEW y, NEW z
    PROVE  /\ EditorShaped([x EXCEPT !.save = y]) /\ EditorShaped([x EXCEPT !.uncertain = y])
           /\ EditorShaped([x EXCEPT !.save = y, !.connect = z])
<1>1. PICK a : a = [x EXCEPT !.save = y]
  OBVIOUS
<1>2. PICK b : b = [x EXCEPT !.uncertain = y]
  OBVIOUS
<1>3. PICK c : c = [x EXCEPT !.save = y, !.connect = z]
  OBVIOUS
<1>4. EditorShaped(a)
  BY <1>1 DEF EditorShaped
<1>5. EditorShaped(b)
  BY <1>2 DEF EditorShaped
<1>6. EditorShaped(c)
  BY <1>3 DEF EditorShaped
<1> QED
  BY <1>1, <1>2, <1>3, <1>4, <1>5, <1>6

LEMMA CalmEditor ==
    ASSUME NEW w, Shaped(w), NEW x, EditorShaped(x)
    PROVE  Calm(w, [w EXCEPT !.a.editor = x])
<1>1. PICK u : u = [w EXCEPT !.a.editor = x]
  OBVIOUS
<1>2. u = [m |-> w.m, a |-> u.a, p |-> w.p] /\ AppShaped(u.a)
  BY <1>1 DEF Shaped, AppShaped
<1> QED
  BY <1>1, <1>2, CalmApp

LEMMA CalmConfirm ==
    ASSUME NEW w, Shaped(w), NEW x
    PROVE  Calm(w, [w EXCEPT !.a.confirm = x])
<1>1. PICK u : u = [w EXCEPT !.a.confirm = x]
  OBVIOUS
<1>2. u = [m |-> w.m, a |-> u.a, p |-> w.p] /\ AppShaped(u.a)
  BY <1>1 DEF Shaped, AppShaped
<1> QED
  BY <1>1, <1>2, CalmApp

LEMMA CalmOpenEditor ==
    ASSUME NEW w, Shaped(w), NEW id
    PROVE  Calm(w, OpenEditor(w, id))
BY CalmEditor, EditorsOpened DEF OpenEditor

LEMMA CalmNewEditor ==
    ASSUME NEW w, Shaped(w)
    PROVE  Calm(w, NewEditor(w))
BY CalmEditor, EditorsOpened DEF NewEditor

LEMMA CalmCancelEditor ==
    ASSUME NEW w, Shaped(w)
    PROVE  Calm(w, CancelEditor(w))
BY CalmEditor, CalmStays, EditorsOpened DEF CancelEditor

LEMMA CalmSubmitSave ==
    ASSUME NEW w, Shaped(w), NEW body, body # NoBody, NEW secret, NEW connect
    PROVE  Calm(w, SubmitSave(w, body, secret, connect))
<1>0. PICK kind : kind = IF w.a.editor.mode = "add" THEN "create" ELSE "update"
  OBVIOUS
<1>1. PICK c : c = [Command(w.m, kind, w.a.editor.id, w.a.editor.gen) EXCEPT !.body = body, !.secret = secret]
  OBVIOUS
<1>2. PICK u : u = [w EXCEPT !.m.nextOp = c.op + 1]
  OBVIOUS
<1>3. PICK v : v = [u EXCEPT !.p = Sent(@, c)]
  OBVIOUS
<1>4. CommandShaped(c)
  <2>1. kind = "create" => w.a.editor.gen = NoGen
    BY <1>0 DEF Shaped, AppShaped, EditorShaped
  <2>2. kind \in {"create", "update"}
    BY <1>0
  <2> QED
    BY <1>1, <2>1, <2>2 DEF Command, CommandShaped
<1>5. Calm(w, u) /\ Shaped(u) /\ Calm(w, v) /\ Shaped(v)
  BY <1>2, <1>3, <1>4, TrySends
<1>6. PICK x : x = [v EXCEPT !.a.editor.save = c.op, !.a.editor.connect = connect]
  OBVIOUS
<1>7. x = [m |-> v.m, a |-> x.a, p |-> v.p] /\ AppShaped(x.a)
  <2>1. PICK editor : editor = [v.a.editor EXCEPT !.save = c.op, !.connect = connect]
    OBVIOUS
  <2>2. EditorShaped(editor)
    BY <1>5, <2>1, EditorStays DEF Shaped, AppShaped
  <2>3. x = [v EXCEPT !.a.editor = editor]
    BY <1>5, <1>6, <2>1 DEF Shaped, AppShaped, EditorShaped
  <2> QED
    BY <1>5, <2>2, <2>3 DEF Shaped, AppShaped
<1>8. Calm(v, x)
  BY <1>5, <1>7, CalmApp
<1>9. SubmitSave(w, body, secret, connect) \in {u, x}
  BY <1>0, <1>1, <1>2, <1>3, <1>6 DEF SubmitSave, TrySubmit
<1> QED
  BY <1>5, <1>8, <1>9, CalmThen

LEMMA CalmConfirmDelete ==
    ASSUME NEW w, Shaped(w)
    PROVE  Calm(w, ConfirmDelete(w))
<1>0. PICK id : id = w.a.confirm.id
  OBVIOUS
<1>1. PICK c : c = Command(w.m, "delete", id, w.a.confirm.gen)
  OBVIOUS
<1>2. PICK u : u = [w EXCEPT !.m.nextOp = c.op + 1]
  OBVIOUS
<1>3. PICK v : v = [u EXCEPT !.p = Sent(@, c)]
  OBVIOUS
<1>4. Calm(w, u) /\ Shaped(u) /\ Calm(w, v) /\ Shaped(v)
  BY <1>1, <1>2, <1>3, CommandMade, TrySends
<1>5. PICK x : x = [v EXCEPT !.a.confirm = NoConfirmation,
                             !.m.conn[id] = Closing,
                             !.a.ops[id] = ActiveOperation(c),
                             !.a.deletes[id] = [op |-> c.op, gen |-> c.gen, prior |-> w.a.ops[id],
                                                finished |-> FALSE]]
  OBVIOUS
<1>6. Calm(w, x)
  <2>1. PICK s : s = Closing
    OBVIOUS
  <2>2. s.is # "connected"
    BY <2>1 DEF Closing
  <2>3. x = [m |-> x.m, a |-> x.a, p |-> x.p] /\ x.m = [v.m EXCEPT !.conn[id] = s] /\ x.p = v.p
    BY <1>4, <1>5, <2>1 DEF Shaped
  <2>4. AppShaped(x.a)
    BY <1>4, <1>5 DEF Shaped, AppShaped
  <2>5. Calm(v, x)
    BY <1>4, <2>2, <2>3, <2>4, CalmCard
  <2> QED
    BY <1>4, <2>5, CalmThen
<1>7. PICK y : y = [w EXCEPT !.a.confirm = NoConfirmation]
  OBVIOUS
<1>8. Calm(w, y)
  BY <1>7, CalmConfirm
<1>9. ConfirmDelete(w) \in {y, u, x}
  BY <1>0, <1>1, <1>2, <1>3, <1>5, <1>7 DEF ConfirmDelete, TrySubmit
<1> QED
  BY <1>4, <1>6, <1>8, <1>9

LEMMA CalmEndFrame ==
    ASSUME NEW w, Shaped(w)
    PROVE  Calm(w, EndFrame(w))
<1> DEFINE current(x, i) == w.m.active[i] # NoGen /\ x.gen = w.m.active[i]
<1>1. PICK a : a = [w.a EXCEPT
                !.ops = [i \in Ids |-> IF current(@[i], i) THEN @[i] ELSE Idle],
                !.deletes = [i \in Ids |-> IF current(@[i], i) THEN @[i] ELSE NoDelete],
                !.recipes = {r \in @ : current(r, r.id)},
                !.editor = IF @ = NoEditor THEN @ ELSE [@ EXCEPT !.uncertain = w.m.uncertain]]
  OBVIOUS
<1>2. PICK v : v = [w EXCEPT !.a = a]
  OBVIOUS
<1>3. AppShaped(a)
  <2>1. PICK editor : editor = IF w.a.editor = NoEditor THEN w.a.editor
                               ELSE [w.a.editor EXCEPT !.uncertain = w.m.uncertain]
    OBVIOUS
  <2>2. EditorShaped(editor)
    BY <2>1, EditorStays DEF Shaped, AppShaped
  <2>3. a.editor = editor /\ \A r \in a.recipes : r \in w.a.recipes
    BY <1>1, <2>1 DEF Shaped, AppShaped
  <2>4. a = [ops |-> a.ops, deletes |-> a.deletes, recipes |-> a.recipes, prompt |-> a.prompt, error |-> a.error,
             confirm |-> a.confirm, editor |-> a.editor, followUp |-> a.followUp]
    BY <1>1 DEF Shaped, AppShaped
  <2> QED
    BY <2>2, <2>3, <2>4 DEF Shaped, AppShaped
<1>4. v = [m |-> w.m, a |-> v.a, p |-> w.p] /\ AppShaped(v.a)
  BY <1>2, <1>3 DEF Shaped
<1>5. Calm(w, v) /\ Shaped(v)
  BY <1>4, CalmApp DEF Calm
<1>6. EndFrame(w) \in {v, CancelPrompt(v)}
  BY <1>1, <1>2 DEF EndFrame
<1>7. Calm(v, CancelPrompt(v))
  BY <1>5, CalmCancelPrompt
<1> QED
  BY <1>5, <1>6, <1>7, CalmThen

LEMMA CalmError ==
    ASSUME NEW w, Shaped(w), NEW x
    PROVE  Calm(w, [w EXCEPT !.a.error = x])
<1>1. PICK v : v = [w EXCEPT !.a.error = x]
  OBVIOUS
<1>2. v = [m |-> w.m, a |-> v.a, p |-> w.p] /\ AppShaped(v.a)
  BY <1>1 DEF Shaped, AppShaped
<1>3. Calm(w, v)
  BY <1>2, CalmApp
<1> QED
  BY <1>1, <1>3

LEMMA CalmCaptureError ==
    ASSUME NEW w, Shaped(w), NEW e
    PROVE  Calm(w, CaptureError(w, e))
<1>1. PICK x : x = [op |-> e.op, of |-> e.of, id |-> e.id, gen |-> e.gen, outcome |-> e.outcome]
  OBVIOUS
<1>2. PICK y : y = [NoError EXCEPT !.op = e.op]
  OBVIOUS
<1>3. CaptureError(w, e) \in {w, [w EXCEPT !.a.error = NoError], [w EXCEPT !.a.error = x],
                              [w EXCEPT !.a.error = y]}
  BY <1>1, <1>2 DEF CaptureError
<1>4. Calm(w, [w EXCEPT !.a.error = NoError])
  BY CalmError
<1>5. Calm(w, [w EXCEPT !.a.error = x])
  BY CalmError
<1>6. Calm(w, [w EXCEPT !.a.error = y])
  BY CalmError
<1> QED
  BY <1>3, <1>4, <1>5, <1>6, CalmStays

LEMMA CalmHandleCredential ==
    ASSUME NEW w, Shaped(w), NEW e
    PROVE  Calm(w, HandleCredential(w, e))
<1>1. PICK v : v = [w EXCEPT !.a.prompt = NoPrompt]
  OBVIOUS
<1>2. v = [m |-> w.m, a |-> v.a, p |-> w.p] /\ AppShaped(v.a)
  BY <1>1 DEF Shaped, AppShaped
<1>3. Calm(w, v)
  BY <1>2, CalmApp
<1>4. HandleCredential(w, e) \in {w, v, CancelPrompt(w)}
  BY <1>1 DEF HandleCredential
<1> QED
  BY <1>3, <1>4, CalmStays, CalmCancelPrompt

LEMMA CalmFinishActive ==
    ASSUME NEW w, Shaped(w), NEW e
    PROVE  Calm(w, FinishActive(w, e))
<1>1. PICK v : v = FinishActive(w, e)
  OBVIOUS
<1>2. CASE e.kind = "ConfigUncertain"
  <2>1. v = [w EXCEPT !.a.ops = EmptyApp.ops, !.a.deletes = EmptyApp.deletes, !.a.recipes = {}]
    BY <1>1, <1>2 DEF FinishActive
  <2>2. v = [m |-> w.m, a |-> v.a, p |-> w.p] /\ AppShaped(v.a)
    BY <2>1 DEF Shaped, AppShaped
  <2>3. Calm(w, v)
    BY <2>2, CalmApp
  <2> QED
    BY <1>1, <2>3
<1>3. CASE v = w
  BY <1>1, <1>3, CalmStays
<1>4. CASE e.kind # "ConfigUncertain" /\ v # w
  <2> DEFINE d == w.a.deletes[e.id]
             finished == d.finished \/ (d.prior # Idle /\ d.prior.op = e.op)
             rest == IF w.a.ops[e.id].op = e.op THEN Idle ELSE w.a.ops[e.id]
  <2>1. PICK x, y, z : \/ v = [w EXCEPT !.a.deletes[e.id] = x, !.a.ops[e.id] = y]
                       \/ v = [w EXCEPT !.a.deletes[e.id] = x, !.a.ops[e.id] = y,
                                        !.a.recipes = IF Fails(e) THEN @ ELSE Without(@, e.op)]
    <3>1. CASE e.kind = "OperationFailed" /\ e.of = "delete" /\ d.op = e.op
      BY <1>1, <1>4, <3>1 DEF FinishActive
    <3>2. CASE ~(e.kind = "OperationFailed" /\ e.of = "delete" /\ d.op = e.op)
      BY <1>1, <1>4, <3>2 DEF FinishActive
    <3> QED
      BY <3>1, <3>2
  <2>2. v = [m |-> w.m, a |-> v.a, p |-> w.p]
    BY <2>1 DEF Shaped
  <2>3. AppShaped(v.a)
    <3>1. CASE v = [w EXCEPT !.a.deletes[e.id] = x, !.a.ops[e.id] = y]
      BY <3>1 DEF Shaped, AppShaped
    <3>2. CASE v = [w EXCEPT !.a.deletes[e.id] = x, !.a.ops[e.id] = y,
                             !.a.recipes = IF Fails(e) THEN @ ELSE Without(@, e.op)]
      <4>1. PICK r : r = IF Fails(e) THEN w.a.recipes ELSE Without(w.a.recipes, e.op)
        OBVIOUS
      <4>2. r \subseteq w.a.recipes
        BY <4>1 DEF Without
      <4>3. v = [w EXCEPT !.a.deletes[e.id] = x, !.a.ops[e.id] = y, !.a.recipes = r]
        BY <3>2, <4>1 DEF Shaped, AppShaped
      <4> QED
        BY <4>2, <4>3 DEF Shaped, AppShaped
    <3> QED
      BY <2>1, <3>1, <3>2
  <2>4. Calm(w, v)
    BY <2>2, <2>3, CalmApp
  <2> QED
    BY <1>1, <2>4
<1> QED
  BY <1>2, <1>3, <1>4

-----------------------------------------------------------------------------
(* The fold of an event, and a profile i                                   *)

SoundAt(m, i) == Shown(m, i) /\ CardFits(m, i) /\ Above(m, i)

\* What the event tells is no older than what is active.
Tells(m, e, i) ==
    Told(e, i) # NoGen => /\ m.active[i] <= Told(e, i) /\ Told(e, i) <= Len(service.bodies)
                          /\ service.gens[i] # NoGen => Told(e, i) <= service.gens[i]

Foldable(m, e) ==
    /\ ModelShaped(m) /\ EventSound(e)
    /\ \A i \in Ids : SoundAt(m, i) /\ Tells(m, e, i)

\* n is m after the event.
Folded(m, e, n) ==
    /\ ModelShaped(n)
    /\ \A i \in Ids : n.active[i] \in {m.active[i], NoGen, Told(e, i)} /\ SoundAt(n, i)

\* Only the card of a profile changes, to one that fits.
LEMMA FoldedCard ==
    ASSUME NEW m, NEW e, Foldable(m, e), NEW id, NEW x, NEW executing, NEW failures,
           id \in Ids /\ x.is = "connected" => SessionFits(x.n, m.active[id]),
           NEW n, n = [m EXCEPT !.executing = executing, !.failures = failures, !.conn[id] = x]
    PROVE  Folded(m, e, n)
<1>1. PICK conn : conn = [m.conn EXCEPT ![id] = x]
  OBVIOUS
<1>2. conn = [i \in Ids |-> conn[i]] /\ \A i \in Ids : conn[i] = IF i = id THEN x ELSE m.conn[i]
  BY <1>1 DEF Foldable, ModelShaped
<1>3. n = [m EXCEPT !.executing = executing, !.failures = failures, !.conn = conn]
  BY <1>1 DEF Foldable, ModelShaped
<1>4. /\ ModelShaped(n) /\ n.conn = conn /\ n.profiles = m.profiles /\ n.active = m.active
      /\ n.tombs = m.tombs /\ n.retags = m.retags
  BY <1>2, <1>3 DEF Foldable, ModelShaped
<1>5. \A i \in Ids : CardFits(n, i)
  BY <1>2, <1>4 DEF Foldable, SoundAt, CardFits
<1>6. \A i \in Ids : Shown(n, i) /\ Above(n, i)
  BY <1>4 DEF Foldable, SoundAt, Shown, Above
<1> QED
  BY <1>4, <1>5, <1>6 DEF Folded, SoundAt

LEMMA FoldedNot ==
    ASSUME NEW m, NEW e, Foldable(m, e)
    PROVE  Folded(m, e, m)
BY DEF Foldable, Folded

LEMMA FoldedSaved ==
    ASSUME NEW m, NEW e, Foldable(m, e), e.kind = "ProfileSaved"
    PROVE  Folded(m, e, FoldSaved(m, e))
<1>1. PICK n : n = FoldSaved(m, e)
  OBVIOUS
<1> SUFFICES ASSUME n # m
             PROVE  Folded(m, e, n)
  BY <1>1, FoldedNot
<1>2. /\ e.gen > m.tombs[e.id]
      /\ IF e.prev # NoGen THEN m.active[e.id] \in {e.prev, e.gen} ELSE m.active[e.id] <= e.gen
      /\ n = [m EXCEPT !.active[e.id] = e.gen,
                   !.retags[e.id] = IF e.retained THEN <<e.prev, e.gen>> ELSE NoRetag,
                   !.conn[e.id] = IF e.retained THEN @ ELSE Disconnected]
  BY <1>1 DEF FoldSaved
<1>3. PICK retag : retag = IF e.retained THEN <<e.prev, e.gen>> ELSE NoRetag
  OBVIOUS
<1>4. PICK card : card = IF e.retained THEN m.conn[e.id] ELSE Disconnected
  OBVIOUS
<1>5. PICK active : active = [m.active EXCEPT ![e.id] = e.gen]
  OBVIOUS
<1>6. PICK retags : retags = [m.retags EXCEPT ![e.id] = retag]
  OBVIOUS
<1>7. PICK conn : conn = [m.conn EXCEPT ![e.id] = card]
  OBVIOUS
<1>8. n = [m EXCEPT !.active = active, !.retags = retags, !.conn = conn]
  BY <1>2, <1>3, <1>4, <1>5, <1>6, <1>7 DEF Foldable, ModelShaped
<1>9. e.gen \in Nat /\ e.retained \in BOOLEAN
  BY DEF Foldable, EventSound
<1>10. /\ active \in [Ids -> Nat] /\ retags = [i \in Ids |-> retags[i]] /\ conn = [i \in Ids |-> conn[i]]
       /\ \A i \in Ids : IF i = e.id THEN active[i] = e.gen /\ retags[i] = retag /\ conn[i] = card
                         ELSE active[i] = m.active[i] /\ retags[i] = m.retags[i] /\ conn[i] = m.conn[i]
  BY <1>5, <1>6, <1>7, <1>9 DEF Foldable, ModelShaped
<1>11. /\ ModelShaped(n) /\ n.active = active /\ n.retags = retags /\ n.conn = conn
       /\ n.profiles = m.profiles /\ n.tombs = m.tombs
  BY <1>8, <1>10 DEF Foldable, ModelShaped
<1>12. ASSUME NEW i \in Ids, i # e.id
       PROVE  n.active[i] = m.active[i] /\ SoundAt(n, i)
  BY <1>10, <1>11, <1>12 DEF Foldable, SoundAt, Shown, CardFits, Above
<1>13. ASSUME NEW i \in Ids, i = e.id
       PROVE  n.active[i] = Told(e, i) /\ SoundAt(n, i)
  <2>1. m.active[i] \in Nat /\ m.tombs[i] \in Nat /\ m.profiles[i].gen \in Nat
    BY DEF Foldable, ModelShaped, SnapshotsShaped, SnapshotShaped
  <2>2. Told(e, i) = e.gen /\ e.gen # NoGen
    BY <1>2, <1>9, <1>13, <2>1 DEF Told, NoGen
  <2>3. m.active[i] <= e.gen
    BY <2>2 DEF Foldable, Tells
  <2>4. e.retained => SameEndpoint(e.prev, e.gen)
    BY <1>13 DEF Foldable, EventSound
  <2>5. e.retained => e.prev # NoGen
    BY <2>4 DEF SameEndpoint, NoGen
  <2>6. Shown(n, i)
    <3>1. m.profiles[i].gen <= e.gen
      BY <1>9, <2>1, <2>3 DEF Foldable, SoundAt, Shown
    <3>2. e.retained => retag[1] = e.prev /\ retag[2] = e.gen
      BY <1>3
    <3>3. ~e.retained => retag = NoRetag
      BY <1>3
    <3> QED
      BY <1>9, <1>10, <1>11, <1>13, <2>5, <3>1, <3>2, <3>3 DEF Shown
  <2>7. Above(n, i)
    BY <1>2, <1>10, <1>11, <1>13 DEF Above
  <2>8. CardFits(n, i)
    <3>1. SUFFICES ASSUME card.is = "connected"
                   PROVE  SessionFits(card.n, e.gen)
      BY <1>10, <1>11, <1>13 DEF CardFits
    <3>2. e.retained /\ card = m.conn[i]
      BY <1>4, <1>9, <1>13, <3>1 DEF Disconnected
    <3>3. SessionFits(card.n, m.active[i])
      BY <3>1, <3>2 DEF Foldable, SoundAt, CardFits
    <3>4. m.active[i] \in {e.prev, e.gen}
      BY <1>2, <1>13, <2>5, <3>2
    <3> QED
      BY <2>4, <3>2, <3>3, <3>4 DEF SessionFits, SameEndpoint
  <2> QED
    BY <1>10, <1>11, <1>13, <2>2, <2>6, <2>7, <2>8 DEF SoundAt
<1>14. \A i \in Ids : n.active[i] \in {m.active[i], NoGen, Told(e, i)} /\ SoundAt(n, i)
  BY <1>12, <1>13
<1> QED
  BY <1>11, <1>14 DEF Folded

LEMMA FoldedDeleted ==
    ASSUME NEW m, NEW e, Foldable(m, e), e.kind = "ProfileDeleted"
    PROVE  Folded(m, e, FoldDeleted(m, e))
<1>1. PICK n : n = FoldDeleted(m, e)
  OBVIOUS
<1> SUFFICES ASSUME n # m
             PROVE  Folded(m, e, n)
  BY <1>1, FoldedNot
<1>2. PICK tomb : tomb = IF e.gen > m.tombs[e.id] THEN e.gen ELSE m.tombs[e.id]
  OBVIOUS
<1>3. PICK tombs : tombs = [m.tombs EXCEPT ![e.id] = tomb]
  OBVIOUS
<1>4. PICK active : active = [m.active EXCEPT ![e.id] = NoGen]
  OBVIOUS
<1>5. PICK profiles : profiles = [m.profiles EXCEPT ![e.id] = NoProfile]
  OBVIOUS
<1>6. PICK conn : conn = [m.conn EXCEPT ![e.id] = Disconnected]
  OBVIOUS
<1>7. PICK executing : executing = {x \in m.executing : x.id # e.id}
  OBVIOUS
<1>8. PICK failures : failures = {f \in m.failures : f.id # e.id}
  OBVIOUS
<1>9. n = [m EXCEPT !.tombs = tombs, !.active = active, !.profiles = profiles, !.conn = conn,
                    !.executing = executing, !.failures = failures]
  <2>1. n = [m EXCEPT !.tombs[e.id] = IF e.gen > @ THEN e.gen ELSE @,
                   !.active[e.id] = NoGen,
                   !.profiles[e.id] = NoProfile,
                   !.conn[e.id] = Disconnected,
                   !.executing = {x \in @ : x.id # e.id},
                   !.failures = {f \in @ : f.id # e.id}]
    BY <1>1 DEF FoldDeleted
  <2> QED
    BY <2>1, <1>2, <1>3, <1>4, <1>5, <1>6, <1>7, <1>8 DEF Foldable, ModelShaped
<1>10. e.gen \in Nat /\ NoGen \in Nat /\ SnapshotShaped(NoProfile)
  BY DEF Foldable, EventSound, NoGen, SnapshotShaped, NoProfile
<1>11. e.id \in Ids => tomb \in Nat
  BY <1>2, <1>10 DEF Foldable, ModelShaped
<1>12. /\ active \in [Ids -> Nat] /\ tombs \in [Ids -> Nat] /\ conn = [i \in Ids |-> conn[i]]
       /\ profiles = [i \in Ids |-> profiles[i]]
       /\ \A i \in Ids : IF i = e.id THEN active[i] = NoGen /\ profiles[i] = NoProfile /\ conn[i] = Disconnected
                         ELSE /\ active[i] = m.active[i] /\ profiles[i] = m.profiles[i]
                              /\ conn[i] = m.conn[i] /\ tombs[i] = m.tombs[i]
  BY <1>3, <1>4, <1>5, <1>6, <1>10, <1>11 DEF Foldable, ModelShaped, SnapshotsShaped
<1>13. SnapshotsShaped(profiles)
  BY <1>10, <1>12 DEF Foldable, ModelShaped, SnapshotsShaped
<1>14. /\ ModelShaped(n) /\ n.active = active /\ n.tombs = tombs /\ n.profiles = profiles /\ n.conn = conn
       /\ n.retags = m.retags
  BY <1>9, <1>12, <1>13 DEF Foldable, ModelShaped
<1>15. ASSUME NEW i \in Ids, i # e.id
       PROVE  n.active[i] = m.active[i] /\ SoundAt(n, i)
  BY <1>12, <1>14, <1>15 DEF Foldable, SoundAt, Shown, CardFits, Above
<1>16. ASSUME NEW i \in Ids, i = e.id
       PROVE  n.active[i] = NoGen /\ SoundAt(n, i)
  <2>1. n.active[i] = NoGen /\ n.profiles[i].gen = NoGen /\ n.conn[i].is # "connected"
    BY <1>12, <1>14, <1>16 DEF NoProfile, Disconnected
  <2>2. Shown(n, i)
    BY <1>10, <1>14, <2>1 DEF Foldable, SoundAt, Shown
  <2> QED
    BY <2>1, <2>2 DEF SoundAt, CardFits, Above
<1>17. \A i \in Ids : n.active[i] \in {m.active[i], NoGen, Told(e, i)} /\ SoundAt(n, i)
  BY <1>15, <1>16
<1> QED
  BY <1>14, <1>17 DEF Folded

LEMMA FoldedUncertain ==
    ASSUME NEW m, NEW e, Foldable(m, e)
    PROVE  Folded(m, e, FoldUncertain(m, e))
<1>1. PICK n : n = FoldUncertain(m, e)
  OBVIOUS
<1> SUFFICES ASSUME n # m
             PROVE  Folded(m, e, n)
  BY <1>1, FoldedNot
<1>2. PICK retags : retags = [i \in Ids |-> NoRetag]
  OBVIOUS
<1>3. PICK conn : conn = [i \in Ids |-> Disconnected]
  OBVIOUS
<1>4. n = [m EXCEPT !.lastLoad = e.op, !.uncertain = TRUE, !.retags = retags, !.conn = conn, !.executing = {}]
  BY <1>1, <1>2, <1>3 DEF FoldUncertain
<1>5. /\ ModelShaped(n) /\ n.active = m.active /\ n.tombs = m.tombs /\ n.profiles = m.profiles
      /\ n.conn = conn /\ n.retags = retags
  BY <1>2, <1>3, <1>4 DEF Foldable, ModelShaped
<1>6. \A i \in Ids : n.conn[i].is # "connected" /\ n.retags[i] = NoRetag
  <2>1. Disconnected.is # "connected"
    BY DEF Disconnected
  <2> QED
    BY <1>2, <1>3, <1>5, <2>1
<1>7. \A i \in Ids : SoundAt(n, i)
  BY <1>5, <1>6 DEF Foldable, SoundAt, Shown, CardFits, Above
<1> QED
  BY <1>5, <1>7 DEF Folded

LEMMA FoldedLoadFailed ==
    ASSUME NEW m, NEW e, Foldable(m, e)
    PROVE  Folded(m, e, FoldLoadFailed(m, e))
<1>1. PICK n : n = FoldLoadFailed(m, e)
  OBVIOUS
<1> SUFFICES ASSUME n # m
             PROVE  Folded(m, e, n)
  BY <1>1, FoldedNot
<1>2. n = [m EXCEPT !.lastLoad = e.op]
  BY <1>1 DEF FoldLoadFailed
<1>3. /\ ModelShaped(n) /\ n.active = m.active /\ n.tombs = m.tombs /\ n.profiles = m.profiles
      /\ n.conn = m.conn /\ n.retags = m.retags
  BY <1>2 DEF Foldable, ModelShaped
<1>4. \A i \in Ids : SoundAt(n, i)
  BY <1>3 DEF Foldable, SoundAt, Shown, CardFits, Above
<1> QED
  BY <1>3, <1>4 DEF Folded

LEMMA FoldedLoaded ==
    ASSUME NEW m, NEW e, Foldable(m, e), e.kind = "ProfilesLoaded"
    PROVE  Folded(m, e, FoldLoaded(m, e))
<1>1. PICK n : n = FoldLoaded(m, e)
  OBVIOUS
<1> SUFFICES ASSUME n # m
             PROVE  Folded(m, e, n)
  BY <1>1, FoldedNot
<1>2. PICK loaded : loaded = e.profiles
  OBVIOUS
<1>3. PICK l : l = [m EXCEPT !.lastLoad = e.op]
  OBVIOUS
<1>4. /\ l.active = m.active /\ l.tombs = m.tombs /\ l.profiles = m.profiles /\ l.conn = m.conn
      /\ l.retags = m.retags
  BY <1>3 DEF Foldable, ModelShaped
<1> DEFINE tombs == [i \in Ids |-> IF loaded[i].gen = NoGen /\ l.active[i] > l.tombs[i]
                                  THEN l.active[i] ELSE l.tombs[i]]
           kept == [i \in Ids |-> IF loaded[i].gen > tombs[i] THEN loaded[i] ELSE NoProfile]
           same(i) == /\ l.profiles[i] # NoProfile /\ kept[i] # NoProfile
                      /\ \/ /\ l.profiles[i].gen = kept[i].gen
                            /\ l.profiles[i].body = kept[i].body
                         \/ l.retags[i] = <<l.profiles[i].gen, kept[i].gen>>
           locked(i) == kept[i].body \in SessionBodies /\ ~kept[i].secret
           conn == [i \in Ids |-> IF locked(i) THEN NeedsCredential
                                  ELSE IF same(i) THEN l.conn[i] ELSE Disconnected]
           active == [i \in Ids |-> kept[i].gen]
           retags == [i \in Ids |-> NoRetag]
           executing == {x \in l.executing : x.gen = kept[x.id].gen}
           failures == {f \in l.failures : f.gen = kept[f.id].gen}
<1>5. n = [l EXCEPT !.tombs = tombs, !.profiles = kept, !.active = active, !.conn = conn,
                    !.executing = executing, !.failures = failures, !.retags = retags, !.uncertain = FALSE]
  <2>1. n = FoldProfiles(l, loaded)
    BY <1>1, <1>2, <1>3 DEF FoldLoaded
  <2> QED
    BY <2>1 DEF FoldProfiles
<1> HIDE DEF executing, failures, conn, same, locked, kept, tombs, active, retags
<1>6. conn = [i \in Ids |-> conn[i]] /\ retags = [i \in Ids |-> retags[i]]
  BY DEF conn, retags
<1>12. SnapshotsShaped(loaded)
  BY <1>2 DEF Foldable, EventSound
<1>13. \A i \in Ids : /\ m.active[i] \in Nat /\ m.tombs[i] \in Nat /\ loaded[i].gen \in Nat
                      /\ m.profiles[i].gen \in Nat
  BY <1>12 DEF Foldable, ModelShaped, SnapshotsShaped, SnapshotShaped
<1>14. tombs \in [Ids -> Nat]
  BY <1>4, <1>13 DEF tombs
<1>15. SnapshotsShaped(kept)
  <2>1. SnapshotShaped(NoProfile)
    BY DEF SnapshotShaped, NoProfile, NoGen
  <2> QED
    BY <1>12, <2>1 DEF SnapshotsShaped, kept
<1>16. active \in [Ids -> Nat]
  BY <1>15 DEF SnapshotsShaped, SnapshotShaped, active
<1>17. ModelShaped(n)
  BY <1>3, <1>5, <1>6, <1>14, <1>15, <1>16 DEF Foldable, ModelShaped
<1>18. /\ n.active = active /\ n.tombs = tombs /\ n.profiles = kept /\ n.conn = conn /\ n.retags = retags
  BY <1>3, <1>5 DEF Foldable, ModelShaped
<1>19. ASSUME NEW i \in Ids
       PROVE  n.active[i] \in {m.active[i], NoGen, Told(e, i)} /\ SoundAt(n, i)
  <2>1. Told(e, i) = loaded[i].gen
    BY <1>2 DEF Told
  <2>2. kept[i] = loaded[i] \/ kept[i] = NoProfile
    BY DEF kept
  <2>3. n.active[i] = kept[i].gen /\ n.profiles[i] = kept[i] /\ n.retags[i] = NoRetag /\ n.conn[i] = conn[i]
    BY <1>18 DEF active, retags
  <2>4. n.active[i] \in {NoGen, Told(e, i)}
    BY <2>1, <2>2, <2>3 DEF NoProfile
  <2>5. Shown(n, i)
    BY <1>13, <1>15, <2>3 DEF Shown, SnapshotsShaped, SnapshotShaped
  <2>6. Above(n, i)
    BY <1>18, <2>3 DEF Above, NoProfile, kept
  <2>7. CardFits(n, i)
    <3>1. SUFFICES ASSUME conn[i].is = "connected"
                   PROVE  SessionFits(conn[i].n, kept[i].gen)
      BY <2>3 DEF CardFits
    <3>2. same(i) /\ conn[i] = m.conn[i]
      BY <1>4, <3>1 DEF NeedsCredential, Disconnected, conn
    <3>3. SessionFits(conn[i].n, m.active[i])
      BY <3>1, <3>2 DEF Foldable, SoundAt, CardFits
    <3>4. kept[i] = loaded[i] /\ loaded[i].gen > tombs[i] /\ kept[i].gen # NoGen
      BY <1>13, <1>14, <3>2 DEF NoGen, same, kept
    <3>5. m.active[i] <= kept[i].gen
      BY <2>1, <3>4 DEF Foldable, Tells
    <3>6. m.profiles[i].gen <= m.active[i]
      BY DEF Foldable, SoundAt, Shown
    <3>7. CASE m.profiles[i].gen = kept[i].gen
      BY <1>13, <3>3, <3>4, <3>5, <3>6, <3>7
    <3>8. CASE m.retags[i] = <<m.profiles[i].gen, kept[i].gen>>
      <4>1. m.retags[i][1] = m.profiles[i].gen /\ m.retags[i][2] = kept[i].gen
        BY <3>8
      <4>2. m.retags[i] # NoRetag
        BY <3>4, <4>1 DEF NoRetag
      <4>3. kept[i].gen = m.active[i]
        BY <4>1, <4>2 DEF Foldable, SoundAt, Shown
      <4> QED
        BY <3>3, <4>3
    <3> QED
      BY <1>4, <3>2, <3>7, <3>8 DEF same
  <2> QED
    BY <2>4, <2>5, <2>6, <2>7 DEF SoundAt
<1> QED
  BY <1>17, <1>19 DEF Folded

\* A credential was stored: of the profiles only what is known of secrets changes.
LEMMA FoldedStored ==
    ASSUME NEW m, NEW e, Foldable(m, e)
    PROVE  Folded(m, e, FoldStored(m, e))
<1>1. PICK n : n = FoldStored(m, e)
  OBVIOUS
<1> SUFFICES ASSUME n # m
             PROVE  Folded(m, e, n)
  BY <1>1, FoldedNot
<1>2. PICK secret : secret = (m.profiles[e.id].secret \/ m.profiles[e.id] # NoProfile)
  OBVIOUS
<1>3. PICK profiles : profiles = [m.profiles EXCEPT ![e.id].secret = secret]
  OBVIOUS
<1>4. PICK card : card = IF m.conn[e.id] = NeedsCredential THEN Disconnected ELSE m.conn[e.id]
  OBVIOUS
<1>5. PICK conn : conn = [m.conn EXCEPT ![e.id] = card]
  OBVIOUS
<1>6. n = [m EXCEPT !.profiles = profiles, !.conn = conn]
  <2>1. n = [m EXCEPT !.profiles[e.id].secret = (@ \/ m.profiles[e.id] # NoProfile),
                      !.conn[e.id] = IF @ = NeedsCredential THEN Disconnected ELSE @]
    BY <1>1 DEF FoldStored
  <2> QED
    BY <2>1, <1>2, <1>3, <1>4, <1>5 DEF Foldable, ModelShaped
<1>7. /\ conn = [i \in Ids |-> conn[i]] /\ profiles = [i \in Ids |-> profiles[i]]
      /\ \A i \in Ids : conn[i] = IF i = e.id THEN card ELSE m.conn[i]
      /\ \A i \in Ids : profiles[i] = IF i = e.id THEN [m.profiles[i] EXCEPT !.secret = secret] ELSE m.profiles[i]
  BY <1>3, <1>5 DEF Foldable, ModelShaped, SnapshotsShaped
<1>8. SnapshotsShaped(profiles) /\ \A i \in Ids : profiles[i].gen = m.profiles[i].gen
  BY ZenonT(60), <1>7 DEF Foldable, ModelShaped, SnapshotsShaped, SnapshotShaped
<1>9. /\ ModelShaped(n) /\ n.conn = conn /\ n.profiles = profiles /\ n.active = m.active
      /\ n.tombs = m.tombs /\ n.retags = m.retags
  BY <1>6, <1>7, <1>8 DEF Foldable, ModelShaped
<1>10. \A i \in Ids : Shown(n, i) /\ Above(n, i)
  BY <1>8, <1>9 DEF Foldable, SoundAt, Shown, Above
<1>11. \A i \in Ids : conn[i] = m.conn[i] \/ conn[i].is # "connected"
  <2>1. Disconnected.is # "connected"
    BY DEF Disconnected
  <2> QED
    BY <1>4, <1>7, <2>1
<1>12. \A i \in Ids : CardFits(n, i)
  BY <1>9, <1>11 DEF Foldable, SoundAt, CardFits
<1> QED
  BY <1>9, <1>10, <1>12 DEF Folded, SoundAt

LEMMA FoldedAnswer ==
    ASSUME NEW m, NEW e, Foldable(m, e), NEW state,
           e.id \in Ids /\ state.is = "connected" => SessionFits(state.n, e.gen)
    PROVE  Folded(m, e, FoldAnswer(m, e, state))
<1>1. PICK n : n = FoldAnswer(m, e, state)
  OBVIOUS
<1> SUFFICES ASSUME n # m
             PROVE  Folded(m, e, n)
  BY <1>1, FoldedNot
<1>2. n = [m EXCEPT !.conn[e.id] = state] /\ m.active[e.id] = e.gen
  BY <1>1 DEF FoldAnswer, EventIsCurrent
<1>3. n = [m EXCEPT !.executing = m.executing, !.failures = m.failures, !.conn[e.id] = state]
  BY <1>2 DEF Foldable, ModelShaped
<1>4. e.id \in Ids /\ state.is = "connected" => SessionFits(state.n, m.active[e.id])
  BY <1>2
<1> QED
  BY <1>3, <1>4, FoldedCard

LEMMA FoldedQueryFinished ==
    ASSUME NEW m, NEW e, Foldable(m, e), e.kind = "QueryFinished"
    PROVE  Folded(m, e, FoldQueryFinished(m, e))
<1>1. PICK n : n = FoldQueryFinished(m, e)
  OBVIOUS
<1> SUFFICES ASSUME n # m
             PROVE  Folded(m, e, n)
  BY <1>1, FoldedNot
<1>2. PICK executing : executing = m.executing \ {[id |-> e.id, gen |-> e.gen, op |-> e.op]}
  OBVIOUS
<1>3. PICK card : card = Connected(e.session)
  OBVIOUS
<1>4. n = [m EXCEPT !.executing = executing, !.conn[e.id] = card] /\ m.active[e.id] = e.gen
  BY <1>1, <1>2, <1>3 DEF FoldQueryFinished, EventIsCurrent
<1>5. n = [m EXCEPT !.executing = executing, !.failures = m.failures, !.conn[e.id] = card]
  BY <1>4 DEF Foldable, ModelShaped
<1>6. e.id \in Ids => SessionFits(card.n, m.active[e.id])
  BY <1>3, <1>4 DEF Connected, Foldable, EventSound
<1> QED
  BY <1>5, <1>6, FoldedCard

\* A failure never makes a card say "connected".
LEMMA FailureNeverConnects ==
    ASSUME NEW state, NEW e, e.outcome \in Outcomes
    PROVE  /\ AfterFailure(e.outcome, state) = state \/ AfterFailure(e.outcome, state).is # "connected"
           /\ ConnAfterFailure(state, e) = state \/ ConnAfterFailure(state, e).is # "connected"
<1>1. NeedsCredential.is # "connected" /\ Failed.is # "connected" /\ Disconnected.is # "connected"
  BY DEF NeedsCredential, Failed, Disconnected
<1>2. \A x : AfterFailure(e.outcome, x) \in {x, Disconnected, NeedsCredential}
  BY DEF AfterFailure, Outcomes
<1>3. \E shown \in {state, NeedsCredential, Failed} : ConnAfterFailure(state, e) \in {shown, AfterFailure(e.outcome, shown)}
  BY DEF ConnAfterFailure
<1> QED
  BY <1>1, <1>2, <1>3

LEMMA FoldedFailed ==
    ASSUME NEW m, NEW e, Foldable(m, e), e.kind = "OperationFailed"
    PROVE  Folded(m, e, FoldFailed(m, e))
<1>1. PICK n : n = FoldFailed(m, e)
  OBVIOUS
<1> SUFFICES ASSUME n # m
             PROVE  Folded(m, e, n)
  BY <1>1, FoldedNot
<1>2. PICK executing : executing = IF e.of = "execute"
                                   THEN m.executing \ {[id |-> e.id, gen |-> e.gen, op |-> e.op]}
                                   ELSE m.executing
  OBVIOUS
<1>3. PICK card : card = ConnAfterFailure(m.conn[e.id], e)
  OBVIOUS
<1>4. n = [m EXCEPT !.executing = executing, !.failures = m.failures, !.conn[e.id] = card]
  <2>1. n = [m EXCEPT !.executing = IF e.of = "execute"
                          THEN @ \ {[id |-> e.id, gen |-> e.gen, op |-> e.op]} ELSE @,
                      !.conn[e.id] = ConnAfterFailure(@, e)]
    BY <1>1 DEF FoldFailed
  <2> QED
    BY <2>1, <1>2, <1>3 DEF Foldable, ModelShaped
<1>5. card = m.conn[e.id] \/ card.is # "connected"
  BY <1>3, FailureNeverConnects DEF Foldable, EventSound
<1>6. e.id \in Ids /\ card.is = "connected" => SessionFits(card.n, m.active[e.id])
  BY <1>5 DEF Foldable, SoundAt, CardFits
<1> QED
  BY <1>4, <1>6, FoldedCard

LEMMA FoldedCatalog ==
    ASSUME NEW m, NEW e, Foldable(m, e), e.kind = "CatalogPage"
    PROVE  Folded(m, e, FoldCatalog(m, e))
<1>1. PICK n : n = FoldCatalog(m, e)
  OBVIOUS
<1> SUFFICES ASSUME n # m
             PROVE  Folded(m, e, n)
  BY <1>1, FoldedNot
<1> DEFINE state == m.conn[e.id]
           protected == \/ state.is \in {"pending", "closing"}
                        \/ state.is = "connected" /\ state.n # e.session
           failures == Explored(m, e)
           card == IF e.session = 0 \/ e.disposition = "none" \/ protected THEN m.conn[e.id]
                   ELSE IF e.disposition = "keep" THEN Connected(e.session)
                   ELSE Disconnected
<1>2. n = [m EXCEPT !.failures = failures, !.conn[e.id] = card] /\ m.active[e.id] = e.gen
  <2>1. EventIsCurrent(m, e.id, e.gen)
    BY <1>1 DEF FoldCatalog
  <2>2. n = [m EXCEPT !.failures = Explored(m, e),
                      !.conn[e.id] = IF e.session = 0 \/ e.disposition = "none" \/ protected THEN @
                               ELSE IF e.disposition = "keep" THEN Connected(e.session)
                               ELSE Disconnected]
    BY <1>1, <2>1 DEF FoldCatalog
  <2> QED
    BY <2>1, <2>2 DEF EventIsCurrent, Foldable, ModelShaped
<1>3. e.id \in Ids /\ card.is = "connected" => SessionFits(card.n, m.active[e.id])
  <2>1. SUFFICES ASSUME e.id \in Ids, card.is = "connected"
                 PROVE  SessionFits(card.n, m.active[e.id])
    OBVIOUS
  <2>2. CASE card = m.conn[e.id]
    BY <2>1, <2>2 DEF Foldable, SoundAt, CardFits
  <2>3. CASE card # m.conn[e.id]
    <3>1. e.session # 0 /\ e.disposition = "keep" /\ card = Connected(e.session)
      BY <2>1, <2>3 DEF Disconnected
    <3>2. SessionFits(e.session, e.gen)
      BY <2>1, <3>1 DEF Foldable, EventSound
    <3> QED
      BY <1>2, <3>1, <3>2 DEF Connected
  <2> QED
    BY <2>2, <2>3
<1> HIDE DEF card, failures, protected
<1>4. n = [m EXCEPT !.executing = m.executing, !.failures = failures, !.conn[e.id] = card]
  BY <1>2 DEF Foldable, ModelShaped
<1> QED
  BY <1>3, <1>4, FoldedCard

LEMMA FoldedRedis ==
    ASSUME NEW m, NEW e, Foldable(m, e), e.kind = "RedisKeys"
    PROVE  Folded(m, e, FoldRedis(m, e))
<1>1. PICK n : n = FoldRedis(m, e)
  OBVIOUS
<1> SUFFICES ASSUME n # m
             PROVE  Folded(m, e, n)
  BY <1>1, FoldedNot
<1> DEFINE state == m.conn[e.id]
           failures == Explored(m, e)
           card == CASE e.session # 0 /\ e.disposition = "keep" -> Connected(e.session)
                     [] e.disposition = "evict" -> Disconnected
                     [] OTHER -> AfterFailure(e.outcome, state)
<1>2. n = [m EXCEPT !.failures = failures, !.conn[e.id] = card] /\ m.active[e.id] = e.gen
  <2>1. EventIsCurrent(m, e.id, e.gen)
    BY <1>1 DEF FoldRedis
  <2> QED
    BY <1>1, <2>1 DEF FoldRedis, EventIsCurrent
<1>3. e.id \in Ids /\ card.is = "connected" => SessionFits(card.n, m.active[e.id])
  <2>1. SUFFICES ASSUME e.id \in Ids, card.is = "connected"
                 PROVE  SessionFits(card.n, m.active[e.id])
    OBVIOUS
  <2>2. CASE e.session # 0 /\ e.disposition = "keep"
    <3>1. card = Connected(e.session)
      BY <2>2
    <3>2. SessionFits(e.session, e.gen)
      BY <2>1, <2>2 DEF Foldable, EventSound
    <3> QED
      BY <1>2, <3>1, <3>2 DEF Connected
  <2>3. CASE ~(e.session # 0 /\ e.disposition = "keep")
    <3>1. card = Disconnected \/ card = AfterFailure(e.outcome, state)
      BY <2>3
    <3>2. card = AfterFailure(e.outcome, state)
      BY <2>1, <3>1 DEF Disconnected
    <3>3. e.outcome \in Outcomes
      BY DEF Foldable, EventSound
    <3>4. card = state
      BY <2>1, <3>2, <3>3, FailureNeverConnects
    <3> QED
      BY <2>1, <3>4 DEF Foldable, SoundAt, CardFits
  <2> QED
    BY <2>2, <2>3
<1> HIDE DEF card, failures
<1>4. n = [m EXCEPT !.executing = m.executing, !.failures = failures, !.conn[e.id] = card]
  BY <1>2 DEF Foldable, ModelShaped
<1> QED
  BY <1>3, <1>4, FoldedCard

\* Whatever the event is.
LEMMA FoldedEvent ==
    ASSUME NEW m, NEW e, Foldable(m, e)
    PROVE  Folded(m, e, Fold(m, e))
<1>1. CASE e.kind = "ProfilesLoaded"
  BY <1>1, FoldedLoaded DEF Fold
<1>2. CASE e.kind = "ProfilesFailed"
  BY <1>2, FoldedLoadFailed DEF Fold
<1>3. CASE e.kind = "ProfileSaved"
  BY <1>3, FoldedSaved DEF Fold
<1>4. CASE e.kind = "ProfileDeleted"
  BY <1>4, FoldedDeleted DEF Fold
<1>5. CASE e.kind = "ConfigUncertain"
  BY <1>5, FoldedUncertain DEF Fold
<1>6. CASE e.kind = "CredentialsStored"
  BY <1>6, FoldedStored DEF Fold
<1>7. CASE e.kind = "ConnectionReady"
  <2>1. PICK state : state = Connected(e.session)
    OBVIOUS
  <2>2. e.id \in Ids => SessionFits(state.n, e.gen)
    BY <1>7, <2>1 DEF Connected, Foldable, EventSound
  <2>3. Folded(m, e, FoldAnswer(m, e, state))
    BY <2>2, FoldedAnswer
  <2> QED
    BY <1>7, <2>1, <2>3 DEF Fold
<1>8. CASE e.kind = "ConnectionClosed"
  <2>1. PICK state : state = e.post
    OBVIOUS
  <2>2. state.is # "connected"
    BY <1>8, <2>1 DEF Foldable, EventSound, NeedsCredential, Disconnected
  <2>3. Folded(m, e, FoldAnswer(m, e, state))
    BY <2>2, FoldedAnswer
  <2> QED
    BY <1>8, <2>1, <2>3 DEF Fold
<1>9. CASE e.kind = "QueryFinished"
  BY <1>9, FoldedQueryFinished DEF Fold
<1>10. CASE e.kind = "OperationFailed"
  BY <1>10, FoldedFailed DEF Fold
<1>11. CASE e.kind = "CatalogPage"
  BY <1>11, FoldedCatalog DEF Fold
<1>12. CASE e.kind = "RedisKeys"
  BY <1>12, FoldedRedis DEF Fold
<1>13. CASE e.kind \notin {"ProfilesLoaded", "ProfilesFailed", "ProfileSaved", "ProfileDeleted", "ConfigUncertain",
                           "CredentialsStored", "ConnectionReady", "ConnectionClosed", "QueryFinished",
                           "OperationFailed", "CatalogPage", "RedisKeys"}
  BY <1>13, FoldedNot DEF Fold
<1> QED
  BY <1>1, <1>2, <1>3, <1>4, <1>5, <1>6, <1>7, <1>8, <1>9, <1>10, <1>11, <1>12, <1>13

-----------------------------------------------------------------------------
(* One event of poll_events                                                *)

WorldSound(w, answers) == Shaped(w) /\ ModelSound(w.m, answers)

LEMMA ToldNat ==
    ASSUME NEW e, EventSound(e), NEW i \in Ids
    PROVE  Told(e, i) \in Nat
<1>1. CASE e.kind = "ProfilesLoaded"
  BY <1>1 DEF EventSound, Told, SnapshotsShaped, SnapshotShaped
<1>2. CASE e.kind # "ProfilesLoaded"
  BY <1>2 DEF EventSound, Told, NoGen
<1> QED
  BY <1>1, <1>2

LEMMA CalmSound ==
    ASSUME NEW w, NEW v, NEW answers, Calm(w, v), WorldSound(w, answers)
    PROVE  WorldSound(v, answers)
<1>1. Shaped(v) /\ v.m.profiles = w.m.profiles /\ v.m.active = w.m.active /\ v.m.tombs = w.m.tombs /\ v.m.retags = w.m.retags
  BY DEF Calm, Alike
<1>2. ASSUME NEW i \in Ids
      PROVE  Behind(v.m, answers, i) /\ Shown(v.m, i) /\ Above(v.m, i)
  BY <1>1 DEF WorldSound, ModelSound, Behind, Shown, Above
<1>3. ASSUME NEW i \in Ids
      PROVE  CardFits(v.m, i)
  <2>1. v.m.conn[i] = w.m.conn[i] \/ v.m.conn[i].is # "connected"
    BY DEF Calm
  <2> QED
    BY <1>1, <2>1 DEF WorldSound, ModelSound, CardFits
<1> QED
  BY <1>1, <1>2, <1>3 DEF WorldSound, ModelSound

\* The event that is taken is not needed any more.
LEMMA SoundLater ==
    ASSUME NEW w, WorldSound(w, events), ServiceShaped(service), Answering, events # <<>>
    PROVE  WorldSound(w, Tail(events))
<1>1. PICK rest : rest = Tail(events)
  OBVIOUS
<1>2. \A k \in 1..Len(rest) : rest[k] = events[k + 1] /\ k + 1 \in 1..Len(events)
  BY <1>1, QueueShrinks DEF Answering
<1>3. ASSUME NEW i \in Ids
      PROVE  Behind(w.m, rest, i)
  BY <1>2 DEF WorldSound, ModelSound, Behind
<1> QED
  BY <1>1, <1>3 DEF WorldSound, ModelSound

LEMMA SoundFolds ==
    ASSUME NEW m, ModelShaped(m), ModelSound(m, events), ServiceShaped(service), Answering, events # <<>>
    PROVE  ModelShaped(Fold(m, Head(events))) /\ ModelSound(Fold(m, Head(events)), Tail(events))
<1>1. PICK rest : rest = Tail(events)
  OBVIOUS
<1>2. PICK e : e = Head(events)
  OBVIOUS
<1>3. /\ e = events[1] /\ 1 \in 1..Len(events) /\ Len(rest) \in Nat
      /\ \A k \in 1..Len(rest) : rest[k] = events[k + 1] /\ k + 1 \in 1..Len(events)
  BY <1>1, <1>2, QueueShrinks DEF Answering, Queue
<1>4. EventSound(e)
  BY <1>3 DEF Answering
<1>5. \A i \in Ids : Tells(m, e, i)
  BY <1>3 DEF Answering, AnswersInOrder, ModelSound, Behind, Tells
<1>6. Foldable(m, e)
  BY <1>4, <1>5 DEF Foldable, ModelSound, SoundAt
<1>7. PICK n : n = Fold(m, e)
  OBVIOUS
<1>8. Folded(m, e, n)
  BY <1>6, <1>7, FoldedEvent
<1>9. ASSUME NEW i \in Ids
      PROVE  Behind(n, rest, i)
  <2>1. n.active[i] \in {m.active[i], NoGen, Told(e, i)}
    BY <1>8 DEF Folded
  <2>2. Behind(m, events, i)
    BY DEF ModelSound
  <2>3. /\ Len(service.bodies) \in Nat /\ service.gens[i] \in Nat /\ Told(e, i) \in Nat
        /\ \A k \in 1..Len(rest) : Told(rest[k], i) \in Nat
    BY <1>3, <1>4, ToldNat DEF Answering, ServiceShaped, Queue
  <2>4. CASE n.active[i] = m.active[i]
    BY <1>3, <2>2, <2>4 DEF Behind
  <2>5. CASE n.active[i] = NoGen
    BY <2>3, <2>5 DEF Behind, NoGen
  <2>6. CASE n.active[i] = Told(e, i) /\ Told(e, i) # NoGen
    <3>1. Told(e, i) <= Len(service.bodies) /\ (service.gens[i] # NoGen => Told(e, i) <= service.gens[i])
      BY <1>3, <2>6 DEF Answering, AnswersInOrder
    <3>2. ASSUME NEW k \in 1..Len(rest), Told(rest[k], i) # NoGen
          PROVE  Told(e, i) <= Told(rest[k], i)
      <4>1. PICK l : l = k + 1
        OBVIOUS
      <4>2. rest[k] = events[l] /\ l \in 1..Len(events) /\ 1 \in 1..l
        BY <1>3, <4>1
      <4> QED
        BY <1>3, <3>2, <4>2 DEF Answering, AnswersInOrder
    <3> QED
      BY <2>6, <3>1, <3>2 DEF Behind
  <2> QED
    BY <2>1, <2>4, <2>5, <2>6
<1> QED
  BY <1>1, <1>2, <1>7, <1>8, <1>9 DEF Folded, SoundAt, ModelSound

LEMMA WorldFolds ==
    ASSUME NEW w, WorldSound(w, events), ServiceShaped(service), Answering, events # <<>>,
           NEW v, v = [m |-> Fold(w.m, Head(events)), a |-> v.a, p |-> w.p], AppShaped(v.a)
    PROVE  WorldSound(v, Tail(events))
<1>1. PICK n : n = Fold(w.m, Head(events))
  OBVIOUS
<1>2. ModelShaped(n) /\ ModelSound(n, Tail(events))
  BY <1>1, SoundFolds DEF WorldSound, Shaped
<1> QED
  BY <1>1, <1>2 DEF WorldSound, Shaped

LEMMA SoundHandleSaved ==
    ASSUME NEW w, WorldSound(w, events), ServiceShaped(service), Answering, events # <<>>
    PROVE  WorldSound(HandleSaved(w, Head(events)), Tail(events))
<1>1. PICK e : e = Head(events)
  OBVIOUS
<1>2. PICK f : f = [w EXCEPT !.m = Fold(@, e), !.a.editor = NoEditor]
  OBVIOUS
<1>3. f = [m |-> Fold(w.m, e), a |-> f.a, p |-> w.p] /\ AppShaped(f.a)
  BY <1>2, EditorsOpened DEF WorldSound, Shaped, AppShaped
<1>4. WorldSound(f, Tail(events))
  BY <1>1, <1>3, WorldFolds
<1>5. PICK c : c = Command(f.m, "refresh", NoId, NoGen)
  OBVIOUS
<1>6. PICK u : u = [f EXCEPT !.m.nextOp = c.op + 1]
  OBVIOUS
<1>7. PICK v : v = [u EXCEPT !.p = Sent(@, c)]
  OBVIOUS
<1>8. Calm(f, u) /\ Calm(f, v)
  BY <1>4, <1>5, <1>6, <1>7, CommandMade, TrySends DEF WorldSound
<1>9. WorldSound(u, Tail(events)) /\ WorldSound(v, Tail(events))
  BY <1>4, <1>8, CalmSound
<1>10. PICK s : s = TrySubmit(f, c, LAMBDA x : x)
  OBVIOUS
<1>11. WorldSound(s, Tail(events))
  BY <1>6, <1>7, <1>9, <1>10 DEF TrySubmit
<1>12. PICK followUp : HandleSaved(w, e) = [s EXCEPT !.a.followUp = followUp]
  BY <1>2, <1>5, <1>10 DEF HandleSaved
<1>13. PICK h : h = [s EXCEPT !.a.followUp = followUp]
  OBVIOUS
<1>14. h = [m |-> s.m, a |-> h.a, p |-> s.p] /\ AppShaped(h.a)
  BY <1>11, <1>13 DEF WorldSound, Shaped, AppShaped
<1>15. Calm(s, h)
  BY <1>11, <1>14, CalmApp DEF WorldSound
<1> QED
  BY <1>1, <1>11, <1>12, <1>13, <1>15, CalmSound

LEMMA SoundFollow ==
    ASSUME NEW w, WorldSound(w, events), ServiceShaped(service), Answering, events # <<>>
    PROVE  WorldSound(FoldAndFollow(w, Head(events)), Tail(events))
<1>1. PICK e : e = Head(events)
  OBVIOUS
<1>2. PICK f : f = [w EXCEPT !.m = Fold(@, e)]
  OBVIOUS
<1>3. f = [m |-> Fold(w.m, e), a |-> f.a, p |-> w.p] /\ AppShaped(f.a)
  BY <1>2 DEF WorldSound, Shaped
<1>4. WorldSound(f, Tail(events))
  BY <1>1, <1>3, WorldFolds
<1>5. PICK g : g = [f EXCEPT !.a.followUp = NoFollowUp]
  OBVIOUS
<1>6. g = [m |-> f.m, a |-> g.a, p |-> f.p] /\ AppShaped(g.a)
  BY <1>4, <1>5 DEF WorldSound, Shaped, AppShaped
<1>7. Calm(f, g)
  BY <1>4, <1>6, CalmApp DEF WorldSound
<1>8. WorldSound(g, Tail(events))
  BY <1>4, <1>7, CalmSound
<1>9. PICK h : h = SubmitTest(g, w.a.followUp.id)
  OBVIOUS
<1>10. Calm(g, h)
  BY <1>8, <1>9, CalmSubmitTest DEF WorldSound
<1>11. WorldSound(h, Tail(events))
  BY <1>8, <1>10, CalmSound
<1>12. FoldAndFollow(w, e) \in {f, g, h}
  BY <1>2, <1>5, <1>9 DEF FoldAndFollow
<1> QED
  BY <1>1, <1>4, <1>8, <1>11, <1>12

\* What poll_events may make of a world: a stale page gives its recipe back, a refused save
\* leaves the editor, and an uncertain configuration marks it.
Dropped(s, e) == [s EXCEPT !.a.recipes = Without(@, e.op)]
Unsaved(x) == [x EXCEPT !.a.editor.save = 0]
Marked(w, x, e) == IF e.kind = "ConfigUncertain" /\ w.a.editor # NoEditor
                   THEN [x EXCEPT !.a.editor.uncertain = TRUE] ELSE x

\* What an event does to the window (poll_events) is one of six things.
LEMMA HandleIs ==
    ASSUME NEW w, NEW e, NEW x, x = FinishActive(HandleCredential(CaptureError(w, e), e), e)
    PROVE  \/ RedisDisposition(w, e) = "ignore" /\ Handle(w, e) = w
           \/ RedisDisposition(w, e) = "stale" /\ Handle(w, e) = Dropped(FinishActive(w, e), e)
           \/ EditorTakes(x, e, {"ProfileCreateFailed", "ProfileUpdateFailed"}) /\ Handle(w, e) = Unsaved(x)
           \/ Handle(w, e) = HandleSaved(x, e)
           \/ Handle(w, e) = FoldAndFollow(Marked(w, x, e), e)
           \/ Handle(w, e) = RetryRecipe(FoldAndFollow(Marked(w, x, e), e), w.a.prompt.recipe, w.a.prompt.source)
<1>1. Handle(w, e) =
        CASE RedisDisposition(w, e) = "ignore" -> w
          [] RedisDisposition(w, e) = "stale" -> Dropped(FinishActive(w, e), e)
          [] EditorTakes(x, e, {"ProfileSaved"}) -> HandleSaved(x, e)
          [] EditorTakes(x, e, {"ProfileCreateFailed", "ProfileUpdateFailed"}) -> Unsaved(x)
          [] OTHER -> IF CredentialRetries(w, e)
                      THEN RetryRecipe(FoldAndFollow(Marked(w, x, e), e), w.a.prompt.recipe, w.a.prompt.source)
                      ELSE FoldAndFollow(Marked(w, x, e), e)
  BY Zenon DEF Handle, Dropped, Unsaved, Marked
<1> QED
  BY SMT, <1>1

LEMMA SoundHandle ==
    ASSUME NEW w, WorldSound(w, events), ServiceShaped(service), Answering, events # <<>>
    PROVE  WorldSound(Handle(w, Head(events)), Tail(events))
<1>1. PICK e : e = Head(events)
  OBVIOUS
<1>2. PICK rest : rest = Tail(events)
  OBVIOUS
<1>3. PICK s : s = FinishActive(w, e)
  OBVIOUS
<1>4. Calm(w, s)
  BY <1>3, CalmFinishActive DEF WorldSound
<1>5. PICK stale : stale = [s EXCEPT !.a.recipes = Without(@, e.op)]
  OBVIOUS
<1>6. WorldSound(stale, rest)
  <2>1. WorldSound(s, events)
    BY <1>4, CalmSound
  <2>2. stale = [m |-> s.m, a |-> stale.a, p |-> s.p] /\ AppShaped(stale.a)
    BY <1>5, <2>1 DEF WorldSound, Shaped, AppShaped, Without
  <2>3. Calm(s, stale)
    BY <2>1, <2>2, CalmApp DEF WorldSound
  <2> QED
    BY <1>2, <2>1, <2>3, CalmSound, SoundLater
<1>7. PICK c : c = CaptureError(w, e)
  OBVIOUS
<1>8. WorldSound(c, events)
  BY <1>7, CalmCaptureError, CalmSound DEF WorldSound
<1>9. PICK d : d = HandleCredential(c, e)
  OBVIOUS
<1>10. WorldSound(d, events)
  BY <1>8, <1>9, CalmHandleCredential, CalmSound DEF WorldSound
<1>11. PICK prepared : prepared = FinishActive(d, e)
  OBVIOUS
<1>12. WorldSound(prepared, events)
  BY <1>10, <1>11, CalmFinishActive, CalmSound DEF WorldSound
<1>13. WorldSound(HandleSaved(prepared, e), rest)
  BY <1>1, <1>2, <1>12, SoundHandleSaved
<1>14. PICK unsaved : unsaved = [prepared EXCEPT !.a.editor.save = 0]
  OBVIOUS
<1>15. WorldSound(unsaved, rest)
  <2>1. unsaved = [m |-> prepared.m, a |-> unsaved.a, p |-> prepared.p] /\ AppShaped(unsaved.a)
    <3>1. PICK editor : editor = [prepared.a.editor EXCEPT !.save = 0]
      OBVIOUS
    <3>2. EditorShaped(editor)
      BY <1>12, <3>1, EditorStays DEF WorldSound, Shaped, AppShaped
    <3>3. unsaved = [prepared EXCEPT !.a.editor = editor]
      BY <1>12, <1>14, <3>1 DEF WorldSound, Shaped, AppShaped
    <3> QED
      BY <1>12, <3>2, <3>3 DEF WorldSound, Shaped, AppShaped
  <2>2. Calm(prepared, unsaved)
    BY <1>12, <2>1, CalmApp DEF WorldSound
  <2> QED
    BY <1>2, <1>12, <2>2, CalmSound, SoundLater
<1>16. PICK warned : warned = IF e.kind = "ConfigUncertain" /\ w.a.editor # NoEditor
                              THEN [prepared EXCEPT !.a.editor.uncertain = TRUE] ELSE prepared
  OBVIOUS
<1>17. WorldSound(warned, events)
  <2>1. PICK x : x = [prepared EXCEPT !.a.editor.uncertain = TRUE]
    OBVIOUS
  <2>2. x = [m |-> prepared.m, a |-> x.a, p |-> prepared.p] /\ AppShaped(x.a)
    <3>1. PICK editor : editor = [prepared.a.editor EXCEPT !.uncertain = TRUE]
      OBVIOUS
    <3>2. EditorShaped(editor)
      BY <1>12, <3>1, EditorStays DEF WorldSound, Shaped, AppShaped
    <3>3. x = [prepared EXCEPT !.a.editor = editor]
      BY <1>12, <2>1, <3>1 DEF WorldSound, Shaped, AppShaped
    <3> QED
      BY <1>12, <3>2, <3>3 DEF WorldSound, Shaped, AppShaped
  <2>3. Calm(prepared, x)
    BY <1>12, <2>2, CalmApp DEF WorldSound
  <2>4. WorldSound(x, events)
    BY <1>12, <2>3, CalmSound
  <2> QED
    BY <1>12, <1>16, <2>1, <2>4
<1>18. PICK followed : followed = FoldAndFollow(warned, e)
  OBVIOUS
<1>19. WorldSound(followed, rest)
  BY <1>1, <1>2, <1>17, <1>18, SoundFollow
<1>20. PICK retried : retried = RetryRecipe(followed, w.a.prompt.recipe, w.a.prompt.source)
  OBVIOUS
<1>21. WorldSound(retried, rest)
  <2>1. Calm(followed, retried)
    BY <1>19, <1>20, CalmRetryRecipe DEF WorldSound
  <2> QED
    BY <1>19, <2>1, CalmSound
<1>22. Handle(w, e) \in {w, stale, HandleSaved(prepared, e), unsaved, retried, followed}
  <2>1. stale = Dropped(FinishActive(w, e), e)
    BY Zenon, <1>3, <1>5 DEF Dropped
  <2>2. unsaved = Unsaved(prepared)
    BY Zenon, <1>14 DEF Unsaved
  <2>3. warned = Marked(w, prepared, e)
    BY Zenon, <1>16 DEF Marked
  <2> QED
    BY SMT, <1>7, <1>9, <1>11, <1>18, <1>20, <2>1, <2>2, <2>3, HandleIs
<1>23. WorldSound(w, rest)
  BY <1>2, SoundLater
<1> QED
  BY <1>1, <1>2, <1>6, <1>13, <1>15, <1>19, <1>21, <1>22, <1>23

-----------------------------------------------------------------------------
(* Steps of the window                                                     *)

LEMMA WorldOf ==
    ASSUME WindowInv
    PROVE  WorldSound(World, events) /\ Shaped(World)
BY DEF WindowInv, World, WorldSound, Shaped

\* Generations and sessions that were made keep what they were made of.
ServiceGrows ==
    /\ Len(service.bodies) \in Nat /\ Len(service.opened) \in Nat
    /\ Len(service'.bodies) \in Nat /\ Len(service'.opened) \in Nat
    /\ Len(service.bodies) <= Len(service'.bodies)
    /\ \A g \in 1..Len(service.bodies) : service'.bodies[g] = service.bodies[g]
    /\ Len(service.opened) <= Len(service'.opened)
    /\ \A n \in 1..Len(service.opened) : service'.opened[n] = service.opened[n]

LEMMA GrowsStill ==
    ASSUME ServiceShaped(service), service'.bodies = service.bodies, service'.opened = service.opened
    PROVE  ServiceGrows
BY DEF ServiceShaped, ServiceGrows, Queue

LEMMA FitsStill ==
    ASSUME ServiceGrows, NEW n, NEW g, SessionFits(n, g)
    PROVE  SessionFits(n, g)'
BY SMTT(60) DEF ServiceGrows, SessionFits

LEMMA SameStill ==
    ASSUME ServiceGrows, NEW n, NEW g, SameEndpoint(n, g)
    PROVE  SameEndpoint(n, g)'
BY DEF ServiceGrows, SameEndpoint

LEMMA EventStill ==
    ASSUME ServiceGrows, NEW e, EventSound(e)
    PROVE  EventSound(e)'
BY FitsStill, SameStill DEF EventSound

\* The window becomes another sound world; the rest is as it was.
LEMMA WindowBecomes ==
    ASSUME WindowInv, NEW v, Become(v), WorldSound(v, events'), Answering',
           UNCHANGED <<tasks, mutation, service, disk, scenario>>
    PROVE  WindowInv'
<1>1. Backstage'
  BY DEF WindowInv, Backstage, GenerationsNamed, SessionsFit, TasksFit, MutationSound, SessionFits, SameEndpoint,
         Local, job
<1>2. ModelShaped(model') /\ AppShaped(app') /\ PortShaped(port')
  BY DEF Become, WorldSound, Shaped
<1>3. ModelSound(model, events)'
  BY DEF Become, WorldSound, ModelSound, Behind, Shown, CardFits, Above, SessionFits
<1> QED
  BY <1>1, <1>2, <1>3 DEF WindowInv

LEMMA PollKeeps ==
    ASSUME WindowInv, Poll
    PROVE  WindowInv'
<1>1. PICK v : v = Handle(World, Head(events))
  OBVIOUS
<1>2. WorldSound(v, Tail(events))
  BY <1>1, WorldOf, SoundHandle DEF Poll, WindowInv, Backstage
<1>3. Become(v) /\ events' = Tail(events) /\ service' = service
  BY <1>1 DEF Poll
<1>4. /\ Queue(events') /\ Len(events') \in Nat
      /\ \A k \in 1..Len(events') : events'[k] = events[k + 1] /\ k + 1 \in 1..Len(events)
  BY <1>3, QueueShrinks DEF Poll, WindowInv, Answering, Queue
<1>5. \A k \in 1..Len(events') : EventSound(events[k])'
  <2>1. ServiceGrows
    BY <1>3, GrowsStill DEF WindowInv, Backstage
  <2>2. ASSUME NEW k \in 1..Len(events')
        PROVE  EventSound(events[k])'
    <3>1. PICK e : e = events[k + 1]
      OBVIOUS
    <3>2. EventSound(e)
      BY <1>4, <3>1 DEF WindowInv, Answering
    <3>3. EventSound(e)'
      BY <2>1, <3>2, EventStill
    <3> QED
      BY <1>4, <3>1, <3>3
  <2> QED
    BY <2>2
<1>6. AnswersInOrder'
  <2>1. \A k \in 1..Len(events') : \A j \in 1..k : j + 1 \in 1..(k + 1) /\ j \in 1..Len(events')
    BY <1>4
  <2> QED
    BY <1>3, <1>4, <2>1 DEF WindowInv, Answering, AnswersInOrder, Told
<1>7. Answering'
  BY <1>4, <1>5, <1>6 DEF Answering
<1> QED
  BY <1>2, <1>3, <1>7, WindowBecomes DEF Poll, outside

\* What the user and the end of a frame do
CalmStep == UNCHANGED behind /\ \E v : Become(v) /\ Calm(World, v)

LEMMA CalmKeeps ==
    ASSUME WindowInv, CalmStep
    PROVE  WindowInv'
<1>0. PICK v : Become(v) /\ Calm(World, v)
  BY DEF CalmStep
<1>1. WorldSound(v, events)
  BY <1>0, WorldOf, CalmSound
<1>2. Answering' /\ events' = events
  BY SMTT(60) DEF CalmStep, behind, outside, WindowInv, Answering, AnswersInOrder, Told, EventSound, SessionFits, SameEndpoint
<1>3. WorldSound(v, events')
  BY <1>1, <1>2
<1> QED
  BY <1>0, <1>2, <1>3, WindowBecomes DEF CalmStep, behind, outside

LEMMA FinishFrameCalm ==
    ASSUME WindowInv, FinishFrame
    PROVE  CalmStep
<1>1. PICK v : v = EndFrame(World)
  OBVIOUS
<1>2. Calm(World, v)
  BY <1>1, WorldOf, CalmEndFrame
<1> QED
  BY <1>1, <1>2 DEF FinishFrame, CalmStep

LEMMA PressCalm ==
    ASSUME WindowInv, NEW button, NEW v, Press(button, v), Calm(World, v)
    PROVE  CalmStep
BY DEF Press, CalmStep

LEMMA RecoverCalm ==
    ASSUME WindowInv, NEW f, Recover(f)
    PROVE  CalmStep
<1>1. PICK w : w = World
  OBVIOUS
<1>2. /\ Calm(w, RetryRecipe(w, f.op, f.of)) /\ Calm(w, RecoverCredential(w, f))
      /\ Calm(w, SubmitReconnect(w, f.id)) /\ Calm(w, Dismiss(w, f))
  BY <1>1, WorldOf, CalmRetryRecipe, CalmRecoverCredential, CalmSubmitReconnect, CalmDismiss
<1>3. PICK button, v : Press(button, v) /\ v \in {RetryRecipe(w, f.op, f.of), RecoverCredential(w, f),
                                                   SubmitReconnect(w, f.id), Dismiss(w, f)}
  BY <1>1 DEF Recover
<1>4. Calm(World, v)
  BY <1>1, <1>2, <1>3
<1> QED
  BY <1>3, <1>4, PressCalm

LEMMA UserCalm ==
    ASSUME WindowInv, User
    PROVE  CalmStep
<1>0. Shaped(World)
  BY WorldOf
<1>1. ASSUME NEW id \in Ids, CardAction(id)
      PROVE  CalmStep
  <2>1. Calm(World, OpenEditor(World, id))
    BY <1>0, CalmOpenEditor
  <2>2. Calm(World, OpenDelete(World, id))
    BY <1>0, CalmConfirm, CalmStays DEF OpenDelete
  <2>3. CASE Press("Connect", SubmitTest(World, id))
    BY <1>0, <2>3, CalmSubmitTest, PressCalm
  <2>4. CASE Press("EnterCredential", OpenSessionPrompt(World, id))
    BY <1>0, <2>4, CalmOpenSessionPrompt, PressCalm
  <2>5. CASE Press("Disconnect", SubmitDisconnect(World, id))
    BY <1>0, <2>5, CalmSubmitDisconnect, PressCalm
  <2>6. CASE Press("Reconnect", SubmitReconnect(World, id))
    BY <1>0, <2>6, CalmSubmitReconnect, PressCalm
  <2>7. CASE Press("Edit", OpenEditor(World, id))
    BY <2>1, <2>7, PressCalm
  <2>8. CASE Press("Delete", OpenDelete(World, id))
    BY <2>2, <2>8, PressCalm
  <2> QED
    BY <1>1, <2>3, <2>4, <2>5, <2>6, <2>7, <2>8 DEF CardAction
<1>2. ASSUME NEW id \in Ids, WorkAction(id)
      PROVE  CalmStep
  <2>1. CASE Press("Execute", SubmitExecute(World, id))
    BY <1>0, <2>1, CalmSubmitExecute, PressCalm
  <2>2. CASE \E x \in model.executing : x.id = id /\ Press("CancelExecute", SubmitCancel(World, x.op))
    BY <1>0, <2>2, CalmSubmitCancel, PressCalm
  <2>3. CASE Press("Browse", SubmitBrowse(World, id))
    BY <1>0, <2>3, CalmSubmitBrowse, PressCalm
  <2>4. CASE Press("CancelBrowse", SubmitCancel(World, app.ops[id].op))
    BY <1>0, <2>4, CalmSubmitCancel, PressCalm
  <2> QED
    BY <1>2, <2>1, <2>2, <2>3, <2>4 DEF WorkAction
<1>3. CASE EditorAction
  <2>1. CASE Press("Add", NewEditor(World))
    <3>1. Calm(World, NewEditor(World))
      BY <1>0, CalmNewEditor
    <3> QED
      BY <2>1, <3>1, PressCalm
  <2>2. ASSUME NEW body \in scenario.bodies, NEW connect \in BOOLEAN, NEW secret, NEW button,
               Press(button, SubmitSave(World, body, secret, connect))
        PROVE  CalmStep
    <3>1. body # NoBody
      BY WindowAssumption DEF WindowInv, Backstage
    <3>2. Calm(World, SubmitSave(World, body, secret, connect))
      BY <1>0, <3>1, CalmSubmitSave
    <3> QED
      BY <2>2, <3>2, PressCalm
  <2>3. CASE Press("CancelEdit", CancelEditor(World))
    <3>1. Calm(World, CancelEditor(World))
      BY <1>0, CalmCancelEditor
    <3> QED
      BY <2>3, <3>1, PressCalm
  <2> QED
    BY <1>3, <2>1, <2>2, <2>3 DEF EditorAction
<1>4. CASE DialogAction
  <2>1. CASE Press("ConfirmDelete", ConfirmDelete(World))
    BY <1>0, <2>1, CalmConfirmDelete, PressCalm
  <2>2. CASE Press("CancelDelete", [World EXCEPT !.a.confirm = NoConfirmation])
    <3>1. Calm(World, [World EXCEPT !.a.confirm = NoConfirmation])
      BY <1>0, CalmConfirm
    <3> QED
      BY <2>2, <3>1, PressCalm
  <2>3. CASE Press("Store", SubmitPrompt(World))
    BY <1>0, <2>3, CalmSubmitPrompt, PressCalm
  <2>4. CASE Press("CancelPrompt", CancelPrompt(World))
    BY <1>0, <2>4, CalmCancelPrompt, PressCalm
  <2> QED
    BY <1>4, <2>1, <2>2, <2>3, <2>4 DEF DialogAction
<1>5. CASE RecoveryAction
  <2>1. CASE Press("Reload", SubmitRefresh(World))
    BY <1>0, <2>1, CalmSubmitRefresh, PressCalm
  <2> QED
    BY <1>5, <2>1, RecoverCalm DEF RecoveryAction
<1> QED
  BY <1>1, <1>2, <1>3, <1>4, <1>5 DEF User

-----------------------------------------------------------------------------
(* Steps behind the port: what the window is told                          *)

\* A generation that becomes current is new.
GensGrow ==
    \A i \in Ids : \/ service'.gens[i] \in {NoGen, service.gens[i]}
                   \/ service'.gens[i] \in Nat /\ service'.gens[i] > Len(service.bodies)

LEMMA NotTold ==
    ASSUME WindowInv, UNCHANGED <<window, events>>, ServiceGrows, GensGrow
    PROVE  Answering' /\ ModelSound(model, events)'
<1>1. \A i \in Ids : service.gens[i] \in Nat /\ model.active[i] \in Nat
  BY DEF WindowInv, Backstage, ServiceShaped, ModelShaped
<1>2. Len(service.bodies) \in Nat /\ Len(service'.bodies) \in Nat /\ Len(service.bodies) <= Len(service'.bodies)
  BY DEF ServiceGrows
<1>3. events' = events /\ model' = model
  BY DEF window
<1>4. ASSUME NEW x \in Nat, NEW i \in Ids, x <= Len(service.bodies), service.gens[i] # NoGen => x <= service.gens[i]
      PROVE  x <= Len(service'.bodies) /\ (service'.gens[i] # NoGen => x <= service'.gens[i])
  <2>1. \/ service'.gens[i] \in {NoGen, service.gens[i]}
        \/ service'.gens[i] \in Nat /\ service'.gens[i] > Len(service.bodies)
    BY DEF GensGrow
  <2> QED
    BY <1>1, <1>2, <1>4, <2>1
<1>5. \A k \in 1..Len(events) : EventSound(events[k])'
  <2>1. SUFFICES ASSUME NEW k \in 1..Len(events)
                 PROVE  EventSound(events[k])'
    OBVIOUS
  <2>2. PICK e : e = events[k]
    OBVIOUS
  <2>3. EventSound(e)'
    BY <2>2, EventStill DEF WindowInv, Answering
  <2> QED
    BY <1>3, <2>2, <2>3
<1>6. \A k \in 1..Len(events) : \A i \in Ids : Told(events[k], i) \in Nat
  BY ToldNat DEF WindowInv, Answering
<1>7. AnswersInOrder'
  <2>1. SUFFICES ASSUME NEW i \in Ids, NEW k \in 1..Len(events), Told(events[k], i) # NoGen
                 PROVE  /\ Told(events[k], i) <= Len(service'.bodies)
                        /\ service'.gens[i] # NoGen => Told(events[k], i) <= service'.gens[i]
                        /\ \A j \in 1..k : Told(events[j], i) <= Told(events[k], i)
    BY <1>3 DEF AnswersInOrder
  <2>2. /\ Told(events[k], i) <= Len(service.bodies)
        /\ service.gens[i] # NoGen => Told(events[k], i) <= service.gens[i]
        /\ \A j \in 1..k : Told(events[j], i) <= Told(events[k], i)
    BY <2>1 DEF WindowInv, Answering, AnswersInOrder
  <2> QED
    BY <1>4, <1>6, <2>2
<1>8. Answering'
  BY <1>3, <1>5, <1>7 DEF WindowInv, Answering
<1>9. ASSUME NEW i \in Ids
      PROVE  /\ Behind(model, events, i)' /\ Shown(model, i)' /\ CardFits(model, i)' /\ Above(model, i)'
  <2>1. Behind(model, events, i) /\ Shown(model, i) /\ CardFits(model, i) /\ Above(model, i)
    BY DEF WindowInv, ModelSound
  <2>2. Behind(model, events, i)'
    BY <1>1, <1>3, <1>4, <2>1 DEF Behind
  <2>3. CardFits(model, i)'
    <3>1. PICK n, g : n = model.conn[i].n /\ g = model.active[i]
      OBVIOUS
    <3>2. model.conn[i].is = "connected" => SessionFits(n, g)'
      BY <2>1, <3>1, FitsStill DEF CardFits
    <3> QED
      BY <1>3, <3>1, <3>2 DEF CardFits
  <2> QED
    BY <1>3, <2>1, <2>2, <2>3 DEF Shown, Above
<1>10. ModelSound(model, events)'
  BY <1>9 DEF ModelSound
<1> QED
  BY <1>8, <1>10

LEMMA IsTold ==
    ASSUME WindowInv, UNCHANGED window, service'.bodies = service.bodies, service'.opened = service.opened,
           service'.gens = service.gens, NEW e, events' = Append(events, e), EventSound(e),
           \A i \in Ids : Told(e, i) \in {NoGen, service.gens[i]}
    PROVE  Answering' /\ ModelSound(model, events)'
<1>1. \A i \in Ids : service.gens[i] \in Nat /\ model.active[i] \in Nat
  BY DEF WindowInv, Backstage, ServiceShaped, ModelShaped
<1>2. Len(service.bodies) \in Nat
  BY DEF WindowInv, Backstage, ServiceShaped, Queue
<1>3. model' = model
  BY DEF window
<1>4. ServiceGrows
  BY GrowsStill DEF WindowInv, Backstage
<1>5. /\ Queue(events') /\ Len(events') = Len(events) + 1 /\ events'[Len(events) + 1] = e
      /\ \A k \in 1..Len(events) : events'[k] = events[k]
  BY QueueGrows DEF WindowInv, Answering
<1>6. Len(events) \in Nat /\ \A k \in 1..Len(events') : k \in 1..Len(events) \/ k = Len(events) + 1
  BY <1>5 DEF WindowInv, Answering, Queue
<1>7. \A k \in 1..Len(events') : EventSound(events[k])'
  <2>1. SUFFICES ASSUME NEW k \in 1..Len(events')
                 PROVE  EventSound(events[k])'
    OBVIOUS
  <2>2. PICK x : x = IF k = Len(events) + 1 THEN e ELSE events[k]
    OBVIOUS
  <2>3. EventSound(x) /\ events'[k] = x
    BY <1>5, <1>6, <2>2 DEF WindowInv, Answering
  <2>4. EventSound(x)'
    BY <1>4, <2>3, EventStill
  <2> QED
    BY <2>3, <2>4
<1>8. \A k \in 1..Len(events) : \A i \in Ids : Told(events[k], i) \in Nat
  BY ToldNat DEF WindowInv, Answering
<1>9. ASSUME NEW i \in Ids, NEW k \in 1..Len(events'), Told(events'[k], i) # NoGen
      PROVE  /\ Told(events'[k], i) <= Len(service.bodies)
             /\ service.gens[i] # NoGen => Told(events'[k], i) <= service.gens[i]
             /\ \A j \in 1..k : Told(events'[j], i) <= Told(events'[k], i)
             /\ model.active[i] <= Told(events'[k], i)
  <2>1. CASE k \in 1..Len(events)
    <3>1. \A j \in 1..k : j \in 1..Len(events)
      BY <1>6, <2>1
    <3>2. events'[k] = events[k] /\ \A j \in 1..k : events'[j] = events[j]
      BY <1>5, <2>1, <3>1
    <3>3. /\ Told(events[k], i) <= Len(service.bodies)
          /\ service.gens[i] # NoGen => Told(events[k], i) <= service.gens[i]
          /\ \A j \in 1..k : Told(events[j], i) <= Told(events[k], i)
          /\ model.active[i] <= Told(events[k], i)
      BY <1>9, <2>1, <3>2 DEF WindowInv, Answering, AnswersInOrder, ModelSound, Behind
    <3> QED
      BY <3>2, <3>3
  <2>2. CASE k = Len(events) + 1
    <3>1. events'[k] = e /\ Told(e, i) = service.gens[i] /\ service.gens[i] # NoGen
      BY <1>5, <1>9, <2>2
    <3>2. service.gens[i] <= Len(service.bodies)
      BY <1>1, <1>2, <3>1 DEF WindowInv, Backstage, GenerationsNamed
    <3>3. model.active[i] <= service.gens[i]
      BY <3>1 DEF WindowInv, ModelSound, Behind
    <3>4. ASSUME NEW j \in 1..k
          PROVE  Told(events'[j], i) <= service.gens[i]
      <4>1. CASE j = k
        BY <1>1, <3>1, <4>1
      <4>2. CASE j # k
        <5>1. j \in 1..Len(events)
          BY <1>6, <2>2, <4>2
        <5>2. events'[j] = events[j]
          BY <1>5, <5>1
        <5>3. Told(events[j], i) # NoGen => Told(events[j], i) <= service.gens[i]
          BY <3>1, <5>1 DEF WindowInv, Answering, AnswersInOrder
        <5> QED
          BY <1>1, <1>8, <5>1, <5>2, <5>3 DEF NoGen
      <4> QED
        BY <4>1, <4>2
    <3> QED
      BY <1>1, <3>1, <3>2, <3>3, <3>4
  <2> QED
    BY <1>6, <2>1, <2>2
<1>10. AnswersInOrder'
  BY <1>9 DEF AnswersInOrder
<1>11. ASSUME NEW i \in Ids
       PROVE  /\ Behind(model, events, i)' /\ Shown(model, i)' /\ CardFits(model, i)' /\ Above(model, i)'
  <2>1. Behind(model, events, i) /\ Shown(model, i) /\ CardFits(model, i) /\ Above(model, i)
    BY DEF WindowInv, ModelSound
  <2>2. Behind(model, events, i)'
    BY <1>3, <1>9, <2>1 DEF Behind
  <2>3. CardFits(model, i)'
    BY <1>3, <2>1 DEF CardFits, SessionFits
  <2> QED
    BY <1>3, <2>1, <2>2, <2>3 DEF Shown, Above
<1>12. ModelSound(model, events)' /\ Answering'
  BY <1>5, <1>7, <1>10, <1>11 DEF ModelSound, Answering
<1> QED
  BY <1>12

\* The lanes
LEMMA PortPops ==
    ASSUME NEW p, PortShaped(p), NEW lane \in {"control", "mutation", "work"}, lane = "mutation" => p.mutation # <<>>,
           NEW q, q = [p EXCEPT ![lane] = Tail(@)]
    PROVE  PortShaped(q)
<1>1. CASE lane # "mutation"
  <2>1. q = [control |-> q.control, mutation |-> p.mutation, work |-> q.work, keys |-> q.keys]
    BY <1>1 DEF PortShaped
  <2>2. q.mutation = p.mutation
    BY <2>1
  <2> QED
    BY <2>1, <2>2 DEF PortShaped
<1>2. CASE lane = "mutation"
  <2>1. PICK s, t : s = p.mutation /\ t = Tail(s)
    OBVIOUS
  <2>2. q = [control |-> p.control, mutation |-> t, work |-> p.work, keys |-> p.keys]
    BY <1>2, <2>1 DEF PortShaped
  <2>3. Queue(s) /\ s # <<>>
    BY <1>2, <2>1 DEF PortShaped
  <2>4. Queue(t) /\ \A k \in 1..Len(t) : t[k] = s[k + 1] /\ k + 1 \in 1..Len(s)
    BY ZenonT(60), <2>1, <2>3, QueueShrinks
  <2>5. \A k \in 1..Len(t) : CommandShaped(t[k])
    BY <2>1, <2>4 DEF PortShaped
  <2>6. q.mutation = t /\ q.control = p.control /\ q.work = p.work /\ q.keys = p.keys
    BY <2>2
  <2> QED
    BY <2>2, <2>4, <2>5, <2>6 DEF PortShaped
<1> QED
  BY <1>1, <1>2

LEMMA PortReleases ==
    ASSUME NEW p, PortShaped(p), NEW keys, NEW q, q = [p EXCEPT !.keys = keys]
    PROVE  PortShaped(q)
<1>1. q = [control |-> p.control, mutation |-> p.mutation, work |-> p.work, keys |-> keys]
  BY DEF PortShaped
<1>2. q.control = p.control /\ q.mutation = p.mutation /\ q.work = p.work /\ q.keys = keys
  BY <1>1
<1> QED
  BY <1>1, <1>2 DEF PortShaped

LEMMA PortEmits ==
    ASSUME NEW p, PortShaped(p), NEW e, Emit(p, e)
    PROVE  PortShaped(port')
<1>1. PICK keys : keys = p.keys \ ReleasedKeys(e)
  OBVIOUS
<1>2. port' = [p EXCEPT !.keys = keys]
  BY <1>1 DEF Emit, PortShaped
<1> QED
  BY <1>2, PortReleases

LEMMA BehindWindow ==
    ASSUME WindowInv, UNCHANGED window, PortShaped(port'), Backstage', Answering', ModelSound(model, events)'
    PROVE  WindowInv'
BY DEF WindowInv, window

-----------------------------------------------------------------------------
(* The controller takes a command                                          *)

TaskFits(t) == TaskShaped(t) /\ (t.pc = "operate" /\ t.id \in Ids => SessionFits(t.session, t.gen))

LEMMA TasksAre ==
    ASSUME TasksFit
    PROVE  \A t \in tasks : TaskFits(t)
BY DEF TasksFit, TaskFits

LEMMA CancelledFit ==
    ASSUME TasksFit, NEW targets
    PROVE  \A t \in Cancelled(targets) : TaskFits(t)
<1>1. SUFFICES ASSUME NEW t \in tasks, NEW u, u = [t EXCEPT !.cancel = TRUE]
               PROVE  TaskFits(t) /\ TaskFits(u)
  BY DEF Cancelled
<1>2. TaskFits(t)
  BY TasksAre
<1>3. u = [op |-> t.op, kind |-> t.kind, id |-> t.id, gen |-> t.gen, pc |-> t.pc, session |-> t.session,
           waits |-> t.waits, cancel |-> TRUE]
  BY <1>1, <1>2 DEF TaskFits, TaskShaped
<1>4. TaskShaped(u) /\ u.pc = t.pc /\ u.id = t.id /\ u.session = t.session /\ u.gen = t.gen
  BY <1>3 DEF TaskShaped
<1> QED
  BY <1>2, <1>4 DEF TaskFits

LEMMA TaskStarts ==
    ASSUME NEW c, NEW pc, pc # "operate", NEW session, NEW waits
    PROVE  TaskFits(Task(c, pc, session, waits))
BY DEF TaskFits, TaskShaped, Task

LEMMA TasksOnly ==
    ASSUME WindowInv, UNCHANGED <<mutation, service, disk, scenario>>, \A t \in tasks' : TaskFits(t)
    PROVE  Backstage'
<1>1. TasksFit'
  BY DEF TasksFit, TaskFits, SessionFits
<1>2. /\ MutationShaped(mutation)' /\ ServiceShaped(service)' /\ (scenario \in Scenarios)'
      /\ (disk = [i \in Ids |-> disk[i]])'
  BY DEF WindowInv, Backstage
<1>3. GenerationsNamed' /\ SessionsFit'
  BY DEF WindowInv, Backstage, GenerationsNamed, SessionsFit, SessionFits
<1>4. MutationSound'
  BY DEF WindowInv, Backstage, MutationSound, SameEndpoint, job
<1> QED
  BY <1>1, <1>2, <1>3, <1>4 DEF Backstage

\* A refusal, and what tells of no generation and no session
LEMMA RefusalSound ==
    ASSUME NEW c, NEW outcome \in Outcomes
    PROVE  EventSound(Failure(c, outcome)) /\ \A i \in Ids : Told(Failure(c, outcome), i) = NoGen
BY DEF EventSound, Failure, Told

LEMMA UncertainSound ==
    ASSUME NEW op
    PROVE  EventSound(Uncertain(op)) /\ \A i \in Ids : Told(Uncertain(op), i) = NoGen
BY DEF EventSound, Uncertain, Told

\* A step that tells of nothing, and one that answers, of the service as it is
LEMMA StillNotTold ==
    ASSUME WindowInv, UNCHANGED <<window, events>>, service'.bodies = service.bodies, service'.opened = service.opened,
           service'.gens = service.gens
    PROVE  Answering' /\ ModelSound(model, events)'
<1>1. ServiceGrows
  BY GrowsStill DEF WindowInv, Backstage
<1>2. GensGrow
  BY DEF GensGrow
<1> QED
  BY <1>1, <1>2, NotTold

LEMMA Replies ==
    ASSUME WindowInv, UNCHANGED window, service'.bodies = service.bodies, service'.opened = service.opened,
           service'.gens = service.gens, NEW p, PortShaped(p), NEW e, Emit(p, e), EventSound(e),
           \A i \in Ids : Told(e, i) \in {NoGen, service.gens[i]}, Backstage'
    PROVE  WindowInv'
<1>1. events' = Append(events, e)
  BY DEF Emit
<1>2. Answering' /\ ModelSound(model, events)'
  BY <1>1, IsTold
<1>3. PortShaped(port')
  BY PortEmits
<1> QED
  BY <1>2, <1>3, BehindWindow

LEMMA PollControlKeeps ==
    ASSUME WindowInv, PollControl
    PROVE  WindowInv'
<1>1. PICK c : c = Head(port.control)
  OBVIOUS
<1>2. PICK p : p = Popped("control")
  OBVIOUS
<1>3. PortShaped(p)
  BY <1>2, PortPops DEF WindowInv, Popped
<1>4. UNCHANGED <<window, mutation, service, disk, scenario>>
  BY DEF PollControl, outside
<1>5. CASE Cancel(c)
  <2>1. PICK targets : tasks' = Cancelled(targets)
    BY <1>5 DEF Cancel
  <2>2. Backstage'
    BY <1>4, <2>1, CancelledFit, TasksOnly DEF WindowInv, Backstage
  <2>3. PICK keys : port' = [p EXCEPT !.keys = keys]
    BY <1>2, <1>5 DEF Cancel
  <2>4. PortShaped(port')
    BY <1>3, <2>3, PortReleases
  <2>5. Answering' /\ ModelSound(model, events)'
    BY <1>4, <1>5, StillNotTold DEF Cancel
  <2> QED
    BY <1>4, <2>2, <2>4, <2>5, BehindWindow
<1>6. CASE Emit([Popped("control") EXCEPT !.keys = @ \ {ControlKey(c)}], Uncertain(c.op)) /\ UNCHANGED tasks
  <2>1. PICK keys : keys = p.keys \ {ControlKey(c)}
    OBVIOUS
  <2>2. PICK q : q = [p EXCEPT !.keys = keys]
    OBVIOUS
  <2>3. PortShaped(q)
    BY <1>3, <2>2, PortReleases
  <2>4. Emit(q, Uncertain(c.op))
    BY <1>2, <1>3, <1>6, <2>1, <2>2 DEF PortShaped
  <2>5. Backstage'
    BY <1>4, <1>6, TasksAre, TasksOnly DEF WindowInv, Backstage
  <2>6. PICK e : e = Uncertain(c.op)
    OBVIOUS
  <2>7. EventSound(e) /\ \A i \in Ids : Told(e, i) \in {NoGen, service.gens[i]}
    BY <2>6, UncertainSound
  <2> QED
    BY <1>4, <2>3, <2>4, <2>5, <2>6, <2>7, Replies
<1>7. CASE StartControl(c)
  <2>1. PICK targets : targets = {t \in tasks : t.id = c.id /\ t.gen = c.gen}
    OBVIOUS
  <2>2. CASE ReconnectRefused(c, targets)
    <3>1. Emit(p, Failure(c, "preserve")) /\ UNCHANGED tasks
      BY <1>2, <1>7, <2>1, <2>2 DEF StartControl
    <3>2. Backstage'
      BY <1>4, <3>1, TasksAre, TasksOnly DEF WindowInv, Backstage
    <3>3. PICK e : e = Failure(c, "preserve")
      OBVIOUS
    <3>4. EventSound(e) /\ \A i \in Ids : Told(e, i) \in {NoGen, service.gens[i]}
      BY <3>3, RefusalSound DEF Outcomes
    <3> QED
      BY <1>3, <1>4, <3>1, <3>2, <3>3, <3>4, Replies
  <2>3. CASE ~ReconnectRefused(c, targets)
    <3>1. PICK session, waits : /\ tasks' = Cancelled(targets) \cup {Task(c, "wait", session, waits)}
                                /\ port' = p /\ UNCHANGED events
      BY <1>2, <1>7, <2>1, <2>3 DEF StartControl
    <3>2. \A t \in tasks' : TaskFits(t)
      BY <3>1, CancelledFit, TaskStarts DEF WindowInv, Backstage
    <3>3. Backstage'
      BY <1>4, <3>2, TasksOnly
    <3>4. Answering' /\ ModelSound(model, events)'
      BY <1>4, <3>1, StillNotTold
    <3> QED
      BY <1>3, <1>4, <3>1, <3>3, <3>4, BehindWindow
  <2> QED
    BY <2>2, <2>3
<1> QED
  BY <1>1, <1>5, <1>6, <1>7 DEF PollControl

LEMMA PollWorkKeeps ==
    ASSUME WindowInv, PollWork
    PROVE  WindowInv'
<1>1. PICK c : c = Head(port.work)
  OBVIOUS
<1>2. PICK p : p = Popped("work")
  OBVIOUS
<1>3. PortShaped(p)
  BY <1>2, PortPops DEF WindowInv, Popped
<1>4. UNCHANGED <<window, mutation, service, disk, scenario>>
  BY DEF PollWork, outside
<1>5. ASSUME NEW e, e \in {Uncertain(c.op), Failure(c, "preserve")}, Emit(p, e), UNCHANGED tasks
      PROVE  WindowInv'
  <2>1. Backstage'
    BY <1>4, <1>5, TasksAre, TasksOnly DEF WindowInv, Backstage
  <2>2. EventSound(e) /\ \A i \in Ids : Told(e, i) \in {NoGen, service.gens[i]}
    BY <1>5, UncertainSound, RefusalSound DEF Outcomes
  <2> QED
    BY <1>3, <1>4, <1>5, <2>1, <2>2, Replies
<1>6. CASE tasks' = tasks \cup {Task(c, "acquire", 0, {})} /\ port' = Popped("work") /\ UNCHANGED events
  <2>1. \A t \in tasks' : TaskFits(t)
    BY <1>6, TasksAre, TaskStarts DEF WindowInv, Backstage
  <2>2. Backstage'
    BY <1>4, <2>1, TasksOnly
  <2>3. Answering' /\ ModelSound(model, events)'
    BY <1>4, <1>6, StillNotTold
  <2> QED
    BY <1>2, <1>3, <1>4, <1>6, <2>2, <2>3, BehindWindow
<1> QED
  BY <1>1, <1>2, <1>5, <1>6 DEF PollWork

\* No mutation, or one that has not begun
LEMMA MutationResets ==
    ASSUME WindowInv, mutation.pc \in {"none", "run"}, UNCHANGED <<tasks, disk, scenario>>,
           ServiceShaped(service)', service'.profiles = service.profiles, service'.gens = service.gens,
           service'.bodies = service.bodies, service'.sessions = service.sessions, service'.opened = service.opened,
           MutationShaped(mutation)', mutation'.pc \in {"none", "run"}, mutation'.targets = {}, mutation'.retag = FALSE,
           mutation'.gen = NoGen
    PROVE  Backstage'
<1>1. mutation.targets = {}
  BY DEF WindowInv, Backstage, MutationSound
<1>2. GenerationsNamed' /\ TasksFit'
  BY DEF WindowInv, Backstage, GenerationsNamed, TasksFit, SessionFits
<1>3. SessionsFit'
  BY <1>1 DEF WindowInv, Backstage, SessionsFit, SessionFits
<1>4. MutationSound'
  <2>1. mutation'.gen \in Nat
    BY DEF NoGen
  <2>2. mutation'.retag \in BOOLEAN /\ ~mutation'.retag
    OBVIOUS
  <2>3. mutation'.pc \notin {"published", "join"}
    OBVIOUS
  <2> QED
    BY <2>1, <2>2, <2>3 DEF MutationSound
<1> QED
  BY <1>2, <1>3, <1>4 DEF WindowInv, Backstage

LEMMA NoMutationShaped ==
    MutationShaped(NoMutation) /\ NoMutation.targets = {} /\ NoMutation.retag = FALSE /\ NoMutation.gen = NoGen
        /\ NoMutation.pc = "none"
BY DEF MutationShaped, NoMutation, CommandShaped, Command

LEMMA PollMutationKeeps ==
    ASSUME WindowInv, PollMutation
    PROVE  WindowInv'
<1>1. PICK c : c = Head(port.mutation)
  OBVIOUS
<1>2. PICK p : p = Popped("mutation")
  OBVIOUS
<1>3. PortShaped(p)
  BY <1>2, PortPops DEF WindowInv, Popped, PollMutation
<1>4. UNCHANGED <<window, tasks, service, disk, scenario>>
  BY DEF PollMutation, outside
<1>5. CommandShaped(c)
  <2>1. PICK s : s = port.mutation
    OBVIOUS
  <2>2. Queue(s) /\ s # <<>>
    BY <2>1 DEF WindowInv, PortShaped, PollMutation
  <2>3. Head(s) = s[1] /\ 1 \in 1..Len(s)
    BY <2>2, QueueShrinks
  <2> QED
    BY <1>1, <2>1, <2>3 DEF WindowInv, PortShaped
<1>6. CASE Emit(Popped("mutation"), Uncertain(c.op)) /\ UNCHANGED mutation
  <2>1. Backstage'
    BY <1>4, <1>6, TasksAre, TasksOnly DEF WindowInv, Backstage
  <2>2. PICK e : e = Uncertain(c.op)
    OBVIOUS
  <2>3. EventSound(e) /\ \A i \in Ids : Told(e, i) \in {NoGen, service.gens[i]}
    BY <2>2, UncertainSound
  <2>4. Emit(p, e)
    BY <1>2, <1>6, <2>2
  <2> QED
    BY <1>3, <1>4, <2>1, <2>3, <2>4, Replies
<1>7. CASE mutation' = [NoMutation EXCEPT !.pc = "run", !.command = c] /\ port' = Popped("mutation") /\ UNCHANGED events
  <2>1. mutation.pc = "none"
    BY NoMutationShaped DEF PollMutation
  <2>2. PICK x : x = [NoMutation EXCEPT !.pc = "run", !.command = c]
    OBVIOUS
  <2>3. MutationShaped(x) /\ x.pc = "run" /\ x.targets = {} /\ x.retag = FALSE /\ x.gen = NoGen
    BY <1>5, <2>2 DEF MutationShaped, NoMutation
  <2>4. MutationShaped(mutation)' /\ mutation'.pc = "run" /\ mutation'.targets = {} /\ mutation'.retag = FALSE /\ mutation'.gen = NoGen
    BY <1>7, <2>2, <2>3
  <2>5. Backstage'
    BY <1>4, <2>1, <2>4, MutationResets DEF WindowInv, Backstage
  <2>6. Answering' /\ ModelSound(model, events)'
    BY <1>4, <1>7, StillNotTold
  <2> QED
    BY <1>2, <1>3, <1>4, <1>7, <2>5, <2>6, BehindWindow
<1> QED
  BY <1>1, <1>6, <1>7 DEF PollMutation

-----------------------------------------------------------------------------
(* Network operations                                                      *)

\* Sessions may be dropped.
LEMMA SessionsDrop ==
    ASSUME WindowInv, UNCHANGED <<mutation, disk, scenario>>, NEW sessions, sessions = [i \in Ids |-> sessions[i]],
           \A i \in Ids : sessions[i] \in {service.sessions[i], NoSession},
           service' = [service EXCEPT !.sessions = sessions], \A t \in tasks' : TaskFits(t)
    PROVE  /\ Backstage' /\ service'.bodies = service.bodies /\ service'.opened = service.opened
           /\ service'.gens = service.gens
<1>1. /\ service'.bodies = service.bodies /\ service'.opened = service.opened /\ service'.gens = service.gens
      /\ service'.profiles = service.profiles /\ service'.uncertain = service.uncertain /\ service'.sessions = sessions
  BY DEF WindowInv, Backstage, ServiceShaped
<1>2. ServiceShaped(service)'
  <2>1. \A i \in Ids : sessions[i] = [n |-> sessions[i].n, gen |-> sessions[i].gen]
    <3>1. NoSession = [n |-> NoSession.n, gen |-> NoSession.gen]
      BY DEF NoSession
    <3>2. \A i \in Ids : service.sessions[i] = [n |-> service.sessions[i].n, gen |-> service.sessions[i].gen]
      BY DEF WindowInv, Backstage, ServiceShaped
    <3> QED
      BY <3>1, <3>2
  <2> QED
    BY <2>1 DEF WindowInv, Backstage, ServiceShaped
<1>3. TasksFit' /\ GenerationsNamed'
  BY <1>1 DEF WindowInv, Backstage, TasksFit, TaskFits, GenerationsNamed, SessionFits
<1>4. SessionsFit'
  BY SMTT(60), <1>1 DEF WindowInv, Backstage, SessionsFit, SessionFits
<1>5. MutationSound'
  BY <1>1 DEF WindowInv, Backstage, MutationSound, SameEndpoint, job
<1> QED
  BY <1>1, <1>2, <1>3, <1>4, <1>5 DEF WindowInv, Backstage

LEMMA EvictedDrop ==
    ASSUME WindowInv, NEW exact, NEW sessions, sessions = Evicted(service.sessions, exact)
    PROVE  sessions = [i \in Ids |-> sessions[i]] /\ \A i \in Ids : sessions[i] \in {service.sessions[i], NoSession}
BY DEF Evicted

\* An operation ends: its task is gone, its answer on the way.
LEMMA Finishes ==
    ASSUME WindowInv, UNCHANGED taskFrame, NEW t \in tasks, NEW e, Finish(t, e), EventSound(e),
           \A i \in Ids : Told(e, i) = NoGen, NEW sessions, sessions = [i \in Ids |-> sessions[i]],
           \A i \in Ids : sessions[i] \in {service.sessions[i], NoSession},
           service' = [service EXCEPT !.sessions = sessions]
    PROVE  WindowInv'
<1>1. \A u \in tasks' : TaskFits(u)
  BY TasksAre DEF Finish, WindowInv, Backstage
<1>2. /\ Backstage' /\ service'.bodies = service.bodies /\ service'.opened = service.opened
      /\ service'.gens = service.gens
  BY <1>1, SessionsDrop DEF taskFrame, outside
<1>3. Emit(port, e) /\ UNCHANGED window /\ PortShaped(port)
  BY DEF Finish, taskFrame, WindowInv
<1> QED
  BY <1>2, <1>3, Replies

LEMMA FinishesStill ==
    ASSUME WindowInv, UNCHANGED <<service, taskFrame>>, NEW t \in tasks, NEW e, Finish(t, e), EventSound(e),
           \A i \in Ids : Told(e, i) = NoGen
    PROVE  WindowInv'
<1>1. PICK sessions : sessions = service.sessions
  OBVIOUS
<1>2. sessions = [i \in Ids |-> sessions[i]] /\ service' = [service EXCEPT !.sessions = sessions]
  BY <1>1 DEF WindowInv, Backstage, ServiceShaped
<1>3. \A i \in Ids : sessions[i] \in {service.sessions[i], NoSession}
  BY <1>1
<1> QED
  BY <1>2, <1>3, Finishes

LEMMA FinishesEvicting ==
    ASSUME WindowInv, UNCHANGED taskFrame, NEW t \in tasks, NEW e, Finish(t, e), EventSound(e),
           \A i \in Ids : Told(e, i) = NoGen, NEW exact,
           service' = [service EXCEPT !.sessions = Evicted(@, exact)]
    PROVE  WindowInv'
<1>1. PICK sessions : sessions = Evicted(service.sessions, exact)
  OBVIOUS
<1>2. service' = [service EXCEPT !.sessions = sessions]
  BY <1>1 DEF WindowInv, Backstage, ServiceShaped
<1>3. sessions = [i \in Ids |-> sessions[i]] /\ \A i \in Ids : sessions[i] \in {service.sessions[i], NoSession}
  BY <1>1, EvictedDrop
<1> QED
  BY <1>2, <1>3, Finishes

LEMMA DisconnectKeeps ==
    ASSUME WindowInv, NEW t \in tasks, Disconnect(t)
    PROVE  WindowInv'
<1>1. UNCHANGED taskFrame
  BY DEF Disconnect
<1>2. ASSUME NEW outcome \in {"unknown", "preserve"}, Finish(t, Failure(t, outcome)), UNCHANGED service
      PROVE  WindowInv'
  <2>1. PICK e : e = Failure(t, outcome)
    OBVIOUS
  <2>2. EventSound(e) /\ \A i \in Ids : Told(e, i) = NoGen
    BY <2>1, RefusalSound DEF Outcomes
  <2> QED
    BY <1>1, <1>2, <2>1, <2>2, FinishesStill
<1>3. ASSUME service' = [service EXCEPT !.sessions = Evicted(@, {<<t.id, [n |-> t.session, gen |-> t.gen]>>})],
             Finish(t, [kind |-> "ConnectionClosed", op |-> t.op, id |-> t.id, gen |-> t.gen,
                        post |-> IF Locked(t.id) THEN NeedsCredential ELSE Disconnected])
      PROVE  WindowInv'
  <2>1. PICK post : post = IF Locked(t.id) THEN NeedsCredential ELSE Disconnected
    OBVIOUS
  <2>2. PICK e : e = [kind |-> "ConnectionClosed", op |-> t.op, id |-> t.id, gen |-> t.gen, post |-> post]
    OBVIOUS
  <2>3. EventSound(e) /\ \A i \in Ids : Told(e, i) = NoGen
    BY <2>1, <2>2 DEF EventSound, Told
  <2>4. PICK exact : exact = {<<t.id, [n |-> t.session, gen |-> t.gen]>>}
    OBVIOUS
  <2> QED
    BY <1>1, <1>3, <2>1, <2>2, <2>3, <2>4, FinishesEvicting
<1> QED
  BY <1>2, <1>3 DEF Disconnect

\* A Reconnect that got its permits
ReconnectEvicts(t) ==
    /\ service' = [service EXCEPT !.sessions =
                      Evicted(@, {<<t.id, [n |-> t.session, gen |-> t.gen]>>})]
    /\ Replace(t, [t EXCEPT !.pc = "acquire", !.session = 0])
    /\ UNCHANGED <<port, events, taskFrame>>

LEMMA ReconnectEvictsKeeps ==
    ASSUME WindowInv, NEW t \in tasks, ReconnectEvicts(t)
    PROVE  WindowInv'
<1>1. PICK u : u = [t EXCEPT !.pc = "acquire", !.session = 0]
  OBVIOUS
<1>2. TaskFits(u)
  <2>1. TaskShaped(t)
    BY DEF WindowInv, Backstage, TasksFit
  <2>2. TaskShaped(u) /\ u.pc = "acquire"
    BY <1>1, <2>1 DEF TaskShaped
  <2> QED
    BY <2>2 DEF TaskFits
<1>3. \A x \in tasks' : TaskFits(x)
  BY <1>1, <1>2, TasksAre DEF ReconnectEvicts, Replace, WindowInv, Backstage
<1>4. PICK sessions : sessions = Evicted(service.sessions, {<<t.id, [n |-> t.session, gen |-> t.gen]>>})
  OBVIOUS
<1>5. service' = [service EXCEPT !.sessions = sessions]
  BY <1>4 DEF ReconnectEvicts, WindowInv, Backstage, ServiceShaped
<1>6. sessions = [i \in Ids |-> sessions[i]] /\ \A i \in Ids : sessions[i] \in {service.sessions[i], NoSession}
  BY <1>4, EvictedDrop
<1>7. UNCHANGED <<window, port, events, mutation, disk, scenario>>
  BY DEF ReconnectEvicts, taskFrame, outside
<1>8. /\ Backstage' /\ service'.bodies = service.bodies /\ service'.opened = service.opened
      /\ service'.gens = service.gens
  BY <1>3, <1>5, <1>6, <1>7, SessionsDrop
<1>9. Answering' /\ ModelSound(model, events)'
  BY <1>7, <1>8, StillNotTold
<1> QED
  BY <1>7, <1>8, <1>9, BehindWindow DEF WindowInv

LEMMA ReconnectKeeps ==
    ASSUME WindowInv, NEW t \in tasks, Reconnect(t)
    PROVE  WindowInv'
<1>1. UNCHANGED taskFrame
  BY DEF Reconnect
<1>2. CASE ReconnectEvicts(t)
  BY <1>2, ReconnectEvictsKeeps
<1>3. CASE Finish(t, Failure(t, "unknown")) /\ UNCHANGED service
  <2>1. PICK e : e = Failure(t, "unknown")
    OBVIOUS
  <2>2. EventSound(e) /\ \A i \in Ids : Told(e, i) = NoGen
    BY <2>1, RefusalSound DEF Outcomes
  <2> QED
    BY <1>1, <1>3, <2>1, <2>2, FinishesStill
<1> QED
  BY <1>2, <1>3 DEF Reconnect, ReconnectEvicts

\* What an operation answers names its own session, if any.
LEMMA AnswerSound ==
    ASSUME NEW t, NEW ok \in BOOLEAN, NEW session, NEW disposition, NEW outcome \in Outcomes,
           t.id \in Ids /\ disposition = "keep" => SessionFits(session, t.gen), ok => disposition = "keep"
    PROVE  LET e == Answer(t, ok, session, disposition, outcome)
           IN  EventSound(e) /\ \A i \in Ids : Told(e, i) = NoGen
<1> DEFINE named(kind) == [kind |-> kind, op |-> t.op, id |-> t.id, gen |-> t.gen, session |-> session,
                           disposition |-> disposition, outcome |-> outcome, failed |-> ~ok]
<1>1. PICK e : e = Answer(t, ok, session, disposition, outcome)
  OBVIOUS
<1>2. CASE t.kind = "browse"
  <2>1. \E kind \in {"RedisKeys", "CatalogPage"} : e = named(kind)
    BY <1>1, <1>2 DEF Answer
  <2> QED
    BY <1>1, <2>1 DEF EventSound, Told
<1>3. CASE t.kind = "execute" /\ ok
  <2>1. e = named("QueryFinished")
    BY <1>1, <1>3 DEF Answer
  <2>2. e.kind = "QueryFinished" /\ e.id = t.id /\ e.gen = t.gen /\ e.session = session
    BY <2>1
  <2>3. e.id \in Ids => SessionFits(e.session, e.gen)
    BY <1>3, <2>2
  <2> QED
    BY <1>1, <2>2, <2>3 DEF EventSound, Told
<1>4. CASE t.kind \in {"connect", "reconnect"} /\ ok
  <2>1. e = named("ConnectionReady")
    BY <1>1, <1>4 DEF Answer
  <2>2. e.kind = "ConnectionReady" /\ e.id = t.id /\ e.gen = t.gen /\ e.session = session
    BY <2>1
  <2>3. e.id \in Ids => SessionFits(e.session, e.gen)
    BY <1>4, <2>2
  <2> QED
    BY <1>1, <2>2, <2>3 DEF EventSound, Told
<1>5. CASE ~(t.kind = "browse" \/ (t.kind = "execute" /\ ok) \/ (t.kind \in {"connect", "reconnect"} /\ ok))
  <2>1. e = Failure(t, outcome)
    BY <1>1, <1>5 DEF Answer
  <2> QED
    BY <1>1, <2>1, RefusalSound
<1> QED
  BY <1>2, <1>3, <1>4, <1>5

LEMMA AcquireFailsKeeps ==
    ASSUME WindowInv, NEW t \in tasks, AcquireFails(t)
    PROVE  WindowInv'
<1>1. PICK outcome \in Outcomes : Finish(t, Answer(t, FALSE, 0, "none", outcome))
  BY DEF AcquireFails, Outcomes
<1>2. PICK e : e = Answer(t, FALSE, 0, "none", outcome)
  OBVIOUS
<1>3. EventSound(e) /\ \A i \in Ids : Told(e, i) = NoGen
  BY <1>2, AnswerSound
<1> QED
  BY <1>1, <1>2, <1>3, FinishesStill DEF AcquireFails

LEMMA OperateEndsKeeps ==
    ASSUME WindowInv, NEW t \in tasks, OperateEnds(t)
    PROVE  WindowInv'
<1>1. PICK ok \in BOOLEAN :
         /\ Finish(t, Answer(t, ok, t.session, "keep", "preserve"))
         /\ service' = [service EXCEPT !.sessions =
                IF ok \/ t.kind \in {"execute", "browse"} THEN @
                ELSE Evicted(@, {<<t.id, [n |-> t.session, gen |-> t.gen]>>})]
  BY DEF OperateEnds
<1>2. PICK e : e = Answer(t, ok, t.session, "keep", "preserve")
  OBVIOUS
<1>3. t.id \in Ids => SessionFits(t.session, t.gen)
  BY DEF OperateEnds, WindowInv, Backstage, TasksFit
<1>4. EventSound(e) /\ \A i \in Ids : Told(e, i) = NoGen
  BY <1>2, <1>3, AnswerSound DEF Outcomes
<1>5. UNCHANGED taskFrame
  BY DEF OperateEnds
<1>6. CASE ok \/ t.kind \in {"execute", "browse"}
  <2>1. service' = service
    BY <1>1, <1>6 DEF WindowInv, Backstage, ServiceShaped
  <2> QED
    BY <1>1, <1>2, <1>4, <1>5, <2>1, FinishesStill
<1>7. CASE ~(ok \/ t.kind \in {"execute", "browse"})
  <2>1. PICK exact : exact = {<<t.id, [n |-> t.session, gen |-> t.gen]>>}
    OBVIOUS
  <2>2. service' = [service EXCEPT !.sessions = Evicted(@, exact)]
    BY <1>1, <1>7, <2>1
  <2> QED
    BY <1>1, <1>2, <1>4, <1>5, <2>2, FinishesEvicting
<1> QED
  BY <1>6, <1>7

LEMMA OperateEvictsKeeps ==
    ASSUME WindowInv, NEW t \in tasks, OperateEvicts(t)
    PROVE  WindowInv'
<1>1. PICK outcome \in Outcomes : Finish(t, Answer(t, FALSE, t.session, "evict", outcome))
  BY DEF OperateEvicts, Outcomes
<1>2. PICK e : e = Answer(t, FALSE, t.session, "evict", outcome)
  OBVIOUS
<1>3. EventSound(e) /\ \A i \in Ids : Told(e, i) = NoGen
  BY <1>2, AnswerSound
<1>4. PICK exact : exact = {<<t.id, [n |-> t.session, gen |-> t.gen]>>}
  OBVIOUS
<1>5. service' = [service EXCEPT !.sessions = Evicted(@, exact)] /\ UNCHANGED taskFrame
  BY <1>4 DEF OperateEvicts
<1> QED
  BY <1>1, <1>2, <1>3, <1>5, FinishesEvicting

LEMMA AcquireKeeps ==
    ASSUME WindowInv, NEW t \in tasks, Acquire(t)
    PROVE  WindowInv'
<1>1. UNCHANGED <<window, port, events, mutation, disk, scenario>>
  BY DEF Acquire, taskFrame, outside
<1>2. TaskShaped(t) /\ ServiceShaped(service)
  BY DEF WindowInv, Backstage, TasksFit
<1>3. Current(t.id, t.gen)
  BY DEF Acquire
<1>4. ASSUME NEW n, tasks' = (tasks \ {t}) \cup {[t EXCEPT !.pc = "operate", !.session = n]}, ServiceGrows,
             t.id \in Ids => SessionFits(n, t.gen)'
      PROVE  TasksFit'
  <2>1. PICK u : u = [t EXCEPT !.pc = "operate", !.session = n]
    OBVIOUS
  <2>2. TaskShaped(u) /\ u.id = t.id /\ u.gen = t.gen /\ u.session = n
    BY <1>2, <2>1 DEF TaskShaped
  <2>3. \A x \in tasks : TaskShaped(x) /\ (x.pc = "operate" /\ x.id \in Ids => SessionFits(x.session, x.gen)')
    BY <1>4, FitsStill DEF WindowInv, Backstage, TasksFit
  <2> QED
    BY <1>4, <2>1, <2>2, <2>3 DEF TasksFit
<1>5. CASE service.sessions[t.id].gen = t.gen
  <2>1. PICK n : n = service.sessions[t.id].n
    OBVIOUS
  <2>2. service' = service /\ tasks' = (tasks \ {t}) \cup {[t EXCEPT !.pc = "operate", !.session = n]}
    BY <1>5, <2>1 DEF Acquire, Replace
  <2>3. ServiceGrows
    BY <1>2, <2>2, GrowsStill
  <2>4. t.id \in Ids => SessionFits(n, t.gen)
    <3>1. t.gen # NoGen
      BY <1>3 DEF Current
    <3>2. service.sessions[t.id] # NoSession
      BY <1>5, <3>1 DEF NoSession
    <3> QED
      BY <1>5, <2>1, <3>2 DEF WindowInv, Backstage, SessionsFit
  <2>5. TasksFit'
    BY <1>4, <2>2, <2>3, <2>4, FitsStill
  <2>6. \A x \in tasks' : TaskFits(x)
    BY <2>2, <2>5 DEF TasksFit, TaskFits, SessionFits
  <2>7. Backstage'
    BY <1>1, <2>2, <2>6, TasksOnly
  <2>8. Answering' /\ ModelSound(model, events)'
    BY <1>1, <2>2, StillNotTold
  <2> QED
    BY <1>1, <2>7, <2>8, BehindWindow DEF WindowInv
<1>6. CASE service.sessions[t.id].gen # t.gen
  <2>1. PICK n : n = Len(service.opened) + 1
    OBVIOUS
  <2>2. PICK body : body = service.profiles[t.id]
    OBVIOUS
  <2>3. PICK opened : opened = Append(service.opened, body)
    OBVIOUS
  <2>4. PICK sessions : sessions = [service.sessions EXCEPT ![t.id] = [n |-> n, gen |-> t.gen]]
    OBVIOUS
  <2>5. service' = [service EXCEPT !.sessions = sessions, !.opened = opened]
    <3>1. service' = [service EXCEPT !.sessions[t.id] = [n |-> n, gen |-> t.gen],
                                     !.opened = Append(@, service.profiles[t.id])]
      BY <1>6, <2>1 DEF Acquire
    <3> QED
      BY <1>2, <2>2, <2>3, <2>4, <3>1 DEF ServiceShaped
  <2>6. tasks' = (tasks \ {t}) \cup {[t EXCEPT !.pc = "operate", !.session = n]}
    BY <1>6, <2>1 DEF Acquire, Replace
  <2>7. Queue(opened) /\ Len(opened) = n /\ opened[n] = body /\ \A k \in 1..Len(service.opened) : opened[k] = service.opened[k]
    <3>1. PICK s : s = service.opened
      OBVIOUS
    <3>2. Queue(s)
      BY <1>2, <3>1 DEF ServiceShaped
    <3>3. /\ Queue(Append(s, body)) /\ Len(Append(s, body)) = Len(s) + 1 /\ Append(s, body)[Len(s) + 1] = body
          /\ \A k \in 1..Len(s) : Append(s, body)[k] = s[k]
      BY <3>2, QueueGrows
    <3> QED
      BY <2>1, <2>3, <3>1, <3>3
  <2>8. /\ service'.opened = opened /\ service'.sessions = sessions /\ service'.bodies = service.bodies
        /\ service'.gens = service.gens /\ service'.profiles = service.profiles
        /\ service'.uncertain = service.uncertain
    BY <1>2, <2>5 DEF ServiceShaped
  <2>9. Len(service.opened) \in Nat /\ Len(service.bodies) \in Nat
    BY <1>2 DEF ServiceShaped, Queue
  <2>10. ServiceGrows
    BY <2>1, <2>7, <2>8, <2>9 DEF ServiceGrows
  <2>11. t.id \in Ids => SessionFits(n, t.gen)'
    <3>1. t.id \in Ids => t.gen \in 1..Len(service.bodies) /\ service.bodies[t.gen] = body
      BY <1>3, <2>2 DEF Current, WindowInv, Backstage, GenerationsNamed
    <3>2. n \in 1..Len(opened)
      BY <2>1, <2>7, <2>9
    <3> QED
      BY <2>7, <2>8, <3>1, <3>2 DEF SessionFits
  <2>12. TasksFit'
    BY <1>4, <2>6, <2>10, <2>11
  <2>13. /\ sessions = [i \in Ids |-> sessions[i]]
         /\ \A i \in Ids : sessions[i] = IF i = t.id THEN [n |-> n, gen |-> t.gen] ELSE service.sessions[i]
    BY <1>2, <2>4 DEF ServiceShaped
  <2>14. ServiceShaped(service)'
    <3>1. \A i \in Ids : sessions[i] = [n |-> sessions[i].n, gen |-> sessions[i].gen]
      BY <1>2, <2>13 DEF ServiceShaped
    <3> QED
      BY <1>2, <2>5, <2>7, <2>13, <3>1 DEF ServiceShaped
  <2>15. SessionsFit'
    <3>1. SUFFICES ASSUME NEW i \in Ids, sessions[i] # NoSession
                   PROVE  /\ SessionFits(sessions[i].n, sessions[i].gen)'
                          /\ \/ sessions[i].gen = service.gens[i]
                             \/ \E g \in mutation.targets : g.id = i /\ g.session = sessions[i]
      BY <1>1, <2>8 DEF SessionsFit
    <3>2. CASE i = t.id
      <4>1. sessions[i].n = n /\ sessions[i].gen = t.gen /\ service.gens[i] = t.gen
        BY <1>3, <2>13, <3>2 DEF Current
      <4> QED
        BY <2>11, <3>2, <4>1
    <3>3. CASE i # t.id
      <4>1. PICK x, g : x = service.sessions[i].n /\ g = service.sessions[i].gen
        OBVIOUS
      <4>2. sessions[i] = service.sessions[i]
        BY <2>13, <3>3
      <4>3. SessionFits(x, g)
        BY <3>1, <4>1, <4>2 DEF WindowInv, Backstage, SessionsFit
      <4>4. SessionFits(x, g)'
        BY <2>10, <4>3, FitsStill
      <4> QED
        BY <3>1, <4>1, <4>2, <4>4 DEF WindowInv, Backstage, SessionsFit
    <3> QED
      BY <3>2, <3>3
  <2>16. MutationSound'
    BY <1>1, <2>8 DEF WindowInv, Backstage, MutationSound, SameEndpoint, job
  <2>17. GenerationsNamed'
    BY <2>8 DEF WindowInv, Backstage, GenerationsNamed
  <2>18. Backstage'
    BY <1>1, <2>12, <2>14, <2>15, <2>16, <2>17 DEF WindowInv, Backstage
  <2>19. GensGrow
    BY <2>8 DEF GensGrow
  <2>20. Answering' /\ ModelSound(model, events)'
    BY <1>1, <2>10, <2>19, NotTold
  <2> QED
    BY <1>1, <2>18, <2>20, BehindWindow DEF WindowInv
<1> QED
  BY <1>5, <1>6

-----------------------------------------------------------------------------
(* Mutations: what does not touch generations                              *)

\* The mutation has not begun, and is over.
LEMMA EndsBefore ==
    ASSUME WindowInv, mutation.pc = "run", mutation' = NoMutation, UNCHANGED <<tasks, disk, scenario, window>>,
           NEW secrets, service' = [service EXCEPT !.secrets = secrets], NEW e, Emit(port, e), EventSound(e),
           \A i \in Ids : Told(e, i) = NoGen
    PROVE  WindowInv'
<1>1. ServiceShaped(service)
  BY DEF WindowInv, Backstage
<1>2. /\ ServiceShaped(service') /\ service'.profiles = service.profiles /\ service'.gens = service.gens
      /\ service'.bodies = service.bodies /\ service'.sessions = service.sessions /\ service'.opened = service.opened
  BY <1>1 DEF ServiceShaped
<1>3. Backstage'
  BY <1>2, NoMutationShaped, MutationResets
<1> QED
  BY <1>2, <1>3, Replies DEF WindowInv

LEMMA StoreSecretKeeps ==
    ASSUME WindowInv, StoreSecret
    PROVE  WindowInv'
<1>1. ServiceShaped(service)
  BY DEF WindowInv, Backstage
<1>2. PICK stored \in BOOLEAN : stored = (Current(job.id, job.gen) /\ service.profiles[job.id] \in SessionBodies)
  OBVIOUS
<1>3. PICK secrets : secrets = IF stored THEN service.secrets \cup {job.id} ELSE service.secrets
  OBVIOUS
<1>4. service' = [service EXCEPT !.secrets = secrets]
  <2>1. service' = IF stored THEN [service EXCEPT !.secrets = @ \cup {job.id}] ELSE service
    BY <1>2 DEF StoreSecret
  <2> QED
    BY <1>1, <1>3, <2>1 DEF ServiceShaped
<1>5. PICK e : e = [kind |-> IF stored THEN "CredentialsStored" ELSE "CredentialsStoreFailed",
                    op |-> job.op, id |-> job.id, gen |-> job.gen]
  OBVIOUS
<1>6. Emit(port, e)
  BY <1>2, <1>5 DEF StoreSecret
<1>7. EventSound(e) /\ \A i \in Ids : Told(e, i) = NoGen
  BY <1>5 DEF EventSound, Told
<1>8. mutation.pc = "run" /\ mutation' = NoMutation /\ UNCHANGED <<tasks, disk, scenario, window>>
  BY DEF StoreSecret, mutationFrame, outside
<1> QED
  BY <1>4, <1>6, <1>7, <1>8, EndsBefore

LEMMA RefuseKeeps ==
    ASSUME WindowInv, Refuse
    PROVE  WindowInv'
<1>1. PICK secrets : secrets = service.secrets
  OBVIOUS
<1>2. service' = [service EXCEPT !.secrets = secrets]
  BY <1>1 DEF Refuse, WindowInv, Backstage, ServiceShaped
<1>3. PICK e : /\ Emit(port, e)
               /\ e \in {[kind |-> "ProfileCreateFailed", op |-> job.op], [kind |-> "ProfileUpdateFailed", op |-> job.op],
                         Failure(job, "preserve")}
  <2>1. CASE job.kind = "create"
    BY <2>1 DEF Refuse
  <2>2. CASE job.kind = "update"
    BY <2>2 DEF Refuse
  <2>3. CASE job.kind = "delete"
    BY <2>3 DEF Refuse
  <2> QED
    BY <2>1, <2>2, <2>3 DEF Refuse
<1>4. EventSound(e) /\ \A i \in Ids : Told(e, i) = NoGen
  <2>1. CASE e = Failure(job, "preserve")
    BY <2>1, RefusalSound DEF Outcomes
  <2>2. CASE e.kind \in {"ProfileCreateFailed", "ProfileUpdateFailed"}
    BY <2>2 DEF EventSound, Told
  <2> QED
    BY <1>3, <2>1, <2>2
<1>5. mutation.pc = "run" /\ mutation' = NoMutation /\ UNCHANGED <<tasks, disk, scenario, window>>
  BY DEF Refuse, mutationFrame, outside
<1> QED
  BY <1>2, <1>3, <1>4, <1>5, EndsBefore

LEMMA CompleteKeeps ==
    ASSUME WindowInv, Complete
    PROVE  WindowInv'
<1>1. UNCHANGED <<window, port, events, service, disk, scenario>>
  BY DEF Complete, mutationFrame, outside
<1>2. PICK targets : tasks' = Cancelled(targets)
  BY DEF Complete
<1>3. PICK waits, active : mutation' = [mutation EXCEPT !.pc = "join", !.waits = waits, !.active = active]
  BY DEF Complete
<1>4. /\ MutationShaped(mutation') /\ mutation'.pc = "join" /\ mutation'.command = mutation.command
      /\ mutation'.profiles = mutation.profiles /\ mutation'.targets = mutation.targets
      /\ mutation'.retag = mutation.retag /\ mutation'.gen = mutation.gen
  BY <1>3 DEF WindowInv, Backstage, MutationShaped
<1>5. TasksFit'
  BY <1>1, <1>2, CancelledFit DEF WindowInv, Backstage, TasksFit, TaskFits, SessionFits
<1>6. SessionsFit' /\ GenerationsNamed'
  BY <1>1, <1>4 DEF WindowInv, Backstage, SessionsFit, GenerationsNamed, SessionFits
<1>7. MutationSound'
  BY <1>1, <1>4 DEF WindowInv, Backstage, MutationSound, SameEndpoint, job, Complete
<1>8. Backstage'
  BY <1>1, <1>4, <1>5, <1>6, <1>7 DEF WindowInv, Backstage
<1>9. Answering' /\ ModelSound(model, events)'
  BY <1>1, StillNotTold
<1> QED
  BY <1>1, <1>8, <1>9, BehindWindow DEF WindowInv

LEMMA EditDiskKeeps ==
    ASSUME WindowInv, EditDisk
    PROVE  WindowInv'
<1>1. UNCHANGED <<window, port, events, tasks, mutation, service, scenario>>
  BY DEF EditDisk
<1>2. disk' = [i \in Ids |-> disk'[i]]
  BY WindowAssumption DEF EditDisk, WindowInv, Backstage, Disks, Unreadable
<1>3. GenerationsNamed' /\ SessionsFit' /\ TasksFit'
  BY <1>1 DEF WindowInv, Backstage, SessionsFit, GenerationsNamed, TasksFit, SessionFits
<1>4. MutationSound'
  BY <1>1 DEF WindowInv, Backstage, MutationSound, SameEndpoint, job
<1>5. Backstage'
  BY <1>1, <1>2, <1>3, <1>4 DEF WindowInv, Backstage
<1>6. Answering' /\ ModelSound(model, events)'
  BY <1>1, StillNotTold
<1> QED
  BY <1>1, <1>5, <1>6, BehindWindow DEF WindowInv

-----------------------------------------------------------------------------
(* Numbering                                                               *)

Rank(S, i) == Cardinality({j \in S : j < i})

\* The members of a set of ids have different ranks below its size.
LEMMA Ranks ==
    ASSUME NEW S, S \subseteq Ids
    PROVE  /\ Cardinality(S) \in Nat /\ \A i : Rank(S, i) \in Nat
           /\ \A i \in S : Rank(S, i) < Cardinality(S)
           /\ \A i, k \in S : i # k => Rank(S, i) # Rank(S, k)
<1>1. IsFiniteSet(S) /\ S \subseteq Nat
  BY WindowAssumption, UiModelAssumption, FS_Subset
<1>2. ASSUME NEW i
      PROVE  IsFiniteSet({j \in S : j < i}) /\ Rank(S, i) \in Nat
  <2>1. PICK T : T = {j \in S : j < i}
    OBVIOUS
  <2>2. IsFiniteSet(T)
    BY <1>1, <2>1, FS_Subset
  <2>3. Cardinality(T) \in Nat
    BY <2>2, FS_CardinalityType
  <2> QED
    BY <2>1, <2>2, <2>3 DEF Rank
<1>3. Cardinality(S) \in Nat
  BY <1>1, FS_CardinalityType
<1>4. ASSUME NEW i \in S
      PROVE  Rank(S, i) < Cardinality(S)
  <2>1. PICK T : T = {j \in S : j < i}
    OBVIOUS
  <2>2. T \subseteq S /\ T # S
    BY <1>1, <2>1
  <2>3. IsFiniteSet(T) /\ Cardinality(T) <= Cardinality(S) /\ Cardinality(T) # Cardinality(S)
    BY <1>1, <2>2, FS_Subset
  <2>4. Cardinality(T) \in Nat
    BY <2>3, FS_CardinalityType
  <2> QED
    BY <1>3, <2>1, <2>3, <2>4 DEF Rank
<1>5. ASSUME NEW i \in S, NEW k \in S, i < k
      PROVE  Rank(S, i) < Rank(S, k)
  <2>1. PICK T : T = {j \in S : j < i}
    OBVIOUS
  <2>2. PICK U : U = {j \in S : j < k}
    OBVIOUS
  <2>3. \A j \in S : j \in Nat /\ (j < i => j < k)
    BY <1>1, <1>5
  <2>4. i \in U /\ i \notin T
    BY <1>5, <2>1, <2>2, <2>3
  <2>5. T \subseteq U
    BY <2>1, <2>2, <2>3
  <2>6. IsFiniteSet(U)
    BY <1>2, <2>2
  <2>7. IsFiniteSet(T) /\ Cardinality(T) <= Cardinality(U) /\ Cardinality(T) # Cardinality(U)
    BY <2>4, <2>5, <2>6, FS_Subset
  <2>8. Cardinality(T) \in Nat /\ Cardinality(U) \in Nat
    BY <2>6, <2>7, FS_CardinalityType
  <2> QED
    BY <2>1, <2>2, <2>7, <2>8 DEF Rank
<1>6. ASSUME NEW i \in S, NEW k \in S, i # k
      PROVE  Rank(S, i) # Rank(S, k)
  <2>1. i \in Nat /\ k \in Nat /\ Rank(S, i) \in Nat /\ Rank(S, k) \in Nat
    BY <1>1, <1>2
  <2>2. i < k \/ k < i
    BY <1>6, <2>1
  <2> QED
    BY <1>5, <2>1, <2>2
<1> QED
  BY <1>2, <1>3, <1>4, <1>6

NumbersOn(bodies, S, contents) ==
    /\ Queue(bodies) /\ Len(service.bodies) \in Nat /\ Len(bodies) \in Nat /\ Len(service.bodies) <= Len(bodies)
    /\ \A g \in 1..Len(service.bodies) : bodies[g] = service.bodies[g]
    /\ \A i : Fresh(S, i) \in Nat /\ Fresh(S, i) > Len(service.bodies)
    /\ \A i \in S : Fresh(S, i) \in 1..Len(bodies) /\ bodies[Fresh(S, i)] = contents[i]

\* New generations are numbered on from those there are.
LEMMA NumberedOn ==
    ASSUME ServiceShaped(service), NEW S, S \subseteq Ids, NEW contents
    PROVE  NumbersOn(Numbered(S, contents), S, contents)
<1>0. PICK bodies : bodies = Numbered(S, contents)
  OBVIOUS
<1>1. PICK n : n = Len(service.bodies)
  OBVIOUS
<1>2. n \in Nat
  BY <1>1 DEF ServiceShaped, Queue
<1>3. /\ Cardinality(S) \in Nat /\ \A i : Rank(S, i) \in Nat
      /\ \A i \in S : Rank(S, i) < Cardinality(S)
      /\ \A i, k \in S : i # k => Rank(S, i) # Rank(S, k)
  BY Ranks
<1>4. \A i : Fresh(S, i) = n + 1 + Rank(S, i)
  BY <1>1 DEF Fresh, Rank
<1>5. PICK l : l = n + Cardinality(S)
  OBVIOUS
<1>6. l \in Nat /\ n <= l
  BY <1>2, <1>3, <1>5
<1>7. bodies = [g \in 1..l |-> IF g <= n THEN service.bodies[g]
                               ELSE contents[CHOOSE i \in S : Fresh(S, i) = g]]
  BY <1>0, <1>1, <1>5 DEF Numbered
<1>8. bodies = [g \in 1..l |-> bodies[g]]
  BY <1>7
<1>9. Queue(bodies) /\ Len(bodies) = l
  BY <1>6, <1>8, QueueOf
<1>10. \A g \in 1..n : bodies[g] = service.bodies[g]
  BY <1>2, <1>6, <1>7
<1>11. ASSUME NEW i
       PROVE  Fresh(S, i) \in Nat /\ Fresh(S, i) > n
  BY <1>2, <1>3, <1>4
<1>12. ASSUME NEW i \in S
       PROVE  Fresh(S, i) \in 1..l /\ bodies[Fresh(S, i)] = contents[i]
  <2>1. PICK g : g = Fresh(S, i)
    OBVIOUS
  <2>2. g \in 1..l /\ ~(g <= n)
    BY <1>2, <1>3, <1>4, <1>5, <2>1
  <2>3. \A k \in S : Fresh(S, k) = g => k = i
    <3>1. SUFFICES ASSUME NEW k \in S, Fresh(S, k) = g, k # i
                   PROVE  FALSE
      OBVIOUS
    <3>2. Rank(S, k) # Rank(S, i) /\ Rank(S, k) \in Nat /\ Rank(S, i) \in Nat
      BY <1>3, <3>1
    <3>3. n + 1 + Rank(S, k) = n + 1 + Rank(S, i)
      BY <1>4, <2>1, <3>1
    <3> QED
      BY <1>2, <3>2, <3>3
  <2>4. (CHOOSE k \in S : Fresh(S, k) = g) = i
    BY <2>1, <2>3
  <2> QED
    BY <1>7, <2>1, <2>2, <2>4
<1> QED
  BY <1>0, <1>1, <1>2, <1>6, <1>9, <1>10, <1>11, <1>12 DEF NumbersOn

-----------------------------------------------------------------------------
(* Mutations: a configuration is published                                 *)

\* The mutation has no targets yet, and every session is of the current generation.
LEMMA BeforePublish ==
    ASSUME WindowInv, mutation.pc = "run"
    PROVE  /\ mutation.targets = {} /\ ~mutation.retag /\ mutation.retag \in BOOLEAN
           /\ \A i \in Ids : service.sessions[i] # NoSession =>
                /\ SessionFits(service.sessions[i].n, service.sessions[i].gen)
                /\ service.sessions[i].gen = service.gens[i] /\ service.gens[i] # NoGen
                /\ service.profiles[i] # NoBody
<1>1. mutation.targets = {} /\ ~mutation.retag /\ mutation.retag \in BOOLEAN
  BY DEF WindowInv, Backstage, MutationSound
<1>2. ASSUME NEW i \in Ids, service.sessions[i] # NoSession
      PROVE  /\ SessionFits(service.sessions[i].n, service.sessions[i].gen)
             /\ service.sessions[i].gen = service.gens[i] /\ service.gens[i] # NoGen
             /\ service.profiles[i] # NoBody
  <2>1. SessionFits(service.sessions[i].n, service.sessions[i].gen) /\ service.sessions[i].gen = service.gens[i]
    BY <1>1, <1>2 DEF WindowInv, Backstage, SessionsFit
  <2>2. service.gens[i] # NoGen
    BY <2>1 DEF SessionFits, NoGen
  <2> QED
    BY <2>1, <2>2 DEF WindowInv, Backstage, GenerationsNamed
<1> QED
  BY <1>1, <1>2

\* The generations a configuration is published with: new, none, or what they were.
Renumbers(gens, fresh, profiles) ==
    /\ gens = [i \in Ids |-> gens[i]]
    /\ \A i \in Ids : \/ i \in fresh /\ gens[i] = Fresh(fresh, i) /\ profiles[i] # NoBody
                      \/ gens[i] = NoGen /\ profiles[i] = NoBody
                      \/ gens[i] = service.gens[i] /\ profiles[i] = service.profiles[i]

\* Every generation that is replaced is a target of the cleanup.
CleansUp(gens, targets) ==
    \A i \in Ids : service.gens[i] # NoGen /\ gens[i] # service.gens[i] => Target(i) \in targets

\* New generations for a set of ids that has all whose generation ends with a profile;
\* those that had one are targets.
LEMMA Publishes ==
    ASSUME WindowInv, mutation.pc = "run", NEW fresh, fresh \subseteq Ids, NEW profiles, NEW gens, NEW uncertain \in BOOLEAN,
           Renumbers(gens, fresh, profiles),
           service' = [service EXCEPT !.profiles = profiles, !.gens = gens, !.bodies = Numbered(fresh, profiles),
                                      !.uncertain = uncertain],
           CleansUp(gens, mutation'.targets),
           MutationShaped(mutation'), disk' = [i \in Ids |-> disk'[i]],
           UNCHANGED <<port, events, tasks, mutationFrame>>, MutationSound'
    PROVE  WindowInv'
<1>1. ServiceShaped(service) /\ UNCHANGED <<window, port, events, tasks, scenario>>
  BY DEF WindowInv, Backstage, mutationFrame, outside
<1>2. PICK bodies : bodies = Numbered(fresh, profiles)
  OBVIOUS
<1>3. /\ Queue(bodies) /\ Len(service.bodies) \in Nat /\ Len(bodies) \in Nat /\ Len(service.bodies) <= Len(bodies)
      /\ \A g \in 1..Len(service.bodies) : bodies[g] = service.bodies[g]
      /\ \A i : Fresh(fresh, i) \in Nat /\ Fresh(fresh, i) > Len(service.bodies)
      /\ \A i \in fresh : Fresh(fresh, i) \in 1..Len(bodies) /\ bodies[Fresh(fresh, i)] = profiles[i]
  <2>1. NumbersOn(Numbered(fresh, profiles), fresh, profiles)
    BY <1>1, NumberedOn
  <2>2. NumbersOn(bodies, fresh, profiles)
    BY <1>2, <2>1
  <2> QED
    BY <2>2 DEF NumbersOn
<1>4. service' = [service EXCEPT !.profiles = profiles, !.gens = gens, !.bodies = bodies, !.uncertain = uncertain]
  BY <1>2
<1>5. gens \in [Ids -> Nat]
  <2>1. \A i \in Ids : gens[i] \in Nat
    BY <1>1, <1>3 DEF ServiceShaped, NoGen, Renumbers
  <2> QED
    BY <2>1 DEF Renumbers
<1>6. /\ ServiceShaped(service') /\ service'.profiles = profiles /\ service'.gens = gens /\ service'.bodies = bodies
      /\ service'.sessions = service.sessions /\ service'.opened = service.opened
  BY <1>1, <1>3, <1>4, <1>5 DEF ServiceShaped
<1>7. ServiceGrows
  BY <1>1, <1>3, <1>6 DEF ServiceGrows, ServiceShaped, Queue
<1>8. GensGrow
  BY <1>3, <1>6 DEF GensGrow, Renumbers
<1>9. Answering' /\ ModelSound(model, events)'
  BY <1>1, <1>7, <1>8, NotTold
<1>10. GenerationsNamed'
  <2>1. SUFFICES ASSUME NEW i \in Ids
                 PROVE  /\ profiles[i] = NoBody <=> gens[i] = NoGen
                        /\ gens[i] # NoGen => gens[i] \in 1..Len(bodies) /\ bodies[gens[i]] = profiles[i]
    BY <1>6 DEF GenerationsNamed
  <2>2. CASE i \in fresh /\ gens[i] = Fresh(fresh, i) /\ profiles[i] # NoBody
    <3>1. gens[i] # NoGen
      BY <1>3, <2>2 DEF NoGen
    <3> QED
      BY <1>3, <2>2, <3>1
  <2>3. CASE gens[i] = NoGen /\ profiles[i] = NoBody
    BY <2>3
  <2>4. CASE gens[i] = service.gens[i] /\ profiles[i] = service.profiles[i]
    <3>1. /\ service.profiles[i] = NoBody <=> service.gens[i] = NoGen
          /\ service.gens[i] # NoGen => /\ service.gens[i] \in 1..Len(service.bodies)
                                        /\ service.bodies[service.gens[i]] = service.profiles[i]
      BY DEF WindowInv, Backstage, GenerationsNamed
    <3>2. \A g \in 1..Len(service.bodies) : g \in 1..Len(bodies)
      BY <1>3
    <3> QED
      BY <1>3, <2>4, <3>1, <3>2
  <2> QED
    BY <2>2, <2>3, <2>4 DEF Renumbers
<1>11. SessionsFit'
  <2>1. SUFFICES ASSUME NEW i \in Ids, service.sessions[i] # NoSession
                 PROVE  /\ SessionFits(service.sessions[i].n, service.sessions[i].gen)'
                        /\ \/ service.sessions[i].gen = gens[i]
                           \/ \E g \in mutation'.targets : g.id = i /\ g.session = service.sessions[i]
    BY <1>6 DEF SessionsFit
  <2>2. PICK n, g : n = service.sessions[i].n /\ g = service.sessions[i].gen
    OBVIOUS
  <2>3. SessionFits(n, g) /\ g = service.gens[i] /\ service.gens[i] # NoGen
    BY <2>1, <2>2, BeforePublish
  <2>4. SessionFits(n, g)'
    BY <1>7, <2>3, FitsStill
  <2>5. Target(i).id = i /\ Target(i).session = service.sessions[i]
    BY DEF Target
  <2> QED
    BY <1>6, <2>2, <2>3, <2>4, <2>5 DEF CleansUp
<1>12. TasksFit'
  BY <1>1, <1>7, FitsStill DEF WindowInv, Backstage, TasksFit
<1>13. Backstage'
  BY <1>1, <1>6, <1>10, <1>11, <1>12 DEF WindowInv, Backstage
<1> QED
  BY <1>1, <1>9, <1>13, BehindWindow DEF WindowInv

LEMMA PublishKeeps ==
    ASSUME WindowInv, mutation.pc = "run", NEW id, NEW loaded, Publish(id, loaded), disk' = [i \in Ids |-> disk'[i]],
           UNCHANGED <<port, events, tasks, mutationFrame>>,
           job.kind \in {"refresh", "create", "update", "delete"},
           job.kind = "create" => service.profiles[id] = NoBody,
           job.kind = "update" => Current(id, job.gen),
           id \in Ids /\ job.kind \in {"create", "update"} => loaded[id] # NoBody
    PROVE  WindowInv'
<1>1. ServiceShaped(service) /\ MutationShaped(mutation) /\ CommandShaped(mutation.command)
  BY DEF WindowInv, Backstage, MutationShaped
<1>2. PICK renewed : renewed = Renewed(id, loaded)
  OBVIOUS
<1>3. PICK fresh : fresh = Renewed(id, loaded) \cup Removed(id, loaded)
  OBVIOUS
<1>4. renewed \subseteq fresh /\ fresh \subseteq Ids
  BY <1>2, <1>3 DEF Renewed, Removed
<1> DEFINE gens == [i \in Ids |-> IF i \in renewed THEN Fresh(fresh, i)
                                  ELSE IF loaded[i] = NoBody THEN NoGen ELSE service.gens[i]]
           shown == [i \in Ids |-> IF loaded[i] = NoBody THEN NoProfile
                                   ELSE [gen |-> gens[i], body |-> loaded[i], secret |-> i \in service.secrets]]
           targets == {Target(i) : i \in Outdated(id, loaded)}
           retag == /\ job.kind = "update"
                    /\ Endpoint[service.profiles[id]] = Endpoint[loaded[id]]
                    /\ loaded[id] \in SessionBodies => job.secret = "Keep"
<1>5. service' = [service EXCEPT !.profiles = loaded, !.gens = gens, !.bodies = Numbered(fresh, loaded), !.uncertain = FALSE]
  BY <1>2, <1>3 DEF Publish
<1>6. mutation' = [mutation EXCEPT !.pc = "published", !.command.id = id, !.gen = Fresh(fresh, id),
                                   !.profiles = shown, !.targets = targets, !.retag = retag]
  BY <1>2, <1>3 DEF Publish
<1>7. retag \in BOOLEAN
  OBVIOUS
<1>8. retag => job.kind = "update" /\ Endpoint[service.profiles[id]] = Endpoint[loaded[id]]
  OBVIOUS
<1>9. \A i \in Ids : \/ i \in fresh /\ gens[i] = Fresh(fresh, i) /\ loaded[i] # NoBody
                     \/ gens[i] = NoGen /\ loaded[i] = NoBody
                     \/ gens[i] = service.gens[i] /\ loaded[i] = service.profiles[i]
  BY <1>2, <1>4 DEF Renewed
<1>10. gens = [i \in Ids |-> gens[i]] /\ shown = [i \in Ids |-> shown[i]]
  OBVIOUS
<1>11. \A i \in Ids : shown[i] = IF loaded[i] = NoBody THEN NoProfile
                                 ELSE [gen |-> gens[i], body |-> loaded[i], secret |-> i \in service.secrets]
  OBVIOUS
<1>12. \A i \in Ids : service.gens[i] # NoGen /\ gens[i] # service.gens[i] => i \in Outdated(id, loaded)
  <2>1. SUFFICES ASSUME NEW i \in Ids, service.gens[i] # NoGen, gens[i] # service.gens[i]
                 PROVE  i \in Outdated(id, loaded)
    OBVIOUS
  <2>2. service.profiles[i] # NoBody
    BY <2>1 DEF WindowInv, Backstage, GenerationsNamed
  <2>3. CASE i \in renewed
    <3>1. loaded[i] # service.profiles[i] \/ (job.kind # "refresh" /\ i = id)
      BY <1>2, <2>3 DEF Renewed
    <3> QED
      BY <2>2, <3>1 DEF Outdated
  <2>4. CASE i \notin renewed
    BY <2>1, <2>2, <2>4 DEF Outdated
  <2> QED
    BY <2>3, <2>4
<1>13. id \in Ids /\ job.kind \in {"create", "update"} => gens[id] = Fresh(fresh, id) /\ id \in fresh
  BY <1>2, <1>4 DEF Renewed
<1> HIDE DEF gens, shown, retag
<1>14. /\ mutation'.pc = "published" /\ mutation'.command = [mutation.command EXCEPT !.id = id]
       /\ mutation'.gen = Fresh(fresh, id) /\ mutation'.profiles = shown /\ mutation'.targets = targets
       /\ mutation'.retag = retag
  BY <1>1, <1>6 DEF MutationShaped
<1>15. PICK command : command = [mutation.command EXCEPT !.id = id]
  OBVIOUS
<1>16. CommandShaped(command) /\ command.kind = job.kind /\ command.gen = job.gen /\ command.id = id
  BY <1>1, <1>15 DEF CommandShaped, job
<1>17. MutationShaped(mutation')
  <2>1. mutation' = [pc |-> "published", command |-> command, profiles |-> shown, targets |-> targets,
                     waits |-> mutation.waits, retag |-> retag, active |-> mutation.active, gen |-> Fresh(fresh, id)]
    BY <1>1, <1>6, <1>15 DEF MutationShaped
  <2> QED
    BY <1>14, <1>15, <1>16, <2>1 DEF MutationShaped
<1>18. /\ service'.bodies = Numbered(fresh, loaded) /\ service'.gens = gens /\ service'.uncertain = FALSE
       /\ service'.profiles = loaded
  BY <1>1, <1>5 DEF ServiceShaped
<1>19. NumbersOn(service'.bodies, fresh, loaded)
  BY <1>1, <1>4, <1>18, NumberedOn
<1>20. MutationSound'
  <2>1. mutation'.retag \in BOOLEAN /\ mutation'.gen \in Nat
    BY <1>7, <1>14, <1>19 DEF NumbersOn
  <2>2. \A i \in Ids : Target(i).session = NoSession \/ Target(i).session.gen = Target(i).gen
    BY BeforePublish DEF Target
  <2>3. ASSUME NEW g \in mutation'.targets
        PROVE  /\ g.session = NoSession \/ g.session.gen = g.gen
               /\ mutation'.retag /\ g.id = job'.id => g.gen = job'.gen
    <3>1. PICK i \in Outdated(id, loaded) : g = Target(i)
      BY <1>14, <2>3
    <3>2. i \in Ids
      BY DEF Outdated
    <3>3. g.session = NoSession \/ g.session.gen = g.gen
      BY <2>2, <3>1, <3>2
    <3>4. ASSUME retag, i = id
          PROVE  g.gen = job.gen
      BY <1>8, <3>1, <3>4 DEF Current, Target
    <3>5. g.id = i
      BY <3>1 DEF Target
    <3>6. job'.id = id /\ job'.gen = job.gen
      BY <1>14, <1>15, <1>16 DEF job
    <3> QED
      BY <1>7, <1>14, <3>3, <3>4, <3>5, <3>6
  <2>4. job'.kind = job.kind /\ job'.id = id /\ job'.gen = job.gen
    BY <1>14, <1>15, <1>16 DEF job
  <2>5. SnapshotsShaped(mutation'.profiles) /\ \A i \in Ids : mutation'.profiles[i].gen = service'.gens[i]
    <3>1. \A i \in Ids : SnapshotShaped(shown[i]) /\ shown[i].gen = gens[i]
      <4>1. SUFFICES ASSUME NEW i \in Ids
                     PROVE  SnapshotShaped(shown[i]) /\ shown[i].gen = gens[i]
        OBVIOUS
      <4>2. gens[i] \in Nat
        BY <1>1, <1>9, <1>19 DEF NumbersOn, ServiceShaped, NoGen
      <4>3. CASE loaded[i] = NoBody
        <5>1. gens[i] = NoGen
          BY <1>9, <4>3 DEF WindowInv, Backstage, GenerationsNamed
        <5>2. shown[i] = NoProfile
          BY <1>11, <4>3
        <5> QED
          BY <5>1, <5>2 DEF SnapshotShaped, NoProfile, NoGen
      <4>4. CASE loaded[i] # NoBody
        <5>1. shown[i] = [gen |-> gens[i], body |-> loaded[i], secret |-> i \in service.secrets]
          BY <1>11, <4>4
        <5> QED
          BY <4>2, <5>1 DEF SnapshotShaped
      <4> QED
        BY <4>3, <4>4
    <3> QED
      BY <1>10, <1>14, <1>18, <3>1 DEF SnapshotsShaped
  <2>6. ASSUME id \in Ids, job.kind \in {"create", "update"}
        PROVE  /\ mutation'.gen = service'.gens[id] /\ mutation'.gen # NoGen
               /\ retag => SameEndpoint(job.gen, mutation.gen)'
    <3>1. mutation'.gen = service'.gens[id] /\ mutation'.gen # NoGen
      BY <1>13, <1>14, <1>18, <1>19, <2>6 DEF NumbersOn, NoGen
    <3>2. ASSUME retag
          PROVE  SameEndpoint(job.gen, mutation.gen)'
      <4>1. job.gen = service.gens[id] /\ job.gen # NoGen
        BY <1>8, <3>2 DEF Current
      <4>2. job.gen \in 1..Len(service.bodies) /\ service.bodies[job.gen] = service.profiles[id]
        BY <2>6, <4>1 DEF WindowInv, Backstage, GenerationsNamed
      <4>3. PICK old, new : old = job.gen /\ new = mutation'.gen
        OBVIOUS
      <4>4. old \in 1..Len(service'.bodies) /\ service'.bodies[old] = service.profiles[id]
        BY <1>19, <4>2, <4>3 DEF NumbersOn
      <4>5. new \in 1..Len(service'.bodies) /\ service'.bodies[new] = loaded[id]
        BY <1>13, <1>14, <1>19, <2>6, <4>3 DEF NumbersOn
      <4>6. SameEndpoint(old, new)'
        BY <1>8, <3>2, <4>4, <4>5 DEF SameEndpoint
      <4> QED
        BY <2>4, <4>3, <4>6
    <3> QED
      BY <3>1, <3>2
  <2>7. mutation'.pc = "published" /\ mutation'.retag = retag /\ service'.uncertain = FALSE
    BY <1>14, <1>18
  <2> QED
    BY <1>8, <2>1, <2>3, <2>4, <2>5, <2>6, <2>7 DEF MutationSound
<1>21. PICK g : g = gens
  OBVIOUS
<1>22. Renumbers(g, fresh, loaded)
  BY <1>9, <1>10, <1>21 DEF Renumbers
<1>23. CleansUp(g, mutation'.targets)
  BY <1>12, <1>14, <1>21 DEF CleansUp
<1>24. service' = [service EXCEPT !.profiles = loaded, !.gens = g, !.bodies = Numbered(fresh, loaded), !.uncertain = FALSE]
  BY <1>5, <1>21
<1>25. FALSE \in BOOLEAN
  OBVIOUS
<1> HIDE DEF targets
<1> QED
  BY <1>4, <1>17, <1>20, <1>22, <1>23, <1>24, <1>25, Publishes

\* Every generation there is ends, and its session is a target.
LEMMA EnterUncertainKeeps ==
    ASSUME WindowInv, mutation.pc = "run", EnterUncertain, disk' = [i \in Ids |-> disk'[i]],
           UNCHANGED <<port, events, tasks, mutationFrame>>,
           job.kind \in {"refresh", "create", "update", "delete"}
    PROVE  WindowInv'
<1>1. ServiceShaped(service) /\ MutationShaped(mutation) /\ CommandShaped(mutation.command) /\ GenerationsNamed
  BY DEF WindowInv, Backstage, MutationShaped
<1>2. PICK live : live = {i \in Ids : service.gens[i] # NoGen}
  OBVIOUS
<1>3. PICK gens : gens = [i \in Ids |-> IF i \in live THEN Fresh(live, i) ELSE NoGen]
  OBVIOUS
<1>4. PICK targets : targets = {Target(i) : i \in live}
  OBVIOUS
<1>5. PICK profiles : profiles = service.profiles
  OBVIOUS
<1>6. live \subseteq Ids /\ TRUE \in BOOLEAN
  BY <1>2
<1>7. service' = [service EXCEPT !.profiles = profiles, !.gens = gens, !.bodies = Numbered(live, profiles), !.uncertain = TRUE]
  <2>1. service' = [service EXCEPT !.gens = gens, !.bodies = Numbered(live, profiles), !.uncertain = TRUE]
    BY <1>2, <1>3, <1>5 DEF EnterUncertain
  <2> QED
    BY <1>1, <1>5, <2>1 DEF ServiceShaped
<1>8. mutation' = [mutation EXCEPT !.pc = "published", !.targets = targets]
  BY <1>2, <1>4 DEF EnterUncertain
<1>9. Renumbers(gens, live, profiles)
  BY <1>1, <1>2, <1>3, <1>5 DEF Renumbers, GenerationsNamed
<1>10. /\ MutationShaped(mutation') /\ mutation'.pc = "published" /\ mutation'.targets = targets
       /\ mutation'.command = mutation.command /\ mutation'.retag = mutation.retag /\ mutation'.gen = mutation.gen
  BY <1>1, <1>8 DEF MutationShaped
<1>11. CleansUp(gens, mutation'.targets)
  BY <1>2, <1>4, <1>10 DEF CleansUp
<1>12. MutationSound'
  <2>1. mutation.retag \in BOOLEAN /\ ~mutation.retag /\ mutation.gen \in Nat
    BY DEF WindowInv, Backstage, MutationSound
  <2>2. \A i \in Ids : Target(i).session = NoSession \/ Target(i).session.gen = Target(i).gen
    BY BeforePublish DEF Target
  <2>3. \A g \in targets : g.session = NoSession \/ g.session.gen = g.gen
    BY <1>4, <1>6, <2>2
  <2>4. service'.uncertain = TRUE /\ job' = job
    BY <1>1, <1>7, <1>10 DEF ServiceShaped, job
  <2> QED
    BY <1>10, <2>1, <2>3, <2>4 DEF MutationSound
<1> QED
  BY <1>6, <1>7, <1>9, <1>10, <1>11, <1>12, Publishes

LEMMA WriteKeeps ==
    ASSUME WindowInv, Write
    PROVE  WindowInv'
<1>1. mutation.pc = "run" /\ job.kind \in {"create", "update", "delete"} /\ UNCHANGED <<port, events, tasks, mutationFrame>>
  BY DEF Write
<1>2. PICK id : /\ job.kind = "create" => id \in Ids
                /\ WriteAllowed(id) /\ disk' = [disk EXCEPT ![id] = job.body]
                /\ Publish(id, disk') \/ EnterUncertain
  BY DEF Write
<1>3. PICK loaded : loaded = disk'
  OBVIOUS
<1>4. disk' = [i \in Ids |-> disk'[i]]
  BY <1>2 DEF WindowInv, Backstage
<1>5. CommandShaped(job)
  BY DEF WindowInv, Backstage, MutationShaped, job
<1>6. id \in Ids /\ job.kind \in {"create", "update"} => loaded[id] # NoBody
  BY <1>2, <1>3, <1>5 DEF WindowInv, Backstage, CommandShaped
<1>7. /\ job.kind = "create" => service.profiles[id] = NoBody
      /\ job.kind = "update" => Current(id, job.gen)
  BY <1>2 DEF WriteAllowed
<1>8. CASE Publish(id, disk')
  <2>1. Publish(id, loaded)
    BY <1>3, <1>8
  <2> QED
    BY <1>1, <1>4, <1>6, <1>7, <2>1, PublishKeeps
<1>9. CASE EnterUncertain
  BY <1>1, <1>4, <1>9, EnterUncertainKeeps
<1> QED
  BY <1>2, <1>8, <1>9

LEMMA ReloadKeeps ==
    ASSUME WindowInv, Reload
    PROVE  WindowInv'
<1>1. mutation.pc = "run" /\ job.kind = "refresh" /\ UNCHANGED <<port, events, tasks, mutationFrame>> /\ disk' = disk
  BY DEF Reload
<1>2. disk' = [i \in Ids |-> disk'[i]]
  BY <1>1 DEF WindowInv, Backstage
<1>3. PICK loaded : loaded = disk
  OBVIOUS
<1>4. PICK id : id = NoId
  OBVIOUS
<1>5. CASE Publish(NoId, disk)
  <2>1. Publish(id, loaded)
    BY <1>3, <1>4, <1>5
  <2>2. /\ job.kind = "create" => service.profiles[id] = NoBody
        /\ job.kind = "update" => Current(id, job.gen)
        /\ id \in Ids /\ job.kind \in {"create", "update"} => loaded[id] # NoBody
        /\ job.kind \in {"refresh", "create", "update", "delete"}
    BY <1>1
  <2> QED
    BY <1>1, <1>2, <2>1, <2>2, PublishKeeps
<1>6. CASE EnterUncertain
  BY <1>1, <1>2, <1>6, EnterUncertainKeeps
<1> QED
  BY <1>5, <1>6 DEF Reload

\* A session is retained only if it fits the new generation as well.
LEMMA RetainedFits ==
    ASSUME WindowInv, mutation.pc = "join", Retained, job.id \in Ids
    PROVE  /\ ~service.uncertain /\ job.kind = "update" /\ SameEndpoint(job.gen, mutation.gen)
           /\ mutation.gen = service.gens[job.id] /\ mutation.gen # NoGen
           /\ SessionFits(service.sessions[job.id].n, service.gens[job.id])
<1>1. PICK g \in mutation.targets : /\ g.id = job.id /\ mutation.retag /\ g.session # NoSession
                                    /\ service.sessions[g.id] = g.session
  BY DEF Retained, Local
<1>2. g.session.gen = g.gen /\ g.gen = job.gen
  BY <1>1 DEF WindowInv, Backstage, MutationSound
<1>3. ~service.uncertain /\ job.kind = "update"
  BY <1>1 DEF WindowInv, Backstage, MutationSound
<1>4. mutation.gen = service.gens[job.id] /\ mutation.gen # NoGen /\ SameEndpoint(job.gen, mutation.gen)
  BY <1>1, <1>3 DEF WindowInv, Backstage, MutationSound
<1>5. SessionFits(service.sessions[job.id].n, service.sessions[job.id].gen)
  BY <1>1 DEF WindowInv, Backstage, SessionsFit
<1>6. service.sessions[job.id].gen = job.gen
  BY <1>1, <1>2
<1>7. SessionFits(service.sessions[job.id].n, service.gens[job.id])
  BY <1>4, <1>5, <1>6 DEF SessionFits, SameEndpoint
<1> QED
  BY <1>3, <1>4, <1>7

LEMMA AnswerOfMutation ==
    ASSUME WindowInv, FinishMutation
    PROVE  \E e : Emit(port, e) /\ EventSound(e) /\ \A i \in Ids : Told(e, i) \in {NoGen, service.gens[i]}
<1>1. mutation.pc = "join" /\ job.kind \in {"refresh", "create", "update", "delete"} /\ mutation.gen \in Nat
  BY DEF FinishMutation, WindowInv, Backstage, MutationSound
<1>2. service.uncertain \in BOOLEAN
  BY DEF WindowInv, Backstage, ServiceShaped
<1>3. CASE service.uncertain
  <2>1. PICK e : e = Uncertain(job.op)
    OBVIOUS
  <2>2. Emit(port, e)
    BY <1>3, <2>1 DEF FinishMutation
  <2> QED
    BY <2>1, <2>2, UncertainSound
<1>4. CASE ~service.uncertain /\ job.kind = "refresh"
  <2>1. PICK e : e = [kind |-> "ProfilesLoaded", op |-> job.op, profiles |-> mutation.profiles]
    OBVIOUS
  <2>2. Emit(port, e)
    BY <1>4, <2>1 DEF FinishMutation
  <2>3. SnapshotsShaped(mutation.profiles) /\ \A i \in Ids : mutation.profiles[i].gen = service.gens[i]
    BY <1>1, <1>4 DEF WindowInv, Backstage, MutationSound
  <2>4. EventSound(e)
    BY <2>1, <2>3 DEF EventSound
  <2>5. \A i \in Ids : Told(e, i) = service.gens[i]
    BY <2>1, <2>3 DEF Told
  <2> QED
    BY <2>2, <2>4, <2>5
<1>5. CASE ~service.uncertain /\ job.kind = "delete"
  <2>1. PICK e : e = [kind |-> "ProfileDeleted", op |-> job.op, id |-> job.id, gen |-> mutation.gen]
    OBVIOUS
  <2>2. Emit(port, e)
    BY <1>5, <2>1 DEF FinishMutation
  <2>3. EventSound(e) /\ \A i \in Ids : Told(e, i) = NoGen
    BY <1>1, <2>1 DEF EventSound, Told
  <2> QED
    BY <2>2, <2>3
<1>6. CASE ~service.uncertain /\ job.kind \in {"create", "update"}
  <2>1. PICK retained \in BOOLEAN : retained = Retained
    BY DEF Retained
  <2>2. PICK e : e = [kind |-> "ProfileSaved", op |-> job.op, id |-> job.id, prev |-> job.gen, gen |-> mutation.gen,
                      retained |-> retained]
    OBVIOUS
  <2>3. Emit(port, e)
    BY <1>6, <2>1, <2>2 DEF FinishMutation
  <2>4. retained /\ job.id \in Ids => SameEndpoint(job.gen, mutation.gen)
    BY <1>1, <2>1, RetainedFits
  <2>5. e.kind = "ProfileSaved" /\ e.retained = retained /\ e.id = job.id /\ e.prev = job.gen /\ e.gen = mutation.gen
    BY <2>2
  <2>6. EventSound(e)
    BY <1>1, <2>1, <2>4, <2>5 DEF EventSound
  <2>7. job.id \in Ids => mutation.gen = service.gens[job.id]
    BY <1>1, <1>6 DEF WindowInv, Backstage, MutationSound
  <2>8. \A i \in Ids : Told(e, i) \in {NoGen, service.gens[i]}
    BY <2>5, <2>7 DEF Told
  <2> QED
    BY <2>3, <2>6, <2>8
<1> QED
  BY <1>1, <1>2, <1>3, <1>4, <1>5, <1>6

\* The sessions a mutation leaves are of current generations.
LEMMA FinishMutationKeeps ==
    ASSUME WindowInv, FinishMutation
    PROVE  WindowInv'
<1>1. /\ mutation.pc = "join" /\ mutation' = NoMutation
      /\ UNCHANGED <<tasks, disk, scenario, window>>
  BY DEF FinishMutation, mutationFrame, outside
<1>2. ServiceShaped(service)
  BY DEF WindowInv, Backstage
<1>3. PICK evicted : evicted = Evicted(service.sessions, {<<g.id, g.session>> : g \in mutation.targets})
  OBVIOUS
<1>4. PICK sessions : sessions = [i \in Ids |-> IF Local(i) /\ Retained
                                                THEN [service.sessions[i] EXCEPT !.gen = service.gens[i]] ELSE evicted[i]]
  OBVIOUS
<1>5. PICK secrets : service' = [service EXCEPT !.secrets = secrets, !.sessions = sessions]
  BY <1>3, <1>4 DEF FinishMutation
<1>6. \A i \in Ids : evicted[i] = IF \E g \in mutation.targets : g.id = i /\ g.session = service.sessions[i]
                                  THEN NoSession ELSE service.sessions[i]
  BY <1>3 DEF Evicted
<1>7. ASSUME NEW i \in Ids
      PROVE  sessions[i] = [n |-> sessions[i].n, gen |-> sessions[i].gen]
  <2>1. service.sessions[i] = [n |-> service.sessions[i].n, gen |-> service.sessions[i].gen]
    BY <1>2 DEF ServiceShaped
  <2>2. CASE Local(i) /\ Retained
    BY <1>4, <2>1, <2>2
  <2>3. CASE ~(Local(i) /\ Retained)
    <3>1. sessions[i] = evicted[i]
      BY <1>4, <2>3
    <3> QED
      BY <1>6, <2>1, <3>1 DEF NoSession
  <2> QED
    BY <2>2, <2>3
<1>8. sessions = [i \in Ids |-> sessions[i]]
  BY <1>4
<1>9. /\ ServiceShaped(service') /\ service'.profiles = service.profiles /\ service'.gens = service.gens
      /\ service'.bodies = service.bodies /\ service'.opened = service.opened /\ service'.sessions = sessions
  BY <1>2, <1>5, <1>7, <1>8 DEF ServiceShaped
<1>10. ASSUME NEW i \in Ids, sessions[i] # NoSession
       PROVE  SessionFits(sessions[i].n, sessions[i].gen) /\ sessions[i].gen = service.gens[i]
  <2>1. CASE Local(i) /\ Retained
    <3>1. i = job.id /\ Retained
      BY <2>1 DEF Local
    <3>2. SessionFits(service.sessions[i].n, service.gens[i])
      BY <1>1, <3>1, RetainedFits
    <3>3. sessions[i].n = service.sessions[i].n /\ sessions[i].gen = service.gens[i]
      <4>1. sessions[i] = [service.sessions[i] EXCEPT !.gen = service.gens[i]]
        BY <1>4, <2>1
      <4>2. service.sessions[i] = [n |-> service.sessions[i].n, gen |-> service.sessions[i].gen]
        BY <1>2 DEF ServiceShaped
      <4> QED
        BY <4>1, <4>2
    <3> QED
      BY <3>2, <3>3
  <2>2. CASE ~(Local(i) /\ Retained)
    <3>0. sessions[i] = evicted[i]
      BY <1>4, <2>2
    <3>1. sessions[i] = service.sessions[i] /\ ~ \E g \in mutation.targets : g.id = i /\ g.session = service.sessions[i]
      BY <1>6, <1>10, <3>0
    <3> QED
      BY <1>10, <3>1 DEF WindowInv, Backstage, SessionsFit
  <2> QED
    BY <2>1, <2>2
<1>11. SessionsFit'
  BY <1>9, <1>10 DEF SessionsFit, SessionFits
<1>12. GenerationsNamed' /\ TasksFit'
  BY <1>1, <1>9 DEF WindowInv, Backstage, GenerationsNamed, TasksFit, SessionFits
<1>13. MutationSound'
  <2>1. mutation'.pc = "none" /\ mutation'.retag = FALSE /\ mutation'.targets = {} /\ mutation'.gen = NoGen
    BY <1>1, NoMutationShaped
  <2>2. mutation'.retag \in BOOLEAN /\ ~mutation'.retag
    BY <2>1
  <2>3. mutation'.gen \in Nat
    BY <2>1 DEF NoGen
  <2>4. mutation'.pc \notin {"published", "join"} /\ mutation'.targets = {}
    BY <2>1
  <2> QED
    BY <2>2, <2>3, <2>4 DEF MutationSound
<1>14. Backstage'
  BY <1>1, <1>9, <1>11, <1>12, <1>13, NoMutationShaped DEF WindowInv, Backstage
<1>15. PICK e : Emit(port, e) /\ EventSound(e) /\ \A i \in Ids : Told(e, i) \in {NoGen, service.gens[i]}
  BY AnswerOfMutation
<1> QED
  BY <1>1, <1>9, <1>14, <1>15, Replies DEF WindowInv

-----------------------------------------------------------------------------
(* The specification                                                       *)

\* The generation a configuration's profile gets when it is loaded
Place(S, i) == 1 + Cardinality({j \in S : j < i})

\* A configuration that has been loaded has a generation for each of its profiles.
LEMMA LoadedNumbers ==
    ASSUME NEW config, config = [i \in Ids |-> config[i]], service = Loaded(config)
    PROVE  ServiceShaped(service) /\ GenerationsNamed /\ \A i \in Ids : service.sessions[i] = NoSession
<1> DEFINE S == {i \in Ids : config[i] # NoBody}
           gens == [i \in Ids |-> IF i \in S THEN Place(S, i) ELSE NoGen]
           bodies == [g \in 1..Cardinality(S) |-> config[CHOOSE i \in S : Place(S, i) = g]]
           sessions == [i \in Ids |-> NoSession]
<1>1. service = [profiles |-> config, gens |-> gens, bodies |-> bodies, sessions |-> sessions,
                 opened |-> <<>>, secrets |-> {}, uncertain |-> FALSE]
  BY Zenon DEF Loaded, Place
<1>2. S \subseteq Ids /\ \A i \in Ids : i \in S <=> config[i] # NoBody
  OBVIOUS
<1> HIDE DEF S
<1>3. /\ Cardinality(S) \in Nat /\ \A i : Rank(S, i) \in Nat
      /\ \A i \in S : Rank(S, i) < Cardinality(S)
      /\ \A i, k \in S : i # k => Rank(S, i) # Rank(S, k)
  BY <1>2, Ranks
<1>4. \A i : Place(S, i) = 1 + Rank(S, i)
  BY DEF Place, Rank
<1>5. PICK n : n = Cardinality(S)
  OBVIOUS
<1>6. bodies = [g \in 1..n |-> config[CHOOSE i \in S : Place(S, i) = g]]
  BY <1>5
<1>7. \A i \in Ids : gens[i] = IF i \in S THEN Place(S, i) ELSE NoGen
  OBVIOUS
<1>8. sessions = [i \in Ids |-> sessions[i]] /\ \A i \in Ids : sessions[i] = NoSession
  OBVIOUS
<1>9. gens = [i \in Ids |-> gens[i]]
  OBVIOUS
<1> HIDE DEF gens, bodies, sessions
<1>10. bodies = [g \in 1..n |-> bodies[g]]
  <2> DEFINE content(g) == config[CHOOSE i \in S : Place(S, i) = g]
  <2>1. bodies = [g \in 1..n |-> content(g)]
    BY <1>6
  <2> HIDE DEF content
  <2> QED
    BY <2>1
<1>11. Queue(bodies) /\ Len(bodies) = n
  BY <1>3, <1>5, <1>10, QueueOf
<1>12. gens \in [Ids -> Nat]
  <2>1. ASSUME NEW i \in Ids
        PROVE  gens[i] \in Nat
    BY <1>3, <1>4, <1>7 DEF NoGen
  <2> QED
    BY <1>9, <2>1
<1>13. ASSUME NEW i \in S
       PROVE  gens[i] # NoGen /\ gens[i] \in 1..Len(bodies) /\ bodies[gens[i]] = config[i]
  <2>1. PICK g : g = Place(S, i)
    OBVIOUS
  <2>2. g \in 1..n /\ g # NoGen
    BY <1>3, <1>4, <1>5, <2>1 DEF NoGen
  <2>3. \A k \in S : Place(S, k) = g => k = i
    <3>1. SUFFICES ASSUME NEW k \in S, Place(S, k) = g, k # i
                   PROVE  FALSE
      OBVIOUS
    <3>2. Rank(S, k) # Rank(S, i) /\ Rank(S, k) \in Nat /\ Rank(S, i) \in Nat
      BY <1>3, <3>1
    <3>3. 1 + Rank(S, k) = 1 + Rank(S, i)
      BY <1>4, <2>1, <3>1
    <3> QED
      BY <3>2, <3>3
  <2>4. (CHOOSE k \in S : Place(S, k) = g) = i
    BY <2>1, <2>3
  <2>5. bodies[g] = config[i]
    BY <1>6, <2>2, <2>4
  <2>6. gens[i] = g
    BY <1>2, <1>7, <2>1
  <2> QED
    BY <1>11, <2>2, <2>5, <2>6
<1>14. PICK opened, secrets, uncertain : opened = <<>> /\ secrets = {} /\ uncertain = FALSE
  OBVIOUS
<1>15. Queue(opened) /\ uncertain \in BOOLEAN
  <2>1. opened \in Seq({}) /\ Len(opened) = 0
    BY <1>14
  <2>2. uncertain \in BOOLEAN
    BY <1>14
  <2> QED
    BY <2>1, <2>2 DEF Queue
<1>16. PICK s : s = [profiles |-> config, gens |-> gens, bodies |-> bodies, sessions |-> sessions,
                     opened |-> opened, secrets |-> secrets, uncertain |-> uncertain]
  OBVIOUS
<1>17. service = s
  BY <1>1, <1>14, <1>16, Zenon
<1>18. NoSession = [n |-> NoSession.n, gen |-> NoSession.gen]
  BY DEF NoSession
<1>19. ServiceShaped(s)
  BY <1>8, <1>11, <1>12, <1>15, <1>16, <1>18 DEF ServiceShaped
<1>20. /\ s.profiles = config /\ s.gens = gens /\ s.bodies = bodies /\ s.sessions = sessions
  BY <1>16
<1>21. GenerationsNamed
  BY <1>2, <1>7, <1>13, <1>17, <1>20 DEF GenerationsNamed
<1> QED
  BY <1>8, <1>17, <1>19, <1>20, <1>21

LEMMA EmptyQueue == Queue(<<>>) /\ Len(<<>>) = 0
<1>1. <<>> \in Seq({}) /\ Len(<<>>) = 0
  OBVIOUS
<1> QED
  BY <1>1 DEF Queue

LEMMA EmptyShaped == Shaped([m |-> EmptyModel, a |-> EmptyApp, p |-> EmptyPort])
<1>1. SnapshotsShaped(EmptyModel.profiles)
  BY DEF SnapshotsShaped, SnapshotShaped, EmptyModel, NoProfile, NoGen
<1>2. ModelShaped(EmptyModel)
  BY <1>1 DEF ModelShaped, EmptyModel, NoGen
<1>3. AppShaped(EmptyApp)
  BY EditorsOpened DEF AppShaped, EmptyApp
<1>4. PortShaped(EmptyPort)
  BY EmptyQueue DEF PortShaped, EmptyPort
<1> QED
  BY <1>2, <1>3, <1>4 DEF Shaped

\* The application starts with an empty window and a Refresh under way.
LEMMA WindowStarts ==
    ASSUME Init
    PROVE  WindowInv
<1>1. PICK empty : empty = [m |-> EmptyModel, a |-> EmptyApp, p |-> EmptyPort]
  OBVIOUS
<1>2. PICK start : start = SubmitRefresh(empty)
  OBVIOUS
<1>3. /\ model = start.m /\ app = start.a /\ port = start.p /\ events = <<>> /\ tasks = {} /\ mutation = NoMutation
      /\ scenario \in Scenarios /\ disk = scenario.disk /\ service = Loaded(disk)
  BY <1>1, <1>2 DEF Init
<1>4. Queue(<<>>) /\ Len(<<>>) = 0
  BY EmptyQueue
<1>5. Shaped(empty)
  BY <1>1, EmptyShaped
<1>6. Calm(empty, start)
  BY <1>2, <1>5, CalmSubmitRefresh
<1>7. ModelShaped(model) /\ AppShaped(app) /\ PortShaped(port)
  BY <1>3, <1>6 DEF Calm, Shaped
<1>8. disk = [i \in Ids |-> disk[i]]
  BY <1>3, WindowAssumption DEF Disks
<1>9. ServiceShaped(service) /\ GenerationsNamed /\ \A i \in Ids : service.sessions[i] = NoSession
  BY <1>3, <1>8, LoadedNumbers
<1>10. MutationSound
  <2>1. mutation.pc = "none" /\ mutation.retag = FALSE /\ mutation.targets = {} /\ mutation.gen = NoGen
    BY <1>3, NoMutationShaped
  <2>2. mutation.retag \in BOOLEAN /\ ~mutation.retag
    BY <2>1
  <2>3. mutation.gen \in Nat
    BY <2>1 DEF NoGen
  <2>4. mutation.pc \notin {"published", "join"} /\ mutation.targets = {}
    BY <2>1
  <2> QED
    BY <2>2, <2>3, <2>4 DEF MutationSound
<1>11. Backstage
  BY <1>3, <1>8, <1>9, <1>10, NoMutationShaped DEF Backstage, SessionsFit, TasksFit
<1>12. Answering
  BY <1>3, <1>4 DEF Answering, AnswersInOrder
<1>13. ASSUME NEW i \in Ids
       PROVE  /\ model.active[i] = 0 /\ model.tombs[i] = 0 /\ model.profiles[i].gen = 0
              /\ model.retags[i] = NoRetag /\ model.conn[i].is # "connected"
  <2>1. /\ model.active = EmptyModel.active /\ model.tombs = EmptyModel.tombs /\ model.retags = EmptyModel.retags
        /\ model.profiles = EmptyModel.profiles
        /\ model.conn[i] = EmptyModel.conn[i] \/ model.conn[i].is # "connected"
    BY <1>1, <1>3, <1>6 DEF Calm, Alike
  <2>2. Disconnected.is # "connected"
    BY DEF Disconnected
  <2>3. EmptyModel.conn[i] = Disconnected
    BY DEF EmptyModel
  <2>4. model.conn[i].is # "connected"
    BY <2>1, <2>2, <2>3
  <2> QED
    BY <2>1, <2>4 DEF EmptyModel, NoGen, NoProfile
<1>14. ASSUME NEW i \in Ids
       PROVE  Behind(model, events, i) /\ Shown(model, i) /\ CardFits(model, i) /\ Above(model, i)
  <2>1. Len(service.bodies) \in Nat /\ service.gens[i] \in Nat /\ Len(events) = 0
    BY <1>3, <1>4, <1>9 DEF ServiceShaped, Queue
  <2>2. Behind(model, events, i)
    BY <1>13, <2>1 DEF Behind
  <2>3. Shown(model, i) /\ CardFits(model, i) /\ Above(model, i)
    BY <1>13 DEF Shown, CardFits, Above, NoGen
  <2> QED
    BY <2>2, <2>3
<1>15. ModelSound(model, events)
  BY <1>14 DEF ModelSound
<1> QED
  BY <1>7, <1>11, <1>12, <1>15 DEF WindowInv

LEMMA WindowStutters ==
    ASSUME WindowInv, UNCHANGED vars
    PROVE  WindowInv'
<1>1. UNCHANGED <<window, port, events, tasks, mutation, service, disk, scenario>>
  BY DEF vars
<1>2. \A t \in tasks' : TaskFits(t)
  BY <1>1, TasksAre DEF WindowInv, Backstage
<1>3. Backstage'
  BY <1>1, <1>2, TasksOnly
<1>4. Answering' /\ ModelSound(model, events)'
  BY <1>1, StillNotTold
<1> QED
  BY <1>1, <1>3, <1>4, BehindWindow DEF WindowInv

LEMMA WindowSteps ==
    ASSUME WindowInv, Next
    PROVE  WindowInv'
<1>1. CASE Poll
  BY <1>1, PollKeeps
<1>2. CASE FinishFrame
  BY <1>2, FinishFrameCalm, CalmKeeps
<1>3. CASE User
  BY <1>3, UserCalm, CalmKeeps
<1>4. CASE PollControl
  BY <1>4, PollControlKeeps
<1>5. CASE PollMutation
  BY <1>5, PollMutationKeeps
<1>6. CASE PollWork
  BY <1>6, PollWorkKeeps
<1>7. ASSUME NEW t \in tasks,
             \/ Disconnect(t) \/ Reconnect(t) \/ Acquire(t) \/ AcquireFails(t) \/ OperateEnds(t) \/ OperateEvicts(t)
      PROVE  WindowInv'
  BY <1>7, DisconnectKeeps, ReconnectKeeps, AcquireKeeps, AcquireFailsKeeps, OperateEndsKeeps, OperateEvictsKeeps
<1>8. CASE StoreSecret
  BY <1>8, StoreSecretKeeps
<1>9. CASE Refuse
  BY <1>9, RefuseKeeps
<1>10. CASE Write
  BY <1>10, WriteKeeps
<1>11. CASE Reload
  BY <1>11, ReloadKeeps
<1>12. CASE Complete
  BY <1>12, CompleteKeeps
<1>13. CASE FinishMutation
  BY <1>13, FinishMutationKeeps
<1>14. CASE EditDisk
  BY <1>14, EditDiskKeeps
<1> QED
  BY <1>1, <1>2, <1>3, <1>4, <1>5, <1>6, <1>7, <1>8, <1>9, <1>10, <1>11, <1>12, <1>13, <1>14 DEF Next

-----------------------------------------------------------------------------
(* The theorems                                                            *)

\* The inductive invariant, of every behaviour: sessions, tasks, answers on the way
\* and cards fit the generations they name, and answers come in order.
THEOREM WindowSafe == Spec => []WindowInv
<1>1. Init => WindowInv
  BY WindowStarts
<1>2. WindowInv /\ [Next]_vars => WindowInv'
  BY WindowSteps, WindowStutters
<1> QED
  BY <1>1, <1>2, PTL DEF Spec

\* A card never says "connected" of a session that was opened for other connection
\* fields than those of its active generation (UiModel::fold, rekey_session).
THEOREM WindowCardsFit == Spec => []ConnectedBelongsToActive
<1>1. WindowInv => ConnectedBelongsToActive
  <2>1. SUFFICES ASSUME WindowInv, NEW i \in Ids, model.conn[i].is = "connected"
                 PROVE  /\ model.active[i] # NoGen
                        /\ Endpoint[service.opened[model.conn[i].n]] = Endpoint[service.bodies[model.active[i]]]
    BY DEF ConnectedBelongsToActive
  <2>2. SessionFits(model.conn[i].n, model.active[i])
    BY <2>1 DEF WindowInv, ModelSound, CardFits
  <2> QED
    BY <2>2 DEF SessionFits, NoGen
<1> QED
  BY <1>1, WindowSafe, PTL

\* A generation that is active is newer than every deletion of its id the window was
\* told of, so that no late event of a deleted profile is folded.
THEOREM WindowAboveTombstones == Spec => []LiveAboveTombstone
<1>1. WindowInv => LiveAboveTombstone
  BY DEF WindowInv, ModelSound, Above, LiveAboveTombstone
<1> QED
  BY <1>1, WindowSafe, PTL
=============================================================================
