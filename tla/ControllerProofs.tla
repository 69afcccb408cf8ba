-------------------------- MODULE ControllerProofs --------------------------
(***************************************************************************)
(* The controller, for any set of operations, of any kinds and subjects,   *)
(* and any lane capacities and limits: what becomes of a command, of its   *)
(* registry entry and of the messages its task sends.                      *)
(***************************************************************************)
EXTENDS Controller, FiniteSetTheorems, SequenceTheorems, WellFoundedInduction, TLAPS

-----------------------------------------------------------------------------
(* Queues.                                                                 *)

In(queue, x) == \E i \in 1..Len(queue) : queue[i] = x
Once(queue, x) == \A i, j \in 1..Len(queue) : queue[i] = x /\ queue[j] = x => i = j

\* What is taken from the front is gone, if it was there once.
LEMMA Popping ==
    ASSUME NEW S, NEW q \in Seq(S), q # <<>>
    PROVE  /\ Head(q) \in S /\ Tail(q) \in Seq(S) /\ In(q, Head(q))
           /\ \A x : (In(Tail(q), x) => In(q, x)) /\ (Once(q, x) => Once(Tail(q), x))
           /\ \A x : In(q, x) => x = Head(q) \/ In(Tail(q), x)
           /\ Once(q, Head(q)) => ~In(Tail(q), Head(q))
<1>1. /\ Len(q) \in Nat \ {0} /\ Head(q) = q[1] /\ Head(q) \in S
      /\ Tail(q) \in Seq(S) /\ Len(Tail(q)) = Len(q) - 1
      /\ \A i \in 1..(Len(q) - 1) : Tail(q)[i] = q[i + 1]
  OBVIOUS
<1>2. \A i \in 1..(Len(q) - 1) : i + 1 \in 1..Len(q) /\ i + 1 # 1
  BY <1>1
<1>3. In(q, Head(q))
  BY <1>1 DEF In
<1>4. ASSUME NEW x PROVE (In(Tail(q), x) => In(q, x)) /\ (Once(q, x) => Once(Tail(q), x))
  BY <1>1, <1>2 DEF In, Once
<1>5. Once(q, Head(q)) => ~In(Tail(q), Head(q))
  BY <1>1, <1>2 DEF In, Once
<1>6. ASSUME NEW x, In(q, x) PROVE x = Head(q) \/ In(Tail(q), x)
  <2>1. PICK i \in 1..Len(q) : q[i] = x
    BY <1>6 DEF In
  <2>2. CASE i = 1
    BY <1>1, <2>1, <2>2
  <2>3. CASE i # 1
    <3>1. i - 1 \in 1..(Len(q) - 1) /\ q[(i - 1) + 1] = x
      BY <1>1, <2>1, <2>3
    <3> QED
      BY <1>1, <3>1 DEF In
  <2> QED
    BY <2>2, <2>3
<1> QED
  BY <1>1, <1>3, <1>4, <1>5, <1>6

LEMMA Pushing ==
    ASSUME NEW S, NEW q \in Seq(S), NEW e \in S
    PROVE  /\ Append(q, e) \in Seq(S)
           /\ \A x : In(Append(q, e), x) <=> In(q, x) \/ x = e
           /\ \A x : Once(q, x) /\ (x = e => ~In(q, x)) => Once(Append(q, e), x)
<1>1. /\ Append(q, e) \in Seq(S) /\ Len(q) \in Nat /\ Len(Append(q, e)) = Len(q) + 1
      /\ \A i \in 1..Len(q) : Append(q, e)[i] = q[i]
      /\ Append(q, e)[Len(q) + 1] = e
  OBVIOUS
<1>2. \A i \in 1..(Len(q) + 1) : i \in 1..Len(q) \/ i = Len(q) + 1
  BY <1>1
<1>3. 1..Len(q) \subseteq 1..(Len(q) + 1) /\ Len(q) + 1 \in 1..(Len(q) + 1)
  BY <1>1
<1>4. \A x : In(Append(q, e), x) <=> In(q, x) \/ x = e
  BY <1>1, <1>2, <1>3 DEF In
<1>5. ASSUME NEW x, Once(q, x), x = e => ~In(q, x) PROVE Once(Append(q, e), x)
  BY <1>1, <1>2, <1>5 DEF In, Once
<1> QED
  BY <1>1, <1>4, <1>5

LEMMA NothingIn == \A x : ~In(<<>>, x) /\ Once(<<>>, x)
BY DEF In, Once

\* Every set of numbers has a least one, and so induction.
LEMMA LeastNatural ==
    ASSUME NEW T \in SUBSET Nat, T # {}
    PROVE  \E x \in T : \A y \in T : x <= y
<1> DEFINE less == OpToRel(<, Nat)
<1>1. IsWellFoundedOn(less, Nat)
  BY NatLessThanWellFounded
<1>2. \A x, y \in Nat : <<y, x>> \in less <=> y < x
  BY DEF OpToRel
<1> HIDE DEF less
<1>3. PICK x \in T : \A y \in T : ~ (<<y, x>> \in less)
  BY <1>1, WFMin
<1>4. \A y \in T : x \in Nat /\ y \in Nat /\ ~(y < x)
  BY <1>2, <1>3
<1> QED
  BY <1>4

\* Induction up to a bound, for a property given as a set.
LEMMA UpTo ==
    ASSUME NEW m \in Nat, NEW P, 0 \in P, \A n \in 1..m : n - 1 \in P => n \in P
    PROVE  0..m \subseteq P
<1> DEFINE T == {n \in 0..m : n \notin P}
<1> SUFFICES ASSUME T # {} PROVE FALSE
  OBVIOUS
<1>1. T \in SUBSET Nat
  OBVIOUS
<1>2. PICK n \in T : \A k \in T : n <= k
  BY <1>1, LeastNatural
<1>3. n \in 1..m /\ n - 1 \in 0..m /\ n - 1 \notin T
  BY <1>2
<1> QED
  BY <1>2, <1>3

\* What Without keeps of the first n of the queue, from what it keeps of fewer.
Prefix(queue, ops, f, n) ==
    IF n = 0 THEN <<>> ELSE IF queue[n] \in ops THEN f[n - 1] ELSE Append(f[n - 1], queue[n])

\* The recursive function in Without exists.
LEMMA Keeps ==
    ASSUME NEW S, NEW queue \in Seq(S), NEW ops
    PROVE  \E kept : /\ kept = [n \in 0..Len(queue) |-> Prefix(queue, ops, kept, n)]
                     /\ Without(queue, ops) = kept[Len(queue)]
<1> DEFINE m == Len(queue)
           P == {n \in 0..m : \E f : f = [k \in 0..n |-> Prefix(queue, ops, f, k)]}
<1>1. m \in Nat
  OBVIOUS
<1>2. 0 \in P
  <2> DEFINE f == [k \in 0..0 |-> <<>>]
  <2>1. f = [k \in 0..0 |-> Prefix(queue, ops, f, k)]
    BY DEF Prefix
  <2> QED
    BY <1>1, <2>1
<1>3. ASSUME NEW n \in 1..m, n - 1 \in P PROVE n \in P
  <2>1. PICK f : f = [k \in 0..(n - 1) |-> Prefix(queue, ops, f, k)]
    BY <1>3
  <2> DEFINE g == [k \in 0..n |-> IF k = n THEN Prefix(queue, ops, f, n) ELSE f[k]]
  <2>2. \A k \in 0..n : Prefix(queue, ops, g, k) = Prefix(queue, ops, f, k)
    BY DEF Prefix
  <2>3. \A k \in 0..n : g[k] = Prefix(queue, ops, g, k)
    <3>1. \A k \in 0..(n - 1) : f[k] = Prefix(queue, ops, f, k)
      BY <2>1
    <3> QED
      BY <2>2, <3>1
  <2>4. g = [k \in 0..n |-> Prefix(queue, ops, g, k)]
    BY <2>3
  <2> HIDE DEF g
  <2> QED
    BY <2>4
<1>4. 0..m \subseteq P
  <2> HIDE DEF P, m
  <2> QED
    BY <1>1, <1>2, <1>3, UpTo
<1>5. PICK f : f = [n \in 0..m |-> Prefix(queue, ops, f, n)]
  BY <1>1, <1>4
<1>6. \E kept : kept = [n \in 0..Len(queue) |->
            IF n = 0 THEN <<>>
            ELSE IF queue[n] \in ops THEN kept[n - 1] ELSE Append(kept[n - 1], queue[n])]
  BY <1>5 DEF Prefix
<1> DEFINE kept == CHOOSE kept : kept = [n \in 0..Len(queue) |->
            IF n = 0 THEN <<>>
            ELSE IF queue[n] \in ops THEN kept[n - 1] ELSE Append(kept[n - 1], queue[n])]
<1>7. kept = [n \in 0..Len(queue) |->
            IF n = 0 THEN <<>>
            ELSE IF queue[n] \in ops THEN kept[n - 1] ELSE Append(kept[n - 1], queue[n])]
  BY <1>6
<1>8. Without(queue, ops) = kept[Len(queue)]
  BY DEF Without
<1> HIDE DEF kept
<1> QED
  BY <1>7, <1>8 DEF Prefix

\* Without drops ops and keeps the others in a place that is not behind theirs.
LEMMA Leaving ==
    ASSUME NEW S, NEW queue \in Seq(S), NEW ops
    PROVE  /\ Without(queue, ops) \in Seq(S)
           /\ \A x : In(Without(queue, ops), x) => In(queue, x) /\ x \notin ops
           /\ \A j \in 1..Len(queue) : queue[j] \notin ops =>
                \E i \in 1..Len(Without(queue, ops)) : i <= j /\ Without(queue, ops)[i] = queue[j]
<1> DEFINE m == Len(queue)
<1>1. PICK kept : /\ kept = [n \in 0..m |-> Prefix(queue, ops, kept, n)]
                  /\ Without(queue, ops) = kept[m]
  BY Keeps
<1>2. m \in Nat /\ \A n \in 0..m : kept[n] = Prefix(queue, ops, kept, n)
  BY <1>1
<1> DEFINE Good(n) == /\ kept[n] \in Seq(S) /\ Len(kept[n]) <= n
                      /\ \A i \in 1..Len(kept[n]) : \E j \in 1..n : kept[n][i] = queue[j] /\ queue[j] \notin ops
                      /\ \A j \in 1..n : queue[j] \notin ops =>
                           \E i \in 1..Len(kept[n]) : i <= j /\ kept[n][i] = queue[j]
           P == {n \in 0..m : Good(n)}
<1>3. 0 \in P
  <2>1. kept[0] = <<>> /\ 0 \in 0..m
    BY <1>2 DEF Prefix
  <2>2. kept[0] \in Seq(S) /\ Len(kept[0]) = 0 /\ 1..0 = {}
    BY <2>1
  <2>3. Good(0)
    BY <2>2
  <2> QED
    BY <2>1, <2>3
<1>4. ASSUME NEW n \in 1..m, n - 1 \in P PROVE n \in P
  <2>1. n - 1 \in 0..m /\ Good(n - 1) /\ n \in 0..m /\ n # 0 /\ queue[n] \in S
    BY <1>4
  <2>2. CASE queue[n] \in ops
    <3>1. kept[n] = kept[n - 1]
      BY <1>2, <2>1, <2>2 DEF Prefix
    <3>2. \A j \in 1..n : queue[j] \notin ops => j \in 1..(n - 1)
      BY <2>2
    <3>3. 1..(n - 1) \subseteq 1..n /\ Len(kept[n]) \in Nat /\ Len(kept[n]) <= n
      BY <2>1, <3>1
    <3>4. Good(n)
      BY <2>1, <3>1, <3>2, <3>3
    <3> QED
      BY <2>1, <3>4
  <2>3. CASE queue[n] \notin ops
    <3> DEFINE old == kept[n - 1]
               new == kept[n]
    <3>1. new = Append(old, queue[n])
      BY <1>2, <2>1, <2>3 DEF Prefix
    <3>2. old \in Seq(S) /\ Len(old) \in Nat /\ Len(old) <= n - 1
      BY <2>1
    <3>3. /\ new \in Seq(S) /\ Len(new) = Len(old) + 1 /\ new[Len(old) + 1] = queue[n]
          /\ \A i \in 1..Len(old) : new[i] = old[i]
      BY <2>1, <3>1, <3>2
    <3>4. ASSUME NEW i \in 1..Len(new)
          PROVE  \E j \in 1..n : new[i] = queue[j] /\ queue[j] \notin ops
      <4>1. CASE i \in 1..Len(old)
        BY <2>1, <3>3, <4>1
      <4>2. CASE i = Len(old) + 1
        BY <2>3, <3>3, <4>2
      <4> QED
        BY <3>2, <3>3, <4>1, <4>2
    <3>5. ASSUME NEW j \in 1..n, queue[j] \notin ops
          PROVE  \E i \in 1..Len(new) : i <= j /\ new[i] = queue[j]
      <4>1. CASE j \in 1..(n - 1)
        <5>1. PICK i \in 1..Len(old) : i <= j /\ old[i] = queue[j]
          BY <2>1, <3>5, <4>1
        <5> QED
          BY <3>2, <3>3, <5>1
      <4>2. CASE j = n
        BY <3>2, <3>3, <4>2
      <4> QED
        BY <4>1, <4>2
    <3>6. Len(new) <= n
      BY <3>2, <3>3
    <3>7. Good(n)
      BY <3>3, <3>4, <3>5, <3>6
    <3> QED
      BY <2>1, <3>7
  <2> QED
    BY <2>2, <2>3
<1>5. 0..m \subseteq P
  <2> HIDE DEF P, m
  <2> QED
    BY <1>2, <1>3, <1>4, UpTo
<1>6. Good(m)
  <2>1. m \in P
    BY <1>2, <1>5
  <2> HIDE DEF Good
  <2> QED
    BY <2>1
<1> QED
  BY <1>1, <1>2, <1>6 DEF In

-----------------------------------------------------------------------------
(* Lanes: a command is in at most one of them, once.                       *)

Statuses == {"new", "submitted", "rejected", "coalesced", "drained"}
LaneWork == ProfileWork \cup {"draft", "export"}

\* The control of op, as it is queued.
Control(op) == <<Kind[op], op>>

Lanes ==
    /\ workLane \in Seq(Ops) /\ mutationLane \in Seq(Ops) /\ controlLane \in Seq(Commands)
    /\ status \in [Ops -> Statuses]
    /\ \A op \in Ops :
         /\ In(workLane, op) => status[op] # "new" /\ Kind[op] \in LaneWork
         /\ In(mutationLane, op) => status[op] # "new" /\ Kind[op] \in Mutations
         /\ In(controlLane, Control(op)) => status[op] # "new" /\ Kind[op] \in Controls
         /\ Once(workLane, op) /\ Once(mutationLane, op) /\ Once(controlLane, Control(op))
    /\ \A kind \in Controls, op \in Ops : In(controlLane, <<kind, op>>) => kind = Kind[op]

\* The controller has not seen op yet.
Pending(op) ==
    status[op] = "new" \/ In(workLane, op) \/ In(mutationLane, op) \/ In(controlLane, Control(op))

\* Whoever is taken from a lane was pending, and no longer is.
Taken(op) == Pending(op) /\ \A x \in Ops : Pending(x)' => Pending(x) /\ x # op

LEMMA WorkTaken ==
    ASSUME Lanes, workLane # <<>>, workLane' = Tail(workLane),
           UNCHANGED <<mutationLane, controlLane, status>>
    PROVE  Lanes' /\ Head(workLane) \in Ops /\ Kind[Head(workLane)] \in LaneWork /\ Taken(Head(workLane))
<1> DEFINE op == Head(workLane)
<1>1. /\ op \in Ops /\ Tail(workLane) \in Seq(Ops) /\ In(workLane, op)
      /\ \A x : (In(Tail(workLane), x) => In(workLane, x)) /\ (Once(workLane, x) => Once(Tail(workLane), x))
      /\ Once(workLane, op) => ~In(Tail(workLane), op)
  BY Popping DEF Lanes
<1>2. Lanes'
  BY <1>1 DEF Lanes, Control
<1>3. Kind[op] \in LaneWork /\ Kind[op] \notin Mutations \cup Controls /\ status[op] # "new"
  BY <1>1 DEF Lanes, LaneWork, ProfileWork, Mutations, Controls
<1>4. ~In(mutationLane, op) /\ ~In(controlLane, Control(op)) /\ ~In(Tail(workLane), op)
  BY <1>1, <1>3 DEF Lanes
<1> QED
  BY <1>1, <1>2, <1>3, <1>4 DEF Taken, Pending, Control

LEMMA MutationTaken ==
    ASSUME Lanes, mutationLane # <<>>, mutationLane' = Tail(mutationLane),
           UNCHANGED <<workLane, controlLane, status>>
    PROVE  /\ Lanes' /\ Head(mutationLane) \in Ops /\ Kind[Head(mutationLane)] \in Mutations
           /\ Taken(Head(mutationLane))
<1> DEFINE op == Head(mutationLane)
<1>1. /\ op \in Ops /\ Tail(mutationLane) \in Seq(Ops) /\ In(mutationLane, op)
      /\ \A x : /\ In(Tail(mutationLane), x) => In(mutationLane, x)
                /\ Once(mutationLane, x) => Once(Tail(mutationLane), x)
      /\ Once(mutationLane, op) => ~In(Tail(mutationLane), op)
  BY Popping DEF Lanes
<1>2. Lanes'
  BY <1>1 DEF Lanes, Control
<1>3. Kind[op] \in Mutations /\ Kind[op] \notin LaneWork \cup Controls /\ status[op] # "new"
  BY <1>1 DEF Lanes, LaneWork, ProfileWork, Mutations, Controls
<1>4. ~In(workLane, op) /\ ~In(controlLane, Control(op)) /\ ~In(Tail(mutationLane), op)
  BY <1>1, <1>3 DEF Lanes
<1> QED
  BY <1>1, <1>2, <1>3, <1>4 DEF Taken, Pending, Control

LEMMA ControlTaken ==
    ASSUME Lanes, controlLane # <<>>, controlLane' = Tail(controlLane),
           UNCHANGED <<workLane, mutationLane, status>>
    PROVE  /\ Lanes' /\ \A x \in Ops : Pending(x)' => Pending(x)
           /\ Head(controlLane) \in Commands /\ Head(controlLane)[2] \in Ops
           /\ Head(controlLane)[1] # "cancel" =>
                /\ Kind[Head(controlLane)[2]] \in Controls /\ Taken(Head(controlLane)[2])
<1> DEFINE command == Head(controlLane)
           op == command[2]
<1>1. /\ command \in Commands /\ Tail(controlLane) \in Seq(Commands) /\ In(controlLane, command)
      /\ \A x : /\ In(Tail(controlLane), x) => In(controlLane, x)
                /\ Once(controlLane, x) => Once(Tail(controlLane), x)
      /\ Once(controlLane, command) => ~In(Tail(controlLane), command)
  BY Popping DEF Lanes
<1>2. Lanes'
  BY <1>1 DEF Lanes, Control
<1>3. \A x \in Ops : Pending(x)' => Pending(x)
  BY <1>1 DEF Pending, Control
<1>4. op \in Ops /\ command = <<command[1], op>> /\ (command[1] # "cancel" => command[1] \in Controls)
  <2>1. \A c \in Commands : /\ c[2] \in Ops /\ c = <<c[1], c[2]>>
                            /\ c[1] # "cancel" => c[1] \in Controls
    BY DEF Commands
  <2> QED
    BY <1>1, <2>1
<1>5. ASSUME command[1] # "cancel" PROVE Kind[op] \in Controls /\ Taken(op)
  <2>1. command[1] = Kind[op]
    BY <1>1, <1>4, <1>5 DEF Lanes
  <2>2. command = Control(op)
    BY <1>4, <2>1 DEF Control
  <2>3. In(controlLane, Control(op)) /\ ~In(Tail(controlLane), Control(op))
    BY <1>1, <1>4, <2>2 DEF Lanes
  <2>4. Kind[op] \in Controls /\ Kind[op] \notin LaneWork \cup Mutations /\ status[op] # "new"
    BY <1>4, <2>3 DEF Lanes, LaneWork, ProfileWork, Mutations, Controls
  <2>5. ~In(workLane, op) /\ ~In(mutationLane, op)
    BY <1>4, <2>4 DEF Lanes
  <2>6. \A x \in Ops : Pending(x)' => x # op
    BY <2>3, <2>4, <2>5 DEF Pending, Control
  <2>7. Pending(op)
    BY <2>3 DEF Pending
  <2> QED
    BY <1>3, <2>4, <2>6, <2>7 DEF Taken
<1> QED
  BY <1>1, <1>2, <1>3, <1>4, <1>5

-----------------------------------------------------------------------------
(* Entries, answers and messages.                                          *)

Stages == {"none", "work", "completion", "cleanup"}
TaskStates == {"idle", "waiting", "queued", "draining", "running", "done", "panicked"}
Phases == {"run", "unavailable", "closing", "down"}

\* An operation is registered exactly while it has a task.
Entries ==
    /\ stage \in [Ops -> Stages] /\ task \in [Ops -> TaskStates] /\ waits \in [Ops -> SUBSET Ops]
    /\ \A op \in Ops : /\ stage[op] = "none" <=> task[op] = "idle"
                       /\ stage[op] = "completion" => Kind[op] \in Mutations

\* The grace period is part of the shutdown.
Closing == phase \in Phases /\ graceOver \in BOOLEAN /\ (graceOver => phase \in {"closing", "down"})

\* Nothing has happened to an operation that is pending.
Untouched ==
    \A op \in Ops : Pending(op) =>
        /\ stage[op] = "none" /\ op \notin terminal /\ attempts[op] = 0
        /\ \A i \in 1..Len(messages) : messages[i][1] # op

\* An entry has no answer yet, and its terminal token is not fired.
Unanswered ==
    /\ attempts \in [Ops -> Nat] /\ terminal \subseteq Ops
    /\ \A op \in Ops : /\ attempts[op] <= 1
                       /\ stage[op] # "none" => attempts[op] = 0 /\ op \notin terminal

\* A message of a registered operation is the only one, and its task is done;
\* only past the grace period may it be the message of an aborted task.  A
\* mutation, which is never aborted, keeps its entry until its output is taken.
Late(op) == graceOver /\ stage[op] = "cleanup"
Messages ==
    /\ messages \in Seq(Ops \X Events)
    /\ \A i \in 1..Len(messages) :
         LET op == messages[i][1] IN
         /\ stage[op] = "none" \/ task[op] = "done" \/ Late(op)
         /\ \A j \in 1..Len(messages) :
              messages[j][1] = op => i = j \/ stage[op] = "none" \/ Late(op)
         /\ messages[i][2] = "output" => stage[op] = "work" /\ Kind[op] \in Mutations

AnswerInv == Lanes /\ Entries /\ Closing /\ Untouched /\ Unanswered /\ Messages

-----------------------------------------------------------------------------
(* Mutations, and the work on one profile.                                 *)

\* The entries that hold the mutation lane.
Mutating == {op \in Ops : stage[op] \in {"work", "completion"} /\ Kind[op] \in Mutations}
Serialized ==
    /\ mutationActive \in BOOLEAN /\ (mutationActive <=> Mutating # {})
    /\ \A a, b \in Mutating : a = b

\* A token that is awaited was fired, or its operation is still registered.
Settled == \A op \in Ops : \A target \in waits[op] : target \in terminal \/ stage[target] # "none"

\* Of two tasks on one profile generation one waits for the other, and a task
\* runs only when all it waits for are over.
Working(op) == stage[op] = "work" /\ Kind[op] \in ProfileWork \cup Controls
Ordered ==
    /\ \A op \in Ops : stage[op] = "work" /\ task[op] = "running" => waits[op] \subseteq terminal
    /\ \A a, b \in Ops : Working(a) /\ Working(b) /\ Scope(a) = Scope(b) /\ a # b =>
         a \in waits[b] \/ b \in waits[a]

ExclusionInv == Serialized /\ Settled /\ Ordered

-----------------------------------------------------------------------------
(* What the steps do to entries and messages.                              *)

Inv == AnswerInv /\ ExclusionInv

core == <<stage, task, waits, terminal, attempts>>

\* The lanes move on, the grace period may end, and nothing else comes back.
Onwards ==
    /\ Lanes' /\ Closing' /\ (graceOver => graceOver')
    /\ \A x \in Ops : Pending(x)' => Pending(x)

\* The classes of the entries the proofs distinguish.
LEMMA Classes ==
    ASSUME Entries
    PROVE  /\ \A op \in Registered : Class(op) = "Mutation" <=> op \in Mutating
           /\ NetworkEntries \subseteq Registered
           /\ \A op \in NetworkEntries : op \notin Mutating
           /\ \A op \in Registered : stage[op] = "cleanup" => op \in NetworkEntries
           /\ \A op \in Ops : Working(op) => op \in ProfileNetwork(Scope(op))
<1>1. ASSUME NEW op \in Ops, stage[op] = "cleanup" PROVE Class(op) = "AsyncNetwork"
  BY <1>1 DEF Class
<1>2. ASSUME NEW op \in Ops, stage[op] # "cleanup", Kind[op] \in Mutations PROVE Class(op) = "Mutation"
  BY <1>2 DEF Class, Mutations
<1>3. ASSUME NEW op \in Ops, stage[op] # "cleanup", Kind[op] \notin Mutations
      PROVE  /\ Class(op) # "Mutation"
             /\ Kind[op] # "export" => Class(op) = "AsyncNetwork"
  <2>1. CASE Kind[op] = "export"
    BY <1>3, <2>1 DEF Class
  <2>2. CASE Kind[op] # "export"
    BY <1>3, <2>2 DEF Class
  <2> QED
    BY <2>1, <2>2
<1>4. \A op \in Registered : op \in Ops /\ stage[op] \in Stages \ {"none"}
  BY DEF Registered, Entries
<1>5. NetworkEntries \subseteq Registered
  BY DEF NetworkEntries
<1>6. \A op \in Ops : op \in Mutating => stage[op] # "cleanup" /\ Kind[op] \in Mutations
  BY DEF Mutating
<1>7. \A op \in Ops : Working(op) => /\ op \in Registered /\ stage[op] # "cleanup" /\ ProfileScoped(op)
                                     /\ Kind[op] \notin Mutations /\ Kind[op] # "export"
  BY DEF Working, Registered, ProfileScoped, ProfileWork, Controls, Mutations
<1> QED
  BY <1>1, <1>2, <1>3, <1>4, <1>5, <1>6, <1>7 DEF NetworkEntries, ProfileNetwork, Mutating, Stages

\* A step of the client, the shutdown or a cancel leaves the entries alone.
LEMMA LeavesEntries ==
    ASSUME Inv, Onwards, UNCHANGED <<core, messages, mutationActive>>
    PROVE  Inv'
<1> USE DEF core
<1>1. Entries' /\ Unanswered'
  BY DEF Inv, AnswerInv, Entries, Unanswered
<1>2. Untouched'
  BY DEF Inv, AnswerInv, Onwards, Untouched
<1>3. Messages'
  BY DEF Inv, AnswerInv, Onwards, Messages, Late
<1>4. ExclusionInv'
  BY DEF Inv, ExclusionInv, Serialized, Mutating, Settled, Ordered, Working
<1> QED
  BY <1>1, <1>2, <1>3, <1>4 DEF Inv, AnswerInv, Onwards

\* An operation taken from a lane is answered at once.
LEMMA Refuses ==
    ASSUME Inv, Onwards, NEW op \in Ops, Taken(op),
           attempts' = [attempts EXCEPT ![op] = @ + 1],
           UNCHANGED <<stage, task, waits, terminal, messages, mutationActive>>
    PROVE  Inv'
<1>1. Entries'
  BY DEF Inv, AnswerInv, Entries
<1>2. stage[op] = "none" /\ attempts[op] = 0 /\ attempts \in [Ops -> Nat]
  BY DEF Inv, AnswerInv, Untouched, Taken, Unanswered
<1>3. Unanswered'
  BY <1>2 DEF Inv, AnswerInv, Unanswered
<1>4. Untouched'
  BY <1>2 DEF Inv, AnswerInv, Onwards, Untouched, Taken
<1>5. Messages'
  BY DEF Inv, AnswerInv, Onwards, Messages, Late
<1>6. ExclusionInv'
  BY DEF Inv, ExclusionInv, Serialized, Mutating, Settled, Ordered, Working
<1> QED
  BY <1>1, <1>3, <1>4, <1>5, <1>6 DEF Inv, AnswerInv, Onwards

\* An operation taken from a lane is registered.
LEMMA Starts ==
    ASSUME Inv, Onwards, NEW op \in Ops, Taken(op),
           NEW started \in TaskStates \ {"idle"}, NEW targets \in SUBSET Registered,
           Register(op, "work", started, targets),
           UNCHANGED <<attempts, messages>>,
           IF Kind[op] \in Mutations THEN ~mutationActive /\ mutationActive' = TRUE
           ELSE UNCHANGED mutationActive,
           started = "running" => targets = {},
           Kind[op] \in ProfileWork \cup Controls =>
               \A x \in Ops : Working(x) /\ Scope(x) = Scope(op) => x \in targets
    PROVE  Inv'
<1>0. /\ stage' = [stage EXCEPT ![op] = "work"] /\ task' = [task EXCEPT ![op] = started]
      /\ waits' = [waits EXCEPT ![op] = targets] /\ terminal' = terminal
  BY DEF Register
<1>1. /\ stage[op] = "none" /\ op \notin terminal /\ attempts[op] = 0
      /\ \A i \in 1..Len(messages) : messages[i][1] # op
  BY DEF Inv, AnswerInv, Untouched, Taken
<1>2. targets \subseteq Ops /\ \A x \in targets : stage[x] # "none"
  BY DEF Registered
<1>3. Entries
  BY DEF Inv, AnswerInv
<1>4. /\ stage' \in [Ops -> Stages] /\ task' \in [Ops -> TaskStates] /\ waits' \in [Ops -> SUBSET Ops]
      /\ stage'[op] = "work" /\ task'[op] = started /\ waits'[op] = targets
      /\ \A x \in Ops : x # op => stage'[x] = stage[x] /\ task'[x] = task[x] /\ waits'[x] = waits[x]
  BY <1>0, <1>2, <1>3 DEF Entries, Stages
<1>5. Entries'
  BY <1>3, <1>4 DEF Entries
<1>6. Unanswered'
  BY <1>0, <1>1, <1>4 DEF Inv, AnswerInv, Unanswered
<1>7. Untouched'
  BY <1>0, <1>4 DEF Inv, AnswerInv, Onwards, Untouched, Taken
<1>8. Messages'
  <2>1. messages \in Seq(Ops \X Events) /\ messages' = messages
    BY DEF Inv, AnswerInv, Messages
  <2>2. \A i \in 1..Len(messages) : messages[i][1] \in Ops
    BY <2>1
  <2> QED
    BY <1>1, <1>4, <2>1, <2>2 DEF Inv, AnswerInv, Onwards, Messages, Late
<1>9. Serialized'
  <2>1. CASE Kind[op] \in Mutations
    <3>1. Mutating = {} /\ mutationActive' = TRUE
      BY <2>1 DEF Inv, ExclusionInv, Serialized
    <3>2. Mutating' = {op}
      BY <1>4, <2>1, <3>1 DEF Mutating
    <3> QED
      BY <3>1, <3>2 DEF Serialized
  <2>2. CASE Kind[op] \notin Mutations
    <3>1. Mutating' = Mutating /\ mutationActive' = mutationActive
      BY <1>1, <1>4, <2>2 DEF Mutating
    <3> QED
      BY <3>1 DEF Inv, ExclusionInv, Serialized
  <2> QED
    BY <2>1, <2>2
<1>10. Settled'
  BY <1>0, <1>2, <1>3, <1>4 DEF Inv, ExclusionInv, Settled, Entries
<1>11. Ordered'
  <2>1. ASSUME NEW x \in Ops, (stage[x] = "work" /\ task[x] = "running")'
        PROVE  waits'[x] \subseteq terminal'
    BY <1>0, <1>4, <2>1 DEF Inv, ExclusionInv, Ordered
  <2>2. \A x \in Ops : x # op => (Working(x)' <=> Working(x))
    BY <1>4 DEF Working
  <2>3. Working(op)' => Kind[op] \in ProfileWork \cup Controls
    BY DEF Working
  <2>4. ASSUME NEW a \in Ops, NEW b \in Ops, Working(a)', Working(b)', Scope(a) = Scope(b), a # b
        PROVE  a \in waits'[b] \/ b \in waits'[a]
    <3>1. CASE a = op
      BY <1>4, <2>2, <2>3, <2>4, <3>1
    <3>2. CASE b = op
      BY <1>4, <2>2, <2>3, <2>4, <3>2
    <3>3. CASE a # op /\ b # op
      BY <1>4, <2>2, <2>4, <3>3 DEF Inv, ExclusionInv, Ordered
    <3> QED
      BY <3>1, <3>2, <3>3
  <2> QED
    BY <2>1, <2>4 DEF Ordered, Scope
<1> QED
  BY <1>5, <1>6, <1>7, <1>8, <1>9, <1>10, <1>11 DEF Inv, AnswerInv, ExclusionInv, Onwards

\* Nothing in the lanes or the shutdown moved.
LEMMA Stays ==
    ASSUME Inv, UNCHANGED <<lanes, status, phase, graceOver>>
    PROVE  Onwards
BY DEF Inv, AnswerInv, Lanes, Closing, Pending, Onwards, lanes

\* A task that is alive moves on, or panics, without a message.
LEMMA Moves ==
    ASSUME Inv, Onwards, NEW op \in Ops, Live(op),
           NEW to \in TaskStates \ {"idle"}, to = "running" => Joined(op),
           task' = [task EXCEPT ![op] = to],
           UNCHANGED <<stage, waits, terminal, attempts, messages, mutationActive>>
    PROVE  Inv'
<1>1. /\ task[op] \notin {"idle", "done"}
      /\ task' \in [Ops -> TaskStates] /\ task'[op] = to /\ \A x \in Ops : x # op => task'[x] = task[x]
  BY DEF Inv, AnswerInv, Entries, Live
<1>2. Entries' /\ stage[op] # "none"
  BY <1>1 DEF Inv, AnswerInv, Entries
<1>3. Untouched' /\ Unanswered'
  BY DEF Inv, AnswerInv, Onwards, Untouched, Unanswered
<1>4. Messages'
  <2>1. messages \in Seq(Ops \X Events)
    BY DEF Inv, AnswerInv, Messages
  <2>2. \A i \in 1..Len(messages) : messages[i][1] \in Ops
    BY <2>1
  <2> QED
    BY <1>1, <1>2, <2>1, <2>2 DEF Inv, AnswerInv, Onwards, Messages, Late
<1>5. Serialized' /\ Settled'
  BY DEF Inv, ExclusionInv, Serialized, Mutating, Settled
<1>6. Ordered'
  BY <1>1 DEF Inv, ExclusionInv, Ordered, Working, Joined
<1> QED
  BY <1>2, <1>3, <1>4, <1>5, <1>6 DEF Inv, AnswerInv, ExclusionInv, Onwards

\* A task that is alive ends with a message.
LEMMA Sends ==
    ASSUME Inv, Onwards, NEW op \in Ops, Live(op),
           NEW output \in Events, output = "output" => stage[op] = "work" /\ Kind[op] \in Mutations,
           task' = [task EXCEPT ![op] = "done"],
           messages' = Append(messages, <<op, output>>),
           UNCHANGED <<stage, waits, terminal, attempts, mutationActive>>
    PROVE  Inv'
<1>1. /\ task[op] \notin {"idle", "done"}
      /\ task' \in [Ops -> TaskStates] /\ task'[op] = "done"
      /\ \A x \in Ops : x # op => task'[x] = task[x]
  BY DEF Inv, AnswerInv, Entries, Live, TaskStates
<1>2. Entries' /\ stage[op] # "none"
  BY <1>1 DEF Inv, AnswerInv, Entries
<1>3. Unanswered'
  BY DEF Inv, AnswerInv, Unanswered
<1>4. /\ messages \in Seq(Ops \X Events) /\ messages' \in Seq(Ops \X Events)
      /\ Len(messages) \in Nat /\ Len(messages') = Len(messages) + 1
      /\ \A i \in 1..Len(messages) : messages'[i] = messages[i] /\ messages[i][1] \in Ops
      /\ messages'[Len(messages) + 1] = <<op, output>>
  BY DEF Inv, AnswerInv, Messages
<1>5. \A i \in 1..(Len(messages) + 1) : i \in 1..Len(messages) \/ i = Len(messages) + 1
  BY <1>4
<1>6. Untouched'
  <2> SUFFICES ASSUME NEW x \in Ops, Pending(x)'
               PROVE  /\ stage'[x] = "none" /\ x \notin terminal' /\ attempts'[x] = 0
                      /\ \A i \in 1..Len(messages') : messages'[i][1] # x
    BY DEF Untouched
  <2>1. /\ stage[x] = "none" /\ x \notin terminal /\ attempts[x] = 0
        /\ \A i \in 1..Len(messages) : messages[i][1] # x
    BY DEF Inv, AnswerInv, Onwards, Untouched
  <2> QED
    BY <1>2, <1>4, <1>5, <2>1
<1>7. Messages'
  <2>0. ASSUME NEW i \in 1..Len(messages)
        PROVE  LET o == messages[i][1] IN
               /\ stage[o] = "none" \/ task[o] = "done" \/ Late(o)
               /\ \A j \in 1..Len(messages) : messages[j][1] = o => i = j \/ stage[o] = "none" \/ Late(o)
               /\ messages[i][2] = "output" => stage[o] = "work" /\ Kind[o] \in Mutations
    BY DEF Inv, AnswerInv, Messages
  <2>1. \A i \in 1..Len(messages) : messages[i][1] = op => Late(op)
    BY <1>1, <1>2 DEF Inv, AnswerInv, Messages
  <2>2. \A x \in Ops : Late(x) => graceOver' /\ stage'[x] = "cleanup"
    BY DEF Late, Onwards
  <2>3. ASSUME NEW i \in 1..Len(messages')
        PROVE  LET o == messages'[i][1] IN
               /\ stage'[o] = "none" \/ task'[o] = "done" \/ (graceOver' /\ stage'[o] = "cleanup")
               /\ messages'[i][2] = "output" => stage'[o] = "work" /\ Kind[o] \in Mutations
    <3>1. CASE i \in 1..Len(messages)
      <4>1. messages'[i] = messages[i] /\ messages[i][1] \in Ops
        BY <1>4, <3>1
      <4> QED
        BY <1>1, <2>0, <2>2, <3>1, <4>1
    <3>2. CASE i = Len(messages) + 1
      BY <1>1, <1>4, <3>2
    <3> QED
      BY <1>4, <1>5, <3>1, <3>2
  <2>4. ASSUME NEW i \in 1..Len(messages'), NEW j \in 1..Len(messages'),
               messages'[j][1] = messages'[i][1], i # j
        PROVE  LET o == messages'[i][1] IN
               stage'[o] = "none" \/ (graceOver' /\ stage'[o] = "cleanup")
    <3>1. CASE i \in 1..Len(messages) /\ j \in 1..Len(messages)
      <4>1. messages'[i] = messages[i] /\ messages'[j] = messages[j] /\ messages[i][1] \in Ops
        BY <1>4, <3>1
      <4> QED
        BY <2>0, <2>2, <2>4, <3>1, <4>1
    <3>2. CASE i = Len(messages) + 1
      BY <1>4, <1>5, <2>1, <2>2, <2>4, <3>2 DEF Late
    <3>3. CASE j = Len(messages) + 1
      BY <1>4, <1>5, <2>1, <2>2, <2>4, <3>3 DEF Late
    <3> QED
      BY <1>4, <1>5, <3>1, <3>2, <3>3
  <2> QED
    BY <1>4, <2>3, <2>4 DEF Messages, Late
<1>8. Serialized' /\ Settled'
  BY DEF Inv, ExclusionInv, Serialized, Mutating, Settled
<1>9. Ordered'
  BY <1>1 DEF Inv, ExclusionInv, Ordered, Working
<1> QED
  BY <1>2, <1>3, <1>6, <1>7, <1>8, <1>9 DEF Inv, AnswerInv, ExclusionInv, Onwards

\* A message is taken: the others stay true of the entries.
LEMMA NextMessage ==
    ASSUME Inv, Onwards, messages # <<>>, messages' = Tail(messages), ~Late(messages[1][1]),
           \A x \in Ops : x # messages[1][1] \/ stage[x] = "none" =>
               stage'[x] = stage[x] /\ task'[x] = task[x]
    PROVE  /\ messages[1][1] \in Ops /\ messages[1][2] \in Events
           /\ messages[1][2] = "output" => Kind[messages[1][1]] \in Mutations /\ stage[messages[1][1]] = "work"
           /\ Messages'
           /\ \A x \in Ops : Pending(x)' =>
                /\ Pending(x) /\ x # messages[1][1]
                /\ \A i \in 1..Len(messages') : messages'[i][1] # x
<1> DEFINE op == messages[1][1]
<1>1. /\ messages \in Seq(Ops \X Events) /\ Len(messages) \in Nat \ {0}
      /\ messages' \in Seq(Ops \X Events) /\ Len(messages') = Len(messages) - 1
      /\ \A i \in 1..(Len(messages) - 1) : messages'[i] = messages[i + 1]
  BY DEF Inv, AnswerInv, Messages
<1>2. /\ 1 \in 1..Len(messages) /\ op \in Ops /\ messages[1][2] \in Events
      /\ \A i \in 1..Len(messages') : /\ i + 1 \in 1..Len(messages) /\ i + 1 # 1
                                      /\ messages'[i] = messages[i + 1] /\ messages'[i][1] \in Ops
  BY <1>1
<1>3. ASSUME NEW i \in 1..Len(messages)
      PROVE  LET o == messages[i][1] IN
             /\ stage[o] = "none" \/ task[o] = "done" \/ Late(o)
             /\ \A j \in 1..Len(messages) : messages[j][1] = o => i = j \/ stage[o] = "none" \/ Late(o)
             /\ messages[i][2] = "output" => stage[o] = "work" /\ Kind[o] \in Mutations
  BY DEF Inv, AnswerInv, Messages
<1>4. \A i \in 1..Len(messages') : messages'[i][1] = op => stage[op] = "none"
  BY <1>2, <1>3
<1>5. \A i \in 1..Len(messages') : LET o == messages'[i][1] IN stage'[o] = stage[o] /\ task'[o] = task[o]
  BY <1>2, <1>4
<1>6. \A x \in Ops : stage'[x] = stage[x] /\ Late(x) => Late(x)'
  BY DEF Late, Onwards
<1>7. ASSUME NEW i \in 1..Len(messages')
      PROVE  LET o == messages'[i][1] IN
             /\ stage'[o] = "none" \/ task'[o] = "done" \/ (graceOver' /\ stage'[o] = "cleanup")
             /\ \A j \in 1..Len(messages') :
                  messages'[j][1] = o => i = j \/ stage'[o] = "none" \/ (graceOver' /\ stage'[o] = "cleanup")
             /\ messages'[i][2] = "output" => stage'[o] = "work" /\ Kind[o] \in Mutations
  <2> DEFINE o == messages'[i][1]
  <2>1. o = messages[i + 1][1] /\ messages'[i][2] = messages[i + 1][2] /\ i + 1 \in 1..Len(messages) /\ o \in Ops
    BY <1>2
  <2>2. stage'[o] = stage[o] /\ task'[o] = task[o] /\ (Late(o) => graceOver' /\ stage'[o] = "cleanup")
    BY <1>5, <2>1 DEF Late, Onwards
  <2>3. ASSUME NEW j \in 1..Len(messages'), messages'[j][1] = o
        PROVE  i = j \/ stage[o] = "none" \/ Late(o)
    <3>1. j + 1 \in 1..Len(messages) /\ messages[j + 1][1] = o
      BY <1>2, <2>3
    <3>2. i + 1 = j + 1 \/ stage[o] = "none" \/ Late(o)
      BY <1>3, <2>1, <3>1
    <3> QED
      BY <1>1, <3>2
  <2>4. /\ stage[o] = "none" \/ task[o] = "done" \/ Late(o)
        /\ messages'[i][2] = "output" => stage[o] = "work" /\ Kind[o] \in Mutations
    BY <1>3, <2>1
  <2> QED
    BY <2>2, <2>3, <2>4
<1>8. Messages'
  BY <1>1, <1>7 DEF Messages, Late
<1>9. ASSUME NEW x \in Ops, Pending(x)'
      PROVE  Pending(x) /\ x # op /\ \A i \in 1..Len(messages') : messages'[i][1] # x
  <2>1. Pending(x) /\ \A i \in 1..Len(messages) : messages[i][1] # x
    BY <1>9 DEF Inv, AnswerInv, Onwards, Untouched
  <2> QED
    BY <1>2, <2>1
<1> QED
  BY <1>2, <1>3, <1>8, <1>9

\* The message of an operation that has no entry any more is dropped.
LEMMA DropsMessage ==
    ASSUME Inv, Onwards, messages # <<>>, messages' = Tail(messages), stage[messages[1][1]] = "none",
           UNCHANGED <<core, mutationActive>>
    PROVE  Inv'
<1> USE DEF core
<1>1. ~Late(messages[1][1])
  BY DEF Late
<1>2. Messages' /\ \A x \in Ops : Pending(x)' =>
                       Pending(x) /\ \A i \in 1..Len(messages') : messages'[i][1] # x
  BY <1>1, NextMessage
<1>3. Untouched'
  BY <1>2 DEF Inv, AnswerInv, Untouched
<1>4. Entries' /\ Unanswered'
  BY DEF Inv, AnswerInv, Entries, Unanswered
<1>5. ExclusionInv'
  BY DEF Inv, ExclusionInv, Serialized, Mutating, Settled, Ordered, Working
<1> QED
  BY <1>2, <1>3, <1>4, <1>5 DEF Inv, AnswerInv, Onwards

\* The entry whose task is joined is answered, and its token fired.
LEMMA Completes ==
    ASSUME Inv, Onwards, messages # <<>>, messages' = Tail(messages),
           NEW op, op = messages[1][1], stage[op] # "none", ~Late(op),
           NEW event, CompleteEntry(op, event)
    PROVE  Inv'
<1>1. Entries /\ Unanswered /\ ExclusionInv
  BY DEF Inv, AnswerInv
<1>2. /\ stage' = [stage EXCEPT ![op] = "none"] /\ task' = [task EXCEPT ![op] = "idle"]
      /\ waits' = [waits EXCEPT ![op] = {}] /\ terminal' = terminal \cup {op}
      /\ attempts' = [x \in Ops |-> attempts[x] + IF x \in {op} THEN 1 ELSE 0]
      /\ mutationActive' = (mutationActive /\ Class(op) # "Mutation")
  BY DEF CompleteEntry, Emit
<1>3. \A x \in Ops : x # op \/ stage[x] = "none" => stage'[x] = stage[x] /\ task'[x] = task[x]
  BY <1>1, <1>2 DEF Entries
<1>4. /\ op \in Ops /\ Messages'
      /\ \A x \in Ops : Pending(x)' =>
           Pending(x) /\ x # op /\ \A i \in 1..Len(messages') : messages'[i][1] # x
  BY <1>3, NextMessage
<1>5. /\ stage' \in [Ops -> Stages] /\ task' \in [Ops -> TaskStates] /\ waits' \in [Ops -> SUBSET Ops]
      /\ attempts' \in [Ops -> Nat] /\ terminal' \subseteq Ops
      /\ stage'[op] = "none" /\ task'[op] = "idle" /\ waits'[op] = {} /\ attempts'[op] = 1
      /\ \A x \in Ops : x # op => /\ stage'[x] = stage[x] /\ task'[x] = task[x] /\ waits'[x] = waits[x]
                                  /\ attempts'[x] = attempts[x]
  BY <1>1, <1>2, <1>4 DEF Entries, Unanswered, Stages, TaskStates
<1>6. Entries'
  BY <1>1, <1>5 DEF Entries
<1>7. Unanswered'
  BY <1>1, <1>2, <1>5 DEF Unanswered
<1>8. Untouched'
  BY <1>2, <1>4, <1>5 DEF Inv, AnswerInv, Untouched
<1>9. Serialized'
  <2>1. Mutating' = Mutating \ {op}
    BY <1>4, <1>5 DEF Mutating
  <2>2. Class(op) = "Mutation" <=> op \in Mutating
    BY <1>1, <1>4, Classes DEF Registered
  <2>3. mutationActive \in BOOLEAN /\ (mutationActive <=> Mutating # {}) /\ \A a, b \in Mutating : a = b
    BY <1>1 DEF ExclusionInv, Serialized
  <2>4. CASE op \in Mutating
    <3>1. Mutating' = {} /\ mutationActive' = FALSE
      BY <1>2, <2>1, <2>2, <2>3, <2>4
    <3> QED
      BY <3>1 DEF Serialized
  <2>5. CASE op \notin Mutating
    <3>1. Mutating' = Mutating /\ mutationActive' = mutationActive
      BY <1>2, <2>1, <2>2, <2>3, <2>5
    <3> QED
      BY <2>3, <3>1 DEF Serialized
  <2> QED
    BY <2>4, <2>5
<1>10. Settled'
  BY <1>1, <1>2, <1>5 DEF ExclusionInv, Settled, Entries
<1>11. Ordered'
  BY <1>1, <1>2, <1>5 DEF ExclusionInv, Ordered, Working
<1> QED
  BY <1>4, <1>6, <1>7, <1>8, <1>9, <1>10, <1>11 DEF Inv, AnswerInv, ExclusionInv, Onwards

\* A mutation whose output is taken goes on as its completion.
LEMMA Joins ==
    ASSUME Inv, Onwards, messages # <<>>, messages' = Tail(messages),
           NEW op, op = messages[1][1], messages[1][2] = "output", stage[op] # "none", ~Late(op),
           NEW targets \in SUBSET Registered, Register(op, "completion", "waiting", targets),
           UNCHANGED <<attempts, mutationActive>>
    PROVE  Inv'
<1>1. Entries /\ Unanswered /\ ExclusionInv
  BY DEF Inv, AnswerInv
<1>2. /\ stage' = [stage EXCEPT ![op] = "completion"] /\ task' = [task EXCEPT ![op] = "waiting"]
      /\ waits' = [waits EXCEPT ![op] = targets] /\ terminal' = terminal
  BY DEF Register
<1>3. \A x \in Ops : x # op \/ stage[x] = "none" => stage'[x] = stage[x] /\ task'[x] = task[x]
  BY <1>1, <1>2 DEF Entries
<1>4. /\ op \in Ops /\ Messages' /\ Kind[op] \in Mutations /\ stage[op] = "work"
      /\ \A x \in Ops : Pending(x)' =>
           Pending(x) /\ x # op /\ \A i \in 1..Len(messages') : messages'[i][1] # x
  BY <1>3, NextMessage
<1>5. targets \subseteq Ops /\ \A x \in targets : stage[x] # "none"
  BY DEF Registered
<1>6. /\ stage' \in [Ops -> Stages] /\ task' \in [Ops -> TaskStates] /\ waits' \in [Ops -> SUBSET Ops]
      /\ stage'[op] = "completion" /\ task'[op] = "waiting" /\ waits'[op] = targets
      /\ \A x \in Ops : x # op => stage'[x] = stage[x] /\ task'[x] = task[x] /\ waits'[x] = waits[x]
  BY <1>1, <1>2, <1>4, <1>5 DEF Entries, Stages, TaskStates
<1>7. Entries'
  BY <1>1, <1>4, <1>6 DEF Entries
<1>8. Unanswered'
  BY <1>1, <1>2, <1>4, <1>6 DEF Unanswered
<1>9. Untouched'
  BY <1>2, <1>4, <1>6 DEF Inv, AnswerInv, Untouched
<1>10. Serialized'
  <2>1. Mutating' = Mutating
    BY <1>4, <1>6 DEF Mutating
  <2> QED
    BY <1>1, <2>1 DEF ExclusionInv, Serialized
<1>11. Settled'
  BY <1>1, <1>2, <1>5, <1>6 DEF ExclusionInv, Settled, Entries
<1>12. Ordered'
  BY <1>1, <1>2, <1>6 DEF ExclusionInv, Ordered, Working
<1> QED
  BY <1>4, <1>7, <1>8, <1>9, <1>10, <1>11, <1>12 DEF Inv, AnswerInv, ExclusionInv, Onwards

\* Entries whose tasks ended without a message: a cleanup is answered, the
\* others become cleanups.  Messages of theirs are left only by an abort.
LEMMA Fails ==
    ASSUME Inv, Onwards, NEW failed \in SUBSET Registered, FailEntries(failed), UNCHANGED messages,
           messages = <<>> \/ (graceOver /\ failed \subseteq NetworkEntries)
    PROVE  Inv'
<1> DEFINE over == {op \in failed : stage[op] = "cleanup"}
<1>1. Entries /\ Unanswered /\ ExclusionInv /\ Messages
  BY DEF Inv, AnswerInv
<1>2. /\ stage' = [op \in Ops |-> IF op \in over THEN "none" ELSE IF op \in failed THEN "cleanup" ELSE stage[op]]
      /\ task' = [op \in Ops |-> IF op \in over THEN "idle" ELSE IF op \in failed THEN "running" ELSE task[op]]
      /\ waits' = [op \in Ops |-> IF op \in failed THEN {} ELSE waits[op]]
      /\ terminal' = terminal \cup over
      /\ attempts' = [op \in Ops |-> attempts[op] + IF op \in over THEN 1 ELSE 0]
      /\ mutationActive' = (mutationActive /\ \A op \in failed : Class(op) # "Mutation")
  BY DEF FailEntries, Emit
<1>3. failed \subseteq Ops /\ \A op \in failed : stage[op] # "none"
  BY DEF Registered
<1>4. over \subseteq failed
  OBVIOUS
<1> HIDE DEF over
<1>5. /\ stage' \in [Ops -> Stages] /\ task' \in [Ops -> TaskStates] /\ waits' \in [Ops -> SUBSET Ops]
      /\ attempts' \in [Ops -> Nat] /\ terminal' \subseteq Ops
      /\ \A x \in over : stage'[x] = "none" /\ task'[x] = "idle" /\ waits'[x] = {} /\ attempts'[x] = attempts[x] + 1
      /\ \A x \in failed : waits'[x] = {}
      /\ \A x \in failed \ over : stage'[x] = "cleanup" /\ task'[x] = "running" /\ attempts'[x] = attempts[x]
      /\ \A x \in Ops \ failed : /\ stage'[x] = stage[x] /\ task'[x] = task[x] /\ waits'[x] = waits[x]
                                 /\ attempts'[x] = attempts[x]
  BY <1>1, <1>2, <1>3, <1>4 DEF Entries, Unanswered, Stages, TaskStates
<1>6. Entries'
  BY <1>1, <1>3, <1>4, <1>5 DEF Entries
<1>7. Unanswered'
  BY <1>1, <1>2, <1>3, <1>4, <1>5 DEF Unanswered
<1>8. Untouched'
  <2>1. \A x \in Ops : Pending(x)' => x \notin failed /\ Pending(x)
    BY <1>3 DEF Inv, AnswerInv, Onwards, Untouched
  <2> QED
    BY <1>2, <1>4, <1>5, <2>1 DEF Inv, AnswerInv, Untouched
<1>9. Messages'
  <2>1. CASE messages = <<>>
    BY <1>1, <2>1 DEF Messages
  <2>2. CASE graceOver /\ failed \subseteq NetworkEntries
    <3>1. graceOver'
      BY <2>2 DEF Onwards
    <3>2. \A x \in failed : stage'[x] = "none" \/ stage'[x] = "cleanup"
      BY <1>4, <1>5
    <3>3. \A i \in 1..Len(messages) : messages[i][1] \in Ops
      BY <1>1 DEF Messages
    <3>4. ASSUME NEW i \in 1..Len(messages), messages[i][2] = "output" PROVE messages[i][1] \notin failed
      <4>1. messages[i][1] \in Mutating
        BY <1>1, <3>3, <3>4 DEF Messages, Mutating
      <4> QED
        BY <1>1, <2>2, <4>1, Classes
    <3>5. ASSUME NEW i \in 1..Len(messages)
          PROVE  LET o == messages[i][1] IN
                 /\ stage'[o] = "none" \/ task'[o] = "done" \/ (graceOver' /\ stage'[o] = "cleanup")
                 /\ \A j \in 1..Len(messages) :
                      messages[j][1] = o => i = j \/ stage'[o] = "none" \/ (graceOver' /\ stage'[o] = "cleanup")
                 /\ messages[i][2] = "output" => stage'[o] = "work" /\ Kind[o] \in Mutations
      <4>1. CASE messages[i][1] \in failed
        BY <3>1, <3>2, <3>4, <4>1
      <4>2. CASE messages[i][1] \notin failed
        <5>1. LET o == messages[i][1] IN stage'[o] = stage[o] /\ task'[o] = task[o]
          BY <1>5, <3>3, <4>2
        <5> QED
          BY <1>1, <3>1, <5>1 DEF Messages, Late
      <4> QED
        BY <4>1, <4>2
    <3> QED
      BY <1>1, <3>5 DEF Messages, Late
  <2> QED
    BY <2>1, <2>2
<1>10. Serialized'
  <2>1. Mutating' = Mutating \ failed
    BY <1>3, <1>4, <1>5 DEF Mutating
  <2>2. \A x \in failed : Class(x) = "Mutation" <=> x \in Mutating
    BY <1>1, Classes
  <2>3. mutationActive \in BOOLEAN /\ (mutationActive <=> Mutating # {}) /\ \A a, b \in Mutating : a = b
    BY <1>1 DEF ExclusionInv, Serialized
  <2>4. CASE \E x \in failed : x \in Mutating
    <3>1. Mutating' = {} /\ mutationActive' = FALSE
      BY <1>2, <2>1, <2>2, <2>3, <2>4
    <3> QED
      BY <3>1 DEF Serialized
  <2>5. CASE ~\E x \in failed : x \in Mutating
    <3>1. Mutating' = Mutating /\ mutationActive' = mutationActive
      BY <1>2, <2>1, <2>2, <2>3, <2>5
    <3> QED
      BY <2>3, <3>1 DEF Serialized
  <2> QED
    BY <2>4, <2>5
<1>11. Settled'
  BY <1>1, <1>2, <1>3, <1>4, <1>5 DEF ExclusionInv, Settled, Entries
<1>12. Ordered'
  <2>1. \A x \in Ops : stage'[x] = "work" => x \notin failed
    BY <1>4, <1>5
  <2> QED
    BY <1>1, <1>2, <1>5, <2>1 DEF ExclusionInv, Ordered, Working
<1> QED
  BY <1>6, <1>7, <1>8, <1>9, <1>10, <1>11, <1>12 DEF Inv, AnswerInv, ExclusionInv, Onwards

-----------------------------------------------------------------------------
(* The client and the shutdown.                                            *)

\* A refused or coalesced command is in no lane.
LEMMA Turned ==
    ASSUME Lanes, NEW op \in Ops, status[op] = "new", NEW why \in Statuses \ {"new"}, NotSent(op, why)
    PROVE  Lanes' /\ \A x \in Ops : Pending(x)' => Pending(x)
<1>1. /\ workLane' = workLane /\ mutationLane' = mutationLane /\ controlLane' = controlLane
      /\ status' \in [Ops -> Statuses] /\ status'[op] = why /\ \A x \in Ops : x # op => status'[x] = status[x]
  BY DEF NotSent, lanes, Lanes
<1>2. Lanes'
  BY <1>1 DEF Lanes, Control
<1> QED
  BY <1>1, <1>2 DEF Pending, Control

LEMMA Submits ==
    ASSUME Lanes, NEW op \in Ops, status[op] = "new", SubmitWork(op) \/ SubmitMutation(op) \/ SubmitControl(op)
    PROVE  Lanes' /\ \A x \in Ops : Pending(x)' => Pending(x)
<1>1. ASSUME Sent(op)
      PROVE  /\ status' \in [Ops -> Statuses] /\ status'[op] = "submitted"
             /\ \A x \in Ops : x # op => status'[x] = status[x]
  BY <1>1 DEF Sent, Lanes, Statuses
<1>2. ~In(workLane, op) /\ ~In(mutationLane, op) /\ ~In(controlLane, Control(op)) /\ Pending(op)
  BY DEF Lanes, Pending
<1>3. CASE SubmitWork(op)
  <2>1. CASE workLane' = Append(workLane, op) /\ Sent(op) /\ UNCHANGED <<mutationLane, controlLane, keys>>
    <3>1. /\ workLane' \in Seq(Ops)
          /\ \A x : In(workLane', x) <=> In(workLane, x) \/ x = op
          /\ \A x \in Ops : Once(workLane', x)
      BY <1>2, <2>1, Pushing DEF Lanes
    <3>2. Kind[op] \in LaneWork
      BY <1>3 DEF SubmitWork, LaneWork
    <3>3. Lanes'
      BY <1>1, <2>1, <3>1, <3>2 DEF Lanes, Control
    <3> QED
      BY <1>1, <1>2, <2>1, <3>1, <3>3 DEF Pending, Control
  <2>2. CASE NotSent(op, "rejected")
    BY <2>2, Turned DEF Statuses
  <2> QED
    BY <1>3, <2>1, <2>2 DEF SubmitWork
<1>4. CASE SubmitMutation(op)
  <2>1. CASE mutationLane' = Append(mutationLane, op) /\ Sent(op) /\ UNCHANGED <<workLane, controlLane, keys>>
    <3>1. /\ mutationLane' \in Seq(Ops)
          /\ \A x : In(mutationLane', x) <=> In(mutationLane, x) \/ x = op
          /\ \A x \in Ops : Once(mutationLane', x)
      BY <1>2, <2>1, Pushing DEF Lanes
    <3>2. Kind[op] \in Mutations
      BY <1>4 DEF SubmitMutation
    <3>3. Lanes'
      BY <1>1, <2>1, <3>1, <3>2 DEF Lanes, Control
    <3> QED
      BY <1>1, <1>2, <2>1, <3>1, <3>3 DEF Pending, Control
  <2>2. CASE NotSent(op, "rejected")
    BY <2>2, Turned DEF Statuses
  <2> QED
    BY <1>4, <2>1, <2>2 DEF SubmitMutation
<1>5. CASE SubmitControl(op)
  <2>1. CASE controlLane' = Append(controlLane, Control(op)) /\ Sent(op) /\ UNCHANGED <<workLane, mutationLane>>
    <3>1. Kind[op] \in Controls /\ Control(op) \in Commands
      BY <1>5 DEF SubmitControl, Control, Commands
    <3>2. /\ controlLane' \in Seq(Commands)
          /\ \A x : In(controlLane', x) <=> In(controlLane, x) \/ x = Control(op)
          /\ \A x : Once(controlLane, x) /\ (x = Control(op) => ~In(controlLane, x)) => Once(controlLane', x)
      BY <2>1, <3>1, Pushing DEF Lanes
    <3>3. \A x \in Ops : Once(controlLane', Control(x)) /\ (Control(x) = Control(op) => x = op)
      BY <1>2, <3>2 DEF Lanes, Control
    <3>4. \A kind \in Controls, x \in Ops : <<kind, x>> = Control(op) => kind = Kind[x] /\ x = op
      BY DEF Control
    <3>5. /\ \A x \in Ops : In(controlLane', Control(x)) => In(controlLane, Control(x)) \/ x = op
          /\ \A kind \in Controls, x \in Ops : In(controlLane', <<kind, x>>) => kind = Kind[x]
      BY <3>2, <3>3, <3>4 DEF Lanes
    <3>6. Lanes'
      BY <1>1, <2>1, <3>1, <3>2, <3>3, <3>5 DEF Lanes, Control
    <3> QED
      BY <1>1, <1>2, <2>1, <3>5, <3>6 DEF Pending, Control
  <2>2. CASE NotSent(op, "rejected") \/ NotSent(op, "coalesced")
    BY <2>2, Turned DEF Statuses
  <2> QED
    BY <1>5, <2>1, <2>2 DEF SubmitControl, Control
<1> QED
  BY <1>3, <1>4, <1>5

\* A cancel is a control of its own.
LEMMA Cancels ==
    ASSUME Lanes, NEW op \in Ops, controlLane' = Append(controlLane, <<"cancel", op>>),
           UNCHANGED <<workLane, mutationLane, status>>
    PROVE  Lanes' /\ \A x \in Ops : Pending(x)' => Pending(x)
<1> DEFINE command == <<"cancel", op>>
<1>1. command \in Commands /\ controlLane' = Append(controlLane, command)
  BY DEF Commands
<1>2. /\ \A x \in Ops : Control(x) # command
      /\ \A kind \in Controls, x \in Ops : <<kind, x>> # command
  BY ControllerAssumption DEF ControllerAssumption, Control, Controls, Kinds, ProfileWork, Mutations
<1> HIDE DEF command
<1>3. /\ controlLane' \in Seq(Commands)
      /\ \A x : In(controlLane', x) <=> In(controlLane, x) \/ x = command
      /\ \A x : Once(controlLane, x) /\ (x = command => ~In(controlLane, x)) => Once(controlLane', x)
  <2>1. controlLane \in Seq(Commands)
    BY DEF Lanes
  <2>2. /\ Append(controlLane, command) \in Seq(Commands)
        /\ \A x : In(Append(controlLane, command), x) <=> In(controlLane, x) \/ x = command
        /\ \A x : Once(controlLane, x) /\ (x = command => ~In(controlLane, x)) =>
                  Once(Append(controlLane, command), x)
    BY <1>1, <2>1, Pushing
  <2> QED
    BY <1>1, <2>2
<1>4. /\ \A x \in Ops : (In(controlLane', Control(x)) => In(controlLane, Control(x))) /\ Once(controlLane', Control(x))
      /\ \A kind \in Controls, x \in Ops : In(controlLane', <<kind, x>>) => In(controlLane, <<kind, x>>)
  BY <1>2, <1>3 DEF Lanes
<1>5. Lanes'
  BY <1>3, <1>4 DEF Lanes, Control
<1> QED
  BY <1>4, <1>5 DEF Pending, Control

\* A shutdown empties the lanes.
LEMMA Drains ==
    ASSUME Lanes, workLane' = <<>>, mutationLane' = <<>>, controlLane' = <<>>,
           NEW queued, status' = [op \in Ops |-> IF op \in queued THEN "drained" ELSE status[op]]
    PROVE  Lanes' /\ \A x \in Ops : Pending(x)' => Pending(x)
<1>1. status' \in [Ops -> Statuses] /\ \A x \in Ops : status'[x] = "new" => status[x] = "new"
  BY DEF Lanes, Statuses
<1>2. <<>> \in Seq(Ops) /\ <<>> \in Seq(Commands)
  OBVIOUS
<1>3. \A x : /\ ~In(workLane', x) /\ ~In(mutationLane', x) /\ ~In(controlLane', x)
             /\ Once(workLane', x) /\ Once(mutationLane', x) /\ Once(controlLane', x)
  BY NothingIn
<1>4. Lanes'
  BY <1>1, <1>2, <1>3 DEF Lanes, Control
<1> QED
  BY <1>1, <1>3, <1>4 DEF Pending, Control

-----------------------------------------------------------------------------
(* The handlers of the loop.                                               *)

LEMMA Emits ==
    ASSUME Inv, NEW op \in Ops, NEW event, Emit({op}, event)
    PROVE  attempts' = [attempts EXCEPT ![op] = @ + 1]
<1>1. attempts \in [Ops -> Nat]
  BY DEF Inv, AnswerInv, Unanswered
<1>2. attempts' = [x \in Ops |-> attempts[x] + IF x \in {op} THEN 1 ELSE 0]
  BY DEF Emit
<1>3. \A x \in Ops : attempts[x] + (IF x \in {op} THEN 1 ELSE 0) = [attempts EXCEPT ![op] = @ + 1][x]
  BY <1>1
<1> QED
  BY <1>1, <1>2, <1>3

\* An early return of a handler.
LEMMA Returns ==
    ASSUME Inv, Onwards, NEW op \in Ops, Taken(op), NEW event, Refuse(op, event),
           UNCHANGED <<messages, mutationActive>>
    PROVE  Inv'
<1>1. attempts' = [attempts EXCEPT ![op] = @ + 1] /\ UNCHANGED <<stage, task, waits, terminal>>
  BY Emits DEF Refuse, entries
<1> QED
  BY <1>1, Refuses

\* A task that runs at once: the profile has no other work.
LEMMA Begins ==
    ASSUME Inv, Onwards, NEW op \in Ops, Taken(op),
           Register(op, "work", "running", {}), UNCHANGED <<attempts, messages>>,
           IF Kind[op] \in Mutations THEN ~mutationActive /\ mutationActive' = TRUE
           ELSE UNCHANGED mutationActive,
           Kind[op] \in ProfileWork \cup Controls =>
               \A x \in Ops : ~(Working(x) /\ Scope(x) = Scope(op))
    PROVE  Inv'
<1>1. {} \in SUBSET Registered /\ "running" \in TaskStates \ {"idle"}
  BY DEF TaskStates
<1> QED
  BY <1>1, Starts

LEMMA Joinable ==
    ASSUME Inv
    PROVE  /\ NetworkEntries \subseteq Registered
           /\ \A scope : ProfileNetwork(scope) \subseteq NetworkEntries
           /\ \A op, x \in Ops : Working(x) /\ Scope(x) = Scope(op) => x \in ProfileNetwork(Scope(op))
BY Classes DEF Inv, AnswerInv, ProfileNetwork

LEMMA HandleControlStep == ASSUME Inv, HandleControl PROVE Inv'
<1> DEFINE op == Head(controlLane)[2]
<1>1. /\ controlLane # <<>> /\ controlLane' = Tail(controlLane)
      /\ UNCHANGED <<workLane, mutationLane, messages, mutationActive, phase, graceOver, status>>
  BY DEF HandleControl, control, closing
<1>2. /\ Lanes' /\ (\A x \in Ops : Pending(x)' => Pending(x)) /\ op \in Ops
      /\ Head(controlLane)[1] # "cancel" => Kind[op] \in Controls /\ Taken(op)
  BY <1>1, ControlTaken DEF Inv, AnswerInv
<1>3. Onwards
  BY <1>1, <1>2 DEF Inv, AnswerInv, Onwards, Closing
<1>4. CASE Head(controlLane)[1] = "cancel" /\ CancelOperation(op)
  BY <1>1, <1>3, <1>4, LeavesEntries DEF CancelOperation, core
<1>5. CASE Head(controlLane)[1] # "cancel" /\ ProfileControl(op)
  <2>1. Kind[op] \in Controls /\ Taken(op) /\ Kind[op] \notin Mutations
    BY <1>2, <1>5 DEF Controls, Mutations
  <2> HIDE DEF op
  <2>2. CASE attempts' = [attempts EXCEPT ![op] = @ + 1] /\ UNCHANGED <<entries, permits>>
    BY <1>1, <1>2, <1>3, <2>1, <2>2, Refuses DEF entries
  <2>3. CASE Refuse(op, "failed")
    BY <1>1, <1>2, <1>3, <2>1, <2>3, Returns
  <2>4. CASE StartControl(op)
    <3> DEFINE targets == ProfileNetwork(Scope(op))
    <3>1. targets \in SUBSET Registered /\ \A x \in Ops : Working(x) /\ Scope(x) = Scope(op) => x \in targets
      BY <1>2, Joinable
    <3> HIDE DEF targets
    <3>2. CASE Register(op, "work", "waiting", targets) /\ UNCHANGED <<permits, keys, attempts>>
      BY <1>1, <1>2, <1>3, <2>1, <3>1, <3>2, Starts DEF TaskStates
    <3>3. CASE targets = {} /\ Register(op, "work", "running", {}) /\ UNCHANGED <<cancelled, keys, attempts>>
      BY <1>1, <1>2, <1>3, <2>1, <3>1, <3>3, Begins
    <3> QED
      BY <2>3, <2>4, <3>2, <3>3 DEF StartControl, targets
  <2> QED
    BY <1>5, <2>2, <2>3, <2>4 DEF ProfileControl, op
<1> QED
  BY <1>4, <1>5 DEF HandleControl

LEMMA StartMutationStep == ASSUME Inv, StartMutation PROVE Inv'
<1> DEFINE op == Head(mutationLane)
<1>1. /\ mutationLane # <<>> /\ mutationLane' = Tail(mutationLane) /\ ~mutationActive
      /\ UNCHANGED <<workLane, controlLane, messages, phase, graceOver, status>>
  BY DEF StartMutation, closing
<1>2. Lanes' /\ op \in Ops /\ Kind[op] \in Mutations /\ Taken(op)
  BY <1>1, MutationTaken DEF Inv, AnswerInv
<1>3. Onwards /\ Kind[op] \notin ProfileWork \cup Controls
  BY <1>1, <1>2 DEF Inv, AnswerInv, Onwards, Closing, Taken, ProfileWork, Controls, Mutations
<1>4. \/ Refuse(op, "other") /\ UNCHANGED mutationActive
      \/ Register(op, "work", "running", {}) /\ mutationActive' = TRUE /\ UNCHANGED attempts
  BY DEF StartMutation
<1> HIDE DEF op
<1>5. CASE Refuse(op, "other") /\ UNCHANGED mutationActive
  BY <1>1, <1>2, <1>3, <1>5, Returns
<1>6. CASE Register(op, "work", "running", {}) /\ mutationActive' = TRUE /\ UNCHANGED attempts
  BY <1>1, <1>2, <1>3, <1>6, Begins
<1> QED
  BY <1>4, <1>5, <1>6

LEMMA HandleWorkStep == ASSUME Inv, HandleWork PROVE Inv'
<1> DEFINE op == Head(workLane)
           begins == Register(op, "work", "running", {}) /\ UNCHANGED attempts
<1>1. /\ workLane # <<>> /\ workLane' = Tail(workLane)
      /\ UNCHANGED <<mutationLane, controlLane, messages, mutationActive, phase, graceOver, status>>
  BY DEF HandleWork, control, closing
<1>2. Lanes' /\ op \in Ops /\ Kind[op] \in LaneWork /\ Taken(op)
  BY <1>1, WorkTaken DEF Inv, AnswerInv
<1>3. Onwards /\ Kind[op] \notin Mutations \cup Controls
  BY <1>1, <1>2 DEF Inv, AnswerInv, Onwards, Closing, Taken, LaneWork, ProfileWork, Controls, Mutations
<1>4. \/ Refuse(op, "other") \/ Refuse(op, "failed")
      \/ Kind[op] \in {"draft", "export"} /\ begins
      \/ /\ Kind[op] \in ProfileWork /\ begins
         /\ \A o \in NetworkEntries : ProfileScoped(o) => Subject[o] # Subject[op]
  BY DEF HandleWork, StartExportWork, StartDraftWork, StartProfileWork
<1> HIDE DEF op
<1>5. CASE Refuse(op, "other") \/ Refuse(op, "failed")
  BY <1>1, <1>2, <1>3, <1>5, Returns
<1>6. CASE Kind[op] \in {"draft", "export"} /\ begins
  <2>1. Kind[op] \notin ProfileWork \cup Controls
    BY <1>6 DEF ProfileWork, Controls
  <2> QED
    BY <1>1, <1>2, <1>3, <1>6, <2>1, Begins
<1>7. CASE /\ Kind[op] \in ProfileWork /\ begins
           /\ \A o \in NetworkEntries : ProfileScoped(o) => Subject[o] # Subject[op]
  <2>1. ASSUME NEW x \in Ops, Working(x), Scope(x) = Scope(op) PROVE FALSE
    <3>1. x \in ProfileNetwork(Scope(op))
      BY <1>2, <2>1, Joinable
    <3>2. x \in NetworkEntries /\ ProfileScoped(x) /\ Subject[x] = Subject[op]
      BY <3>1 DEF ProfileNetwork, Scope
    <3> QED
      BY <1>7, <3>2
  <2> QED
    BY <1>1, <1>2, <1>3, <1>7, <2>1, Begins
<1> QED
  BY <1>4, <1>5, <1>6, <1>7

LEMMA HandleMessageStep == ASSUME Inv, HandleMessage PROVE Inv'
<1> DEFINE op == messages[1][1]
           output == messages[1][2]
<1>1. /\ messages # <<>> /\ messages' = Tail(messages)
      /\ Polling \/ (phase = "closing" /\ ~(graceOver /\ NetworkEntries # {}))
      /\ UNCHANGED <<lanes, status, phase, graceOver>>
  BY DEF HandleMessage, closing
<1>2. Onwards
  BY <1>1, Stays
<1>3. op \in Ops
  <2>1. messages \in Seq(Ops \X Events)
    BY DEF Inv, AnswerInv, Messages
  <2> QED
    BY <1>1, <2>1
<1>4. ~Late(op)
  <2>1. CASE Polling
    BY <2>1 DEF Inv, AnswerInv, Closing, Polling, Late
  <2>2. CASE ~(graceOver /\ NetworkEntries # {})
    BY <1>3, <2>2, Classes DEF Inv, AnswerInv, Late, Registered
  <2> QED
    BY <1>1, <2>1, <2>2
<1>5. CASE stage[op] = "none" /\ UNCHANGED <<entries, keys, attempts, mutationActive>>
  BY <1>1, <1>2, <1>5, DropsMessage DEF entries, core
<1>6. CASE /\ stage[op] # "none" /\ output = "output" /\ UNCHANGED <<keys, attempts, mutationActive>>
           /\ \E targets \in SUBSET NetworkEntries : Register(op, "completion", "waiting", targets)
  <2>1. PICK targets \in SUBSET NetworkEntries : Register(op, "completion", "waiting", targets)
    BY <1>6
  <2>2. targets \in SUBSET Registered
    BY Joinable
  <2> QED
    BY <1>1, <1>2, <1>4, <1>6, <2>1, <2>2, Joins
<1>7. CASE stage[op] # "none" /\ CompleteEntry(op, output)
  BY <1>1, <1>2, <1>4, <1>7, Completes
<1>8. ASSUME NEW scopes, NEW fenced \in SUBSET scopes
      PROVE  (IF uncertain THEN NetworkEntries ELSE UNION {ProfileNetwork(s) : s \in fenced})
                 \in SUBSET NetworkEntries
  BY Joinable
<1> QED
  BY <1>5, <1>6, <1>7, <1>8 DEF HandleMessage

LEMMA ReapStep == ASSUME Inv, Reap PROVE Inv'
<1> DEFINE panicked == {op \in Registered : task[op] = "panicked"}
<1>1. /\ messages = <<>> /\ FailEntries(panicked) /\ UNCHANGED messages
      /\ UNCHANGED <<lanes, status, phase, graceOver>>
  BY DEF Reap, closing
<1>2. Onwards /\ panicked \in SUBSET Registered
  BY <1>1, Stays
<1> QED
  BY <1>1, <1>2, Fails

LEMMA AbortStep == ASSUME Inv, AbortNetwork PROVE Inv'
<1>1. /\ graceOver /\ FailEntries(NetworkEntries) /\ UNCHANGED messages
      /\ UNCHANGED <<lanes, status, phase, graceOver>>
  BY DEF AbortNetwork, closing
<1>2. Onwards /\ NetworkEntries \in SUBSET Registered
  BY <1>1, Stays, Joinable
<1> QED
  BY <1>1, <1>2, Fails

LEMMA UnavailableStep == ASSUME Inv, AnswerUnavailable PROVE Inv'
<1>1. UNCHANGED <<entries, messages, mutationActive, phase, graceOver, status>>
  BY DEF AnswerUnavailable, control, closing
<1>2. CASE /\ controlLane # <<>> /\ controlLane' = Tail(controlLane) /\ UNCHANGED <<workLane, mutationLane>>
           /\ \/ UNCHANGED attempts
              \/ Head(controlLane)[1] # "cancel" /\ Emit({Head(controlLane)[2]}, "failed")
  <2> DEFINE op == Head(controlLane)[2]
  <2>1. /\ Lanes' /\ (\A x \in Ops : Pending(x)' => Pending(x)) /\ op \in Ops
        /\ Head(controlLane)[1] # "cancel" => Taken(op)
    BY <1>1, <1>2, ControlTaken DEF Inv, AnswerInv
  <2>2. Onwards
    BY <1>1, <2>1 DEF Inv, AnswerInv, Onwards, Closing
  <2> HIDE DEF op
  <2>3. CASE UNCHANGED attempts
    BY <1>1, <2>2, <2>3, LeavesEntries DEF entries, core
  <2>4. CASE Head(controlLane)[1] # "cancel" /\ Emit({op}, "failed")
    <3>1. attempts' = [attempts EXCEPT ![op] = @ + 1]
      BY <2>1, <2>4, Emits
    <3> QED
      BY <1>1, <2>1, <2>2, <2>4, <3>1, Refuses DEF entries
  <2> QED
    BY <1>2, <2>3, <2>4 DEF op
<1>3. CASE /\ mutationLane # <<>> /\ mutationLane' = Tail(mutationLane)
           /\ Emit({Head(mutationLane)}, "failed") /\ UNCHANGED <<workLane, controlLane>>
  <2> DEFINE op == Head(mutationLane)
  <2>1. Lanes' /\ op \in Ops /\ Taken(op)
    BY <1>1, <1>3, MutationTaken DEF Inv, AnswerInv
  <2>2. Onwards
    BY <1>1, <2>1 DEF Inv, AnswerInv, Onwards, Closing, Taken
  <2>3. attempts' = [attempts EXCEPT ![op] = @ + 1]
    BY <1>3, <2>1, Emits
  <2> QED
    BY <1>1, <2>1, <2>2, <2>3, Refuses DEF entries
<1>4. CASE /\ workLane # <<>> /\ workLane' = Tail(workLane)
           /\ Emit({Head(workLane)}, "failed") /\ UNCHANGED <<mutationLane, controlLane>>
  <2> DEFINE op == Head(workLane)
  <2>1. Lanes' /\ op \in Ops /\ Taken(op)
    BY <1>1, <1>4, WorkTaken DEF Inv, AnswerInv
  <2>2. Onwards
    BY <1>1, <2>1 DEF Inv, AnswerInv, Onwards, Closing, Taken
  <2>3. attempts' = [attempts EXCEPT ![op] = @ + 1]
    BY <1>4, <2>1, Emits
  <2> QED
    BY <1>1, <2>1, <2>2, <2>3, Refuses DEF entries
<1> QED
  BY <1>2, <1>3, <1>4 DEF AnswerUnavailable

-----------------------------------------------------------------------------
(* The spawned tasks.                                                      *)

LEMMA TaskOutputs ==
    ASSUME NEW op \in Ops, stage[op] \in Stages, NEW output \in Outputs(op)
    PROVE  output \in Events /\ (output = "output" => stage[op] = "work" /\ Kind[op] \in Mutations)
BY DEF Outputs, Stages, Events, Mutations

\* Whatever a task does, it moves on or sends its message.
LEMMA TaskEffect ==
    ASSUME Inv, NEW op \in Ops, TaskStep(op) \/ PanicTask(op)
    PROVE  /\ Live(op) /\ UNCHANGED <<stage, waits, terminal, attempts, mutationActive>>
           /\ UNCHANGED <<lanes, status, phase, graceOver>>
           /\ \/ \E to \in TaskStates \ {"idle"} :
                   /\ task' = [task EXCEPT ![op] = to] /\ (to = "running" => Joined(op))
                   /\ UNCHANGED messages
              \/ \E output \in Events :
                   /\ output = "output" => stage[op] = "work" /\ Kind[op] \in Mutations
                   /\ task' = [task EXCEPT ![op] = "done"]
                   /\ messages' = Append(messages, <<op, output>>)
<1> DEFINE same == /\ UNCHANGED <<stage, waits, terminal, attempts, mutationActive>>
                   /\ UNCHANGED <<lanes, status, phase, graceOver>>
           moves(to) == task' = [task EXCEPT ![op] = to] /\ UNCHANGED messages
           sends(output) == /\ task' = [task EXCEPT ![op] = "done"]
                            /\ messages' = Append(messages, <<op, output>>)
<1>1. \A to : MoveTo(op, to) => same /\ moves(to)
  BY DEF MoveTo, taskUnchanged, closing, history
<1>2. \A output : Send(op, output) => same /\ sends(output)
  BY DEF Send, taskUnchanged, closing, history
<1>3. stage[op] \in Stages
  BY DEF Inv, AnswerInv, Entries
<1>4. CASE AwaitTargets(op)
  BY <1>1, <1>2, <1>4 DEF AwaitTargets, Live, TaskStates, Events
<1>5. CASE QueueReconnect(op)
  BY <1>1, <1>2, <1>5 DEF QueueReconnect, Live, TaskStates
<1>6. CASE GrantReconnect(op)
  BY <1>1, <1>6 DEF GrantReconnect, Live, TaskStates
<1>7. CASE GiveUpReconnect(op)
  BY <1>1, <1>7 DEF GiveUpReconnect, Live, TaskStates
<1>8. CASE DrainReconnect(op)
  BY <1>2, <1>8 DEF DrainReconnect, Live, Events
<1>9. CASE FinishTask(op)
  BY <1>2, <1>3, <1>9, TaskOutputs DEF FinishTask, Live
<1>10. CASE PanicTask(op)
  BY <1>10 DEF PanicTask, Live, TaskStates, taskUnchanged, closing, history
<1> QED
  BY <1>4, <1>5, <1>6, <1>7, <1>8, <1>9, <1>10 DEF TaskStep

LEMMA TaskProgress == ASSUME Inv, NEW op \in Ops, TaskStep(op) \/ PanicTask(op) PROVE Inv'
<1>1. /\ Live(op) /\ UNCHANGED <<stage, waits, terminal, attempts, mutationActive>>
      /\ UNCHANGED <<lanes, status, phase, graceOver>>
      /\ \/ \E to \in TaskStates \ {"idle"} :
              /\ task' = [task EXCEPT ![op] = to] /\ (to = "running" => Joined(op))
              /\ UNCHANGED messages
         \/ \E output \in Events :
              /\ output = "output" => stage[op] = "work" /\ Kind[op] \in Mutations
              /\ task' = [task EXCEPT ![op] = "done"]
              /\ messages' = Append(messages, <<op, output>>)
  BY TaskEffect
<1>2. Onwards
  BY <1>1, Stays
<1>3. ASSUME NEW to \in TaskStates \ {"idle"}, task' = [task EXCEPT ![op] = to],
             to = "running" => Joined(op), UNCHANGED messages
      PROVE  Inv'
  BY <1>1, <1>2, <1>3, Moves
<1>4. ASSUME NEW output \in Events, output = "output" => stage[op] = "work" /\ Kind[op] \in Mutations,
             task' = [task EXCEPT ![op] = "done"], messages' = Append(messages, <<op, output>>)
      PROVE  Inv'
  BY <1>1, <1>2, <1>4, Sends
<1> QED
  BY <1>1, <1>3, <1>4

-----------------------------------------------------------------------------
(* Permits.                                                                *)

Runs(op) ==
    stage[op] = "work" /\ task[op] = "running" /\ Kind[op] \in ProfileWork \cup {"draft", "reconnect"}
Holds(op) ==
    Granted(op, profileQueue[Subject[op]], 1) /\ Granted(op, globalQueue, GlobalLimit)

PermitInv ==
    /\ profileQueue \in [Subjects -> Seq(Ops)] /\ globalQueue \in Seq(Ops)
    /\ \A s \in Subjects : \A x \in Ops : In(profileQueue[s], x) => Live(x)
    /\ \A x \in Ops : In(globalQueue, x) => Live(x)
    /\ \A op \in Ops : Runs(op) => Holds(op)

\* Whoever holds a permit keeps it when others leave or queue up behind.
LEMMA Granting ==
    ASSUME NEW queue \in Seq(Ops), NEW limit \in Nat
    PROVE  /\ \A ops : \A x : Granted(x, queue, limit) /\ x \notin ops => Granted(x, Without(queue, ops), limit)
           /\ \A op \in Ops :
                /\ \A x : Granted(x, queue, limit) => Granted(x, Append(queue, op), limit)
                /\ Available(queue, limit) => Granted(op, Append(queue, op), limit)
<1>1. ASSUME NEW ops, NEW x, Granted(x, queue, limit), x \notin ops
      PROVE  Granted(x, Without(queue, ops), limit)
  <2>1. PICK j \in 1..Len(queue) : j <= limit /\ queue[j] = x
    BY <1>1 DEF Granted
  <2>2. PICK i \in 1..Len(Without(queue, ops)) : i <= j /\ Without(queue, ops)[i] = x
    BY <1>1, <2>1, Leaving
  <2>3. i <= limit
    BY <2>1, <2>2
  <2> QED
    BY <2>2, <2>3 DEF Granted
<1>2. ASSUME NEW op \in Ops
      PROVE  /\ \A x : Granted(x, queue, limit) => Granted(x, Append(queue, op), limit)
             /\ Available(queue, limit) => Granted(op, Append(queue, op), limit)
  <2>1. /\ Len(queue) \in Nat /\ Len(Append(queue, op)) = Len(queue) + 1
        /\ Append(queue, op)[Len(queue) + 1] = op
        /\ \A i \in 1..Len(queue) : Append(queue, op)[i] = queue[i]
    OBVIOUS
  <2> QED
    BY <2>1 DEF Granted, Available
<1> QED
  BY <1>1, <1>2

LEMMA PermitsStay ==
    ASSUME PermitInv, UNCHANGED permits,
           \A x \in Ops : (Live(x) => Live(x)') /\ (Runs(x)' => Holds(x))
    PROVE  PermitInv'
<1>1. profileQueue' = profileQueue /\ globalQueue' = globalQueue
  BY DEF permits
<1>2. \A x \in Ops : Holds(x) => Holds(x)'
  BY <1>1 DEF Holds
<1> QED
  BY <1>1, <1>2 DEF PermitInv

LEMMA PermitsDropped ==
    ASSUME PermitInv, NEW ops \in SUBSET Ops, DropPermits(ops),
           \A x \in Ops \ ops : (Live(x) => Live(x)') /\ (Runs(x)' => Runs(x)),
           \A x \in ops : ~Runs(x)'
    PROVE  PermitInv'
<1>1. /\ profileQueue \in [Subjects -> Seq(Ops)] /\ globalQueue \in Seq(Ops)
      /\ profileQueue' = [s \in Subjects |-> Without(profileQueue[s], ops)]
      /\ globalQueue' = Without(globalQueue, ops)
  BY DEF PermitInv, DropPermits
<1>2. /\ profileQueue' \in [Subjects -> Seq(Ops)] /\ globalQueue' \in Seq(Ops)
      /\ \A s \in Subjects : \A x : In(profileQueue'[s], x) => In(profileQueue[s], x) /\ x \notin ops
      /\ \A x : In(globalQueue', x) => In(globalQueue, x) /\ x \notin ops
  BY <1>1, Leaving
<1>3. GlobalLimit \in Nat /\ 1 \in Nat /\ \A x \in Ops : Subject[x] \in Subjects
  BY ControllerAssumption DEF ControllerAssumption, Subjects
<1>4. ASSUME NEW x \in Ops \ ops, Holds(x) PROVE Holds(x)'
  <2>1. Granted(x, profileQueue'[Subject[x]], 1)
    BY <1>1, <1>3, <1>4, Granting DEF Holds
  <2>2. Granted(x, globalQueue', GlobalLimit)
    BY <1>1, <1>3, <1>4, Granting DEF Holds
  <2> QED
    BY <2>1, <2>2 DEF Holds, Granted
<1> QED
  BY <1>2, <1>4 DEF PermitInv

LEMMA PermitsTaken ==
    ASSUME PermitInv, NEW op \in Ops, TakePermits(op), Live(op)',
           \A x \in Ops : x # op => (Live(x) => Live(x)') /\ (Runs(x)' => Runs(x)),
           Runs(op)' => Available(profileQueue[Subject[op]], 1) /\ Available(globalQueue, GlobalLimit)
    PROVE  PermitInv'
<1>1. /\ profileQueue \in [Subjects -> Seq(Ops)] /\ globalQueue \in Seq(Ops)
      /\ profileQueue' = [profileQueue EXCEPT ![Subject[op]] = Append(@, op)]
      /\ globalQueue' = Append(globalQueue, op)
  BY DEF PermitInv, TakePermits
<1>2. GlobalLimit \in Nat /\ 1 \in Nat /\ \A x \in Ops : Subject[x] \in Subjects
  BY ControllerAssumption DEF ControllerAssumption, Subjects
<1>3. /\ profileQueue' \in [Subjects -> Seq(Ops)] /\ globalQueue' \in Seq(Ops)
      /\ profileQueue'[Subject[op]] = Append(profileQueue[Subject[op]], op)
      /\ \A s \in Subjects : s # Subject[op] => profileQueue'[s] = profileQueue[s]
      /\ profileQueue[Subject[op]] \in Seq(Ops)
  BY <1>1, <1>2
<1>4. /\ \A s \in Subjects : \A x : In(profileQueue'[s], x) => In(profileQueue[s], x) \/ x = op
      /\ \A x : In(globalQueue', x) => In(globalQueue, x) \/ x = op
  BY <1>1, <1>3, Pushing
<1>5. /\ \A x : Granted(x, profileQueue[Subject[op]], 1) => Granted(x, profileQueue'[Subject[op]], 1)
      /\ Available(profileQueue[Subject[op]], 1) => Granted(op, profileQueue'[Subject[op]], 1)
  BY <1>2, <1>3, Granting
<1>6. /\ \A x : Granted(x, globalQueue, GlobalLimit) => Granted(x, globalQueue', GlobalLimit)
      /\ Available(globalQueue, GlobalLimit) => Granted(op, globalQueue', GlobalLimit)
  BY <1>1, <1>2, Granting
<1>7. ASSUME NEW x \in Ops, Runs(x)' PROVE Holds(x)'
  <2>1. Granted(x, profileQueue'[Subject[x]], 1) /\ Granted(x, globalQueue', GlobalLimit)
    <3>1. CASE x = op
      BY <1>5, <1>6, <1>7, <3>1
    <3>2. CASE x # op
      <4>1. Granted(x, profileQueue[Subject[x]], 1) /\ Granted(x, globalQueue, GlobalLimit)
        BY <1>7, <3>2 DEF PermitInv, Holds
      <4> QED
        BY <1>2, <1>3, <1>5, <1>6, <4>1
    <3> QED
      BY <3>1, <3>2
  <2> QED
    BY <2>1 DEF Holds, Granted
<1> QED
  BY <1>3, <1>4, <1>7 DEF PermitInv

\* What a step leaves of the tasks it is not about.
SameTask(x) == stage'[x] = stage[x] /\ task'[x] = task[x]

LEMMA Same == ASSUME NEW x, SameTask(x) PROVE (Live(x) <=> Live(x)') /\ (Runs(x) <=> Runs(x)')
BY DEF SameTask, Live, Runs

\* An operation that starts takes its permits, or is of a kind that needs none.
LEMMA PermitsOfStart ==
    ASSUME Inv, PermitInv, NEW op \in Ops, Taken(op),
           NEW started \in {"waiting", "running"}, NEW targets, Register(op, "work", started, targets),
           \/ /\ UNCHANGED permits
              /\ started = "waiting" \/ Kind[op] \notin ProfileWork \cup {"draft", "reconnect"}
           \/ /\ TakePermits(op)
              /\ Available(profileQueue[Subject[op]], 1) /\ Available(globalQueue, GlobalLimit)
    PROVE  PermitInv'
<1>1. stage[op] = "none" /\ Entries
  BY DEF Inv, AnswerInv, Untouched, Taken
<1>2. task[op] = "idle" /\ ~Live(op)
  BY <1>1 DEF Entries, Live
<1>3. \A x \in Ops : x # op => SameTask(x)
  BY <1>1 DEF Entries, Register, SameTask
<1>4. stage'[op] = "work" /\ task'[op] = started
  BY <1>1 DEF Entries, Register
<1>5. \A x \in Ops : x # op => (Live(x) <=> Live(x)') /\ (Runs(x) <=> Runs(x)')
  BY <1>3, Same
<1>6. CASE UNCHANGED permits /\ (started = "waiting" \/ Kind[op] \notin ProfileWork \cup {"draft", "reconnect"})
  <2>1. ~Runs(op)'
    BY <1>4, <1>6 DEF Runs
  <2> QED
    BY <1>2, <1>5, <1>6, <2>1, PermitsStay DEF PermitInv
<1>7. CASE /\ TakePermits(op)
           /\ Available(profileQueue[Subject[op]], 1) /\ Available(globalQueue, GlobalLimit)
  <2>1. Live(op)'
    BY <1>4 DEF Live
  <2> QED
    BY <1>5, <1>7, <2>1, PermitsTaken
<1> QED
  BY <1>6, <1>7

LEMMA PermitsUntouched ==
    ASSUME PermitInv, UNCHANGED permits, \A x \in Ops : SameTask(x)
    PROVE  PermitInv'
BY Same, PermitsStay DEF PermitInv

LEMMA HandlersKeepPermits ==
    ASSUME Inv, PermitInv, HandleControl \/ StartMutation \/ HandleWork
    PROVE  PermitInv'
<1>1. CASE HandleControl
  <2> DEFINE op == Head(controlLane)[2]
  <2>1. op \in Ops /\ (Head(controlLane)[1] # "cancel" => Kind[op] \in Controls /\ Taken(op))
    BY <1>1, ControlTaken DEF Inv, AnswerInv, HandleControl
  <2> HIDE DEF op
  <2>2. CASE UNCHANGED <<stage, task, permits>>
    BY <2>2, PermitsUntouched DEF SameTask
  <2>3. CASE Taken(op) /\ StartControl(op)
    <3>1. CASE Register(op, "work", "waiting", ProfileNetwork(Scope(op))) /\ UNCHANGED permits
      BY <2>1, <2>3, <3>1, PermitsOfStart
    <3>2. CASE /\ Register(op, "work", "running", {}) /\ TakePermits(op)
               /\ Available(profileQueue[Subject[op]], 1) /\ Available(globalQueue, GlobalLimit)
      BY <2>1, <2>3, <3>2, PermitsOfStart
    <3> QED
      BY <2>2, <2>3, <3>1, <3>2 DEF StartControl, Refuse, entries
  <2> QED
    BY <1>1, <2>1, <2>2, <2>3 DEF HandleControl, CancelOperation, ProfileControl, Refuse, entries, op
<1>2. CASE StartMutation
  <2> DEFINE op == Head(mutationLane)
  <2>1. op \in Ops /\ Kind[op] \in Mutations /\ Taken(op)
    BY <1>2, MutationTaken DEF Inv, AnswerInv, StartMutation, closing
  <2>2. \/ UNCHANGED <<stage, task, permits>>
        \/ Register(op, "work", "running", {}) /\ UNCHANGED permits
    BY <1>2 DEF StartMutation, Refuse, entries
  <2>3. Kind[op] \notin ProfileWork \cup {"draft", "reconnect"}
    BY <2>1 DEF Mutations, ProfileWork
  <2> HIDE DEF op
  <2>4. CASE UNCHANGED <<stage, task, permits>>
    BY <2>4, PermitsUntouched DEF SameTask
  <2>5. CASE Register(op, "work", "running", {}) /\ UNCHANGED permits
    BY <2>1, <2>3, <2>5, PermitsOfStart
  <2> QED
    BY <2>2, <2>4, <2>5
<1>3. CASE HandleWork
  <2> DEFINE op == Head(workLane)
  <2>1. op \in Ops /\ Taken(op)
    BY <1>3, WorkTaken DEF Inv, AnswerInv, HandleWork, closing
  <2>2. \/ UNCHANGED <<stage, task, permits>>
        \/ Register(op, "work", "running", {}) /\ UNCHANGED permits /\ Kind[op] = "export"
        \/ /\ Register(op, "work", "running", {}) /\ TakePermits(op)
           /\ Available(profileQueue[Subject[op]], 1) /\ Available(globalQueue, GlobalLimit)
    BY <1>3 DEF HandleWork, StartExportWork, StartDraftWork, StartProfileWork, Refuse, entries
  <2> HIDE DEF op
  <2>3. CASE UNCHANGED <<stage, task, permits>>
    BY <2>3, PermitsUntouched DEF SameTask
  <2>4. CASE Register(op, "work", "running", {}) /\ UNCHANGED permits /\ Kind[op] = "export"
    <3>1. Kind[op] \notin ProfileWork \cup {"draft", "reconnect"}
      BY <2>4 DEF ProfileWork
    <3> QED
      BY <2>1, <2>4, <3>1, PermitsOfStart
  <2>5. CASE /\ Register(op, "work", "running", {}) /\ TakePermits(op)
             /\ Available(profileQueue[Subject[op]], 1) /\ Available(globalQueue, GlobalLimit)
    BY <2>1, <2>5, PermitsOfStart
  <2> QED
    BY <2>2, <2>3, <2>4, <2>5
<1> QED
  BY <1>1, <1>2, <1>3

\* A message is about a task that holds nothing any more.
LEMMA MessagesKeepPermits == ASSUME Inv, PermitInv, HandleMessage PROVE PermitInv'
<1>1. UNCHANGED permits /\ messages # <<>> /\ Entries
  BY DEF HandleMessage, Inv, AnswerInv
<1>2. PICK op \in Ops : op = messages[1][1]
  <2>1. messages \in Seq(Ops \X Events)
    BY DEF Inv, AnswerInv, Messages
  <2> QED
    BY <1>1, <2>1
<1>3. CASE UNCHANGED <<stage, task>>
  BY <1>1, <1>3, PermitsUntouched DEF SameTask
<1>4. CASE /\ task[op] = "done"
           /\ \/ \E targets : Register(op, "completion", "waiting", targets)
              \/ \E event : CompleteEntry(op, event)
  <2>1. stage'[op] # "work" /\ \A x \in Ops : x # op => SameTask(x)
    BY <1>1, <1>4 DEF Entries, Register, CompleteEntry, SameTask
  <2>2. ~Live(op) /\ ~Runs(op)'
    BY <1>4, <2>1 DEF Live, Runs
  <2>3. \A x \in Ops : x # op => (Live(x) <=> Live(x)') /\ (Runs(x) <=> Runs(x)')
    BY <2>1, Same
  <2> QED
    BY <1>1, <2>2, <2>3, PermitsStay DEF PermitInv
<1> QED
  BY <1>2, <1>3, <1>4 DEF HandleMessage, entries

\* What a panic left is reaped, what is aborted is dropped with its permits.
LEMMA FailuresKeepPermits ==
    ASSUME Inv, PermitInv, NEW failed \in SUBSET Registered, FailEntries(failed),
           \/ UNCHANGED permits /\ \A x \in failed : task[x] = "panicked"
           \/ DropPermits(failed)
    PROVE  PermitInv'
<1>1. failed \subseteq Ops
  BY DEF Registered
<1>2. \A x \in Ops \ failed : SameTask(x)
  BY DEF FailEntries, SameTask
<1>3. \A x \in Ops \ failed : (Live(x) <=> Live(x)') /\ (Runs(x) <=> Runs(x)')
  BY <1>2, Same
<1>4. \A x \in failed : stage'[x] # "work"
  BY <1>1 DEF FailEntries
<1>5. \A x \in failed : ~Runs(x)'
  BY <1>4 DEF Runs
<1>6. CASE UNCHANGED permits /\ \A x \in failed : task[x] = "panicked"
  <2>1. \A x \in failed : ~Live(x)
    BY <1>6 DEF Live
  <2> QED
    BY <1>3, <1>5, <1>6, <2>1, PermitsStay DEF PermitInv
<1>7. CASE DropPermits(failed)
  BY <1>1, <1>3, <1>5, <1>7, PermitsDropped
<1> QED
  BY <1>6, <1>7

LEMMA TasksKeepPermits ==
    ASSUME Inv, PermitInv, NEW op \in Ops, TaskStep(op) \/ PanicTask(op)
    PROVE  PermitInv'
<1>1. Entries
  BY DEF Inv, AnswerInv
<1> DEFINE becomes(to) == task' = [task EXCEPT ![op] = to] /\ UNCHANGED stage
<1>2. ASSUME NEW to, becomes(to) PROVE task'[op] = to /\ \A x \in Ops : x # op => SameTask(x)
  BY <1>1, <1>2 DEF Entries, SameTask
<1>3. ASSUME NEW to, becomes(to), to \in {"done", "panicked"}, DropPermits({op}) PROVE PermitInv'
  <2>1. ~Runs(op)'
    BY <1>2, <1>3 DEF Runs
  <2>2. \A x \in Ops \ {op} : (Live(x) <=> Live(x)') /\ (Runs(x) <=> Runs(x)')
    BY <1>2, <1>3, Same
  <2> QED
    BY <1>3, <2>1, <2>2, PermitsDropped
<1>4. ASSUME NEW to, becomes(to), to \in {"waiting", "queued", "draining", "running"}, UNCHANGED permits,
             Runs(op)' => Holds(op)
      PROVE  PermitInv'
  <2>1. Live(op)'
    BY <1>2, <1>4 DEF Live
  <2>2. \A x \in Ops : x # op => (Live(x) <=> Live(x)') /\ (Runs(x) <=> Runs(x)')
    BY <1>2, <1>4, Same
  <2> QED
    BY <1>4, <2>1, <2>2, PermitsStay DEF PermitInv
<1>5. ASSUME becomes("queued"), TakePermits(op) PROVE PermitInv'
  <2>1. Live(op)' /\ ~Runs(op)'
    BY <1>2, <1>5 DEF Live, Runs
  <2>2. \A x \in Ops : x # op => (Live(x) <=> Live(x)') /\ (Runs(x) <=> Runs(x)')
    BY <1>2, <1>5, Same
  <2> QED
    BY <1>5, <2>1, <2>2, PermitsTaken
<1>6. \A to : MoveTo(op, to) => becomes(to)
  BY DEF MoveTo
<1>7. ASSUME NEW output, Send(op, output) PROVE PermitInv'
  BY <1>3, <1>7 DEF Send
<1>8. CASE AwaitTargets(op)
  <2>1. CASE MoveTo(op, "running") /\ UNCHANGED permits
    <3>1. ~Runs(op)'
      BY <1>8, <2>1 DEF AwaitTargets, MoveTo, Runs, ProfileWork
    <3> QED
      BY <1>4, <1>6, <2>1, <3>1
  <2> QED
    BY <1>7, <1>8, <2>1 DEF AwaitTargets
<1>9. CASE QueueReconnect(op)
  <2>1. CASE MoveTo(op, "draining") /\ UNCHANGED permits
    <3>1. ~Runs(op)'
      BY <1>2, <1>6, <2>1 DEF Runs
    <3> QED
      BY <1>4, <1>6, <2>1, <3>1
  <2> QED
    BY <1>5, <1>6, <1>9, <2>1 DEF QueueReconnect
<1>10. CASE GrantReconnect(op)
  BY <1>4, <1>6, <1>10 DEF GrantReconnect, Holds
<1>11. CASE GiveUpReconnect(op)
  <2>1. ~Runs(op)'
    BY <1>2, <1>6, <1>11 DEF GiveUpReconnect, Runs
  <2> QED
    BY <1>4, <1>6, <1>11, <2>1 DEF GiveUpReconnect
<1>12. CASE DrainReconnect(op) \/ FinishTask(op)
  BY <1>7, <1>12 DEF DrainReconnect, FinishTask
<1>13. CASE PanicTask(op)
  BY <1>3, <1>13 DEF PanicTask
<1> QED
  BY <1>8, <1>9, <1>10, <1>11, <1>12, <1>13 DEF TaskStep

LEMMA PermitNext == Inv /\ PermitInv /\ [Next]_vars => PermitInv'
<1> SUFFICES ASSUME Inv, PermitInv, [Next]_vars PROVE PermitInv'
  OBVIOUS
<1>1. CASE HandleControl \/ StartMutation \/ HandleWork
  BY <1>1, HandlersKeepPermits
<1>2. CASE HandleMessage
  BY <1>2, MessagesKeepPermits
<1>3. CASE Reap
  <2> DEFINE panicked == {op \in Registered : task[op] = "panicked"}
  <2>1. FailEntries(panicked) /\ UNCHANGED permits /\ panicked \in SUBSET Registered
    BY <1>3 DEF Reap
  <2> QED
    BY <2>1, FailuresKeepPermits
<1>4. CASE AbortNetwork
  BY <1>4, Joinable, FailuresKeepPermits DEF AbortNetwork
<1>5. CASE \E op \in Ops : TaskStep(op) \/ PanicTask(op)
  BY <1>5, TasksKeepPermits
<1>6. CASE UNCHANGED <<stage, task, permits>>
  BY <1>6, PermitsUntouched DEF SameTask
<1>7. CASE \/ CloseLanes \/ ShutdownRuntime \/ AnswerUnavailable \/ GraceExpires \/ ClientStep
           \/ UNCHANGED vars \/ \E op \in Ops : ChangeUncertain(op)
  BY <1>6, <1>7 DEF CloseLanes, ShutdownRuntime, AnswerUnavailable, GraceExpires, ClientStep,
                    RequestShutdown, Submit, SubmitCancel, ChangeUncertain, entries, vars
<1> QED
  BY <1>1, <1>2, <1>3, <1>4, <1>5, <1>7 DEF Next, ControllerStep

-----------------------------------------------------------------------------
(* Coalescing keys.                                                        *)

\* The key of a control, and what stands for a key.
KeyOf(op) == <<Kind[op], Scope(op)>>
Backed(key) ==
    \/ \E command \in Commands : In(controlLane, command) /\ ControlKey(command) = key
    \/ \E op \in Registered : key \in {<<"cancel", op>>, KeyOf(op)}

\* A Disconnect that was accepted and is not answered.
Asking(op) == Kind[op] = "disconnect" /\ status[op] = "submitted" /\ attempts[op] = 0

\* While the runtime accepts commands a key is backed, the Disconnect that is
\* not answered yet holds its key and is the only one of its profile, and a
\* control the controller has or will get was accepted.
KeyInv ==
    /\ keys \subseteq AllKeys
    /\ Open =>
         /\ \A key \in keys : Backed(key)
         /\ \A op \in Ops : Asking(op) => KeyOf(op) \in keys
         /\ \A a, b \in Ops : Asking(a) /\ Asking(b) /\ Scope(a) = Scope(b) => a = b
         /\ \A op \in Ops : Kind[op] \in Controls /\ (op \in Registered \/ In(controlLane, Control(op))) =>
              status[op] = "submitted"

\* The event a task of op completes with releases the key of op, and of no
\* other Disconnect.
Fits(op, event) ==
    /\ event = "closed" => Kind[op] = "disconnect"
    /\ Kind[op] = "disconnect" => event \in {"closed", "failed"}
    /\ Kind[op] = "reconnect" => event \in {"ready", "failed"}
MessagesFit == \A i \in 1..Len(messages) : Fits(messages[i][1], messages[i][2])

\* Nothing is registered once the runtime is down.
Emptied == phase = "down" => \A op \in Ops : stage[op] = "none"

\* The lanes are bounded, and what the steps only copy keeps its type.
Bounded ==
    /\ Len(workLane) <= WorkCapacity /\ Len(mutationLane) <= MutationCapacity
    /\ Len(controlLane) <= ControlCapacity
    /\ cancelled \subseteq Ops /\ cancels \in [Ops -> 0..MaxCancels]
    /\ uncertain \in BOOLEAN /\ requested \in BOOLEAN

ResourceInv == PermitInv /\ KeyInv /\ MessagesFit /\ Emptied /\ Bounded


LEMMA KeyKinds ==
    ASSUME NEW key \in AllKeys
    PROVE  /\ \A op : key = KeyOf(op) => Kind[op] \in Controls \cup {"cancel"}
           /\ \A op, x : <<"cancel", op>> = KeyOf(x) => Kind[x] = "cancel"
           /\ \A op, x : KeyOf(op) = KeyOf(x) <=> Kind[op] = Kind[x] /\ Scope(op) = Scope(x)
<1>1. PICK command \in Commands : key = ControlKey(command)
  BY DEF AllKeys
<1>2. key[1] = command[1]
  BY <1>1 DEF ControlKey
<1>3. command[1] \in Controls \cup {"cancel"}
  BY DEF Commands
<1>4. \A op : KeyOf(op)[1] = Kind[op]
  BY DEF KeyOf
<1>5. \A op, x : <<"cancel", op>> = KeyOf(x) => Kind[x] = "cancel"
  BY DEF KeyOf
<1>6. \A op, x : KeyOf(op) = KeyOf(x) <=> Kind[op] = Kind[x] /\ Scope(op) = Scope(x)
  BY DEF KeyOf
<1> QED
  BY <1>2, <1>3, <1>4, <1>5, <1>6

\* The operations in `done` give their keys back, and no other Disconnect does.
Releases(done) ==
    /\ keys' \subseteq keys
    /\ \A op \in done : <<"cancel", op>> \notin keys' /\ (Kind[op] \in Controls => KeyOf(op) \notin keys')
    /\ \A x \in Ops : Kind[x] = "disconnect" /\ KeyOf(x) \in keys \ keys' =>
         \E op \in done : Kind[op] = "disconnect" /\ Scope(op) = Scope(x)

LEMMA Released ==
    ASSUME NEW done \in SUBSET Ops, NEW event, \A op \in done : Fits(op, event),
           keys' = keys \ UNION {ReleasedKeys(op, event) : op \in done}
    PROVE  Releases(done)
<1>1. ASSUME NEW op \in done
      PROVE  /\ <<"cancel", op>> \in ReleasedKeys(op, event)
             /\ Kind[op] \in Controls => KeyOf(op) \in ReleasedKeys(op, event)
  BY DEF ReleasedKeys, KeyOf, Controls, Fits
<1>2. ASSUME NEW op \in done, NEW x \in Ops, Kind[x] = "disconnect", KeyOf(x) \in ReleasedKeys(op, event)
      PROVE  Kind[op] = "disconnect" /\ Scope(op) = Scope(x)
  <2>1. KeyOf(x)[1] = "disconnect" /\ KeyOf(x)[2] = Scope(x)
    BY <1>2 DEF KeyOf
  <2>2. \/ KeyOf(x) = <<"cancel", op>>
        \/ event = "ready" /\ KeyOf(x) = <<"reconnect", Scope(op)>>
        \/ event = "closed" /\ KeyOf(x) = <<"disconnect", Scope(op)>>
        \/ event = "failed" /\ KeyOf(x) = <<Kind[op], Scope(op)>>
    BY <1>2 DEF ReleasedKeys
  <2>3. event = "closed" => Kind[op] = "disconnect"
    BY DEF Fits
  <2> QED
    BY <2>1, <2>2, <2>3
<1> QED
  BY <1>1, <1>2 DEF Releases

\* A step that answers `done`, takes commands from the control lane and
\* registers what it took.
LEMMA KeysAfter ==
    ASSUME KeyInv, NEW done \in SUBSET Ops, Releases(done), UNCHANGED status, Open' => Open,
           \A x \in Ops : IF x \in done THEN attempts'[x] # 0 ELSE attempts'[x] = attempts[x],
           Open => \A op \in done : Kind[op] = "disconnect" => Asking(op),
           \A op \in Registered : op \in Registered' \cup done,
           \A op \in Registered' : Kind[op] \in Controls => op \in Registered \/ In(controlLane, Control(op)),
           \A command \in Commands : In(controlLane', command) => In(controlLane, command),
           \A command \in Commands : In(controlLane, command) =>
               \/ In(controlLane', command)
               \/ ControlKey(command) \notin keys'
               \/ \E op \in Registered' : ControlKey(command) \in {<<"cancel", op>>, KeyOf(op)}
    PROVE  KeyInv'
<1>1. keys' \subseteq AllKeys' /\ keys' \subseteq keys
  BY DEF KeyInv, AllKeys, Releases
<1> SUFFICES ASSUME Open, Open' PROVE KeyInv'
  BY <1>1 DEF KeyInv
<1>2. ASSUME NEW key \in keys'
      PROVE  \/ \E command \in Commands : In(controlLane', command) /\ ControlKey(command) = key
             \/ \E op \in Registered' : key \in {<<"cancel", op>>, KeyOf(op)}
  <2>1. key \in keys /\ key \in AllKeys /\ Backed(key)
    BY <1>1 DEF KeyInv
  <2>2. CASE \E command \in Commands : In(controlLane, command) /\ ControlKey(command) = key
    BY <2>2
  <2>3. CASE \E op \in Registered : key \in {<<"cancel", op>>, KeyOf(op)}
    <3>1. PICK op \in Registered : key \in {<<"cancel", op>>, KeyOf(op)}
      BY <2>3
    <3>2. CASE op \in done
      <4>1. key = KeyOf(op) /\ Kind[op] \notin Controls
        BY <3>1, <3>2 DEF Releases
      <4>2. Kind[op] # "cancel"
        BY ControllerAssumption DEF ControllerAssumption, Registered, Kinds, ProfileWork, Mutations, Controls
      <4> QED
        BY <2>1, <4>1, <4>2, KeyKinds
    <3> QED
      BY <3>1, <3>2
  <2> QED
    BY <2>1, <2>2, <2>3 DEF Backed
<1>3. ASSUME NEW op \in Ops, Asking(op)' PROVE op \notin done /\ Asking(op) /\ KeyOf(op) \in keys'
  <2>1. op \notin done /\ Asking(op)
    BY <1>3 DEF Asking
  <2>2. KeyOf(op) \in keys /\ Kind[op] = "disconnect"
    BY <2>1 DEF KeyInv, Asking
  <2>3. ASSUME KeyOf(op) \notin keys' PROVE FALSE
    <3>1. PICK x \in done : Kind[x] = "disconnect" /\ Scope(x) = Scope(op)
      BY <2>2, <2>3 DEF Releases
    <3>2. Asking(x) /\ x = op
      BY <2>1, <3>1 DEF KeyInv
    <3> QED
      BY <2>1, <3>2
  <2> QED
    BY <2>1, <2>3
<1>4. ASSUME NEW op \in Ops, Kind[op] \in Controls, op \in Registered' \/ In(controlLane', Control(op))
      PROVE  status'[op] = "submitted"
  <2>1. Control(op) \in Commands
    BY <1>4 DEF Control, Commands
  <2> QED
    BY <1>4, <2>1 DEF KeyInv
<1>5. \A key \in keys' : Backed(key)'
  BY <1>2 DEF Backed, ControlKey, Commands, KeyOf
<1> QED
  BY <1>1, <1>3, <1>4, <1>5 DEF KeyInv, KeyOf, Control

\* A step that is not about keys.
LEMMA KeysKept ==
    ASSUME KeyInv, UNCHANGED <<keys, status, attempts, controlLane>>, Registered' = Registered, Open' => Open
    PROVE  KeyInv'
<1>1. Releases({})
  BY DEF Releases
<1> QED
  BY <1>1, KeysAfter

\* Entries that end are answered.
LEMMA KeysAnswered ==
    ASSUME Inv, KeyInv, NEW done \in SUBSET Registered, NEW event, \A op \in done : Fits(op, event),
           Emit(done, event), Registered' = Registered \ done, UNCHANGED <<status, phase, controlLane>>
    PROVE  KeyInv'
<1>1. /\ done \in SUBSET Ops
      /\ keys' = keys \ UNION {ReleasedKeys(op, event) : op \in done}
      /\ attempts' = [op \in Ops |-> attempts[op] + IF op \in done THEN 1 ELSE 0]
  BY DEF Emit, Registered
<1>2. Releases(done)
  BY <1>1, Released
<1>3. attempts \in [Ops -> Nat] /\ \A op \in done : attempts[op] = 0
  BY DEF Inv, AnswerInv, Unanswered, Registered
<1>4. \A x \in Ops : IF x \in done THEN attempts'[x] # 0 ELSE attempts'[x] = attempts[x]
  BY <1>1, <1>3
<1>5. Open => \A op \in done : Kind[op] = "disconnect" => Asking(op)
  BY <1>1, <1>3 DEF KeyInv, Asking, Controls
<1>6. Open' => Open
  BY DEF Open
<1> QED
  BY <1>1, <1>2, <1>4, <1>5, <1>6, KeysAfter

\* A command that is taken from its lane is answered at once.
LEMMA KeysRefused ==
    ASSUME Inv, KeyInv, NEW op \in Ops, Pending(op), NEW event, Fits(op, event), Emit({op}, event),
           UNCHANGED <<stage, status, phase>>,
           Kind[op] \in Controls => In(controlLane, Control(op)),
           \A command \in Commands : In(controlLane', command) => In(controlLane, command),
           \A command \in Commands : In(controlLane, command) =>
               In(controlLane', command) \/ (command = Control(op) /\ Kind[op] \in Controls)
    PROVE  KeyInv'
<1>1. /\ {op} \in SUBSET Ops
      /\ keys' = keys \ UNION {ReleasedKeys(x, event) : x \in {op}}
      /\ attempts' = [x \in Ops |-> attempts[x] + IF x \in {op} THEN 1 ELSE 0]
  BY DEF Emit
<1>2. Releases({op})
  BY <1>1, Released
<1>3. attempts \in [Ops -> Nat] /\ attempts[op] = 0
  BY DEF Inv, AnswerInv, Unanswered, Untouched
<1>4. \A x \in Ops : IF x \in {op} THEN attempts'[x] # 0 ELSE attempts'[x] = attempts[x]
  BY <1>1, <1>3
<1>5. Open => \A x \in {op} : Kind[x] = "disconnect" => Asking(x)
  BY <1>1, <1>3 DEF KeyInv, Asking, Controls
<1>6. (Open' => Open) /\ Registered' = Registered
  BY DEF Open, Registered
<1>7. Kind[op] \in Controls => ControlKey(Control(op)) \notin keys'
  BY <1>2 DEF ControlKey, Control, KeyOf, Releases, Controls
<1> QED
  BY <1>1, <1>2, <1>4, <1>5, <1>6, <1>7, KeysAfter

\* A command that is taken from its lane is registered.
LEMMA KeysStarted ==
    ASSUME Inv, KeyInv, NEW op \in Ops, NEW started, NEW targets, Register(op, "work", started, targets),
           UNCHANGED <<keys, attempts, status, phase>>,
           Kind[op] \in Controls => In(controlLane, Control(op)),
           \A command \in Commands : In(controlLane', command) => In(controlLane, command),
           \A command \in Commands : In(controlLane, command) =>
               In(controlLane', command) \/ (command = Control(op) /\ Kind[op] \in Controls)
    PROVE  KeyInv'
<1>1. Releases({})
  BY DEF Releases
<1>2. Registered' = Registered \cup {op}
  BY DEF Register, Registered, Inv, AnswerInv, Entries
<1>3. Kind[op] \in Controls => ControlKey(Control(op)) = KeyOf(op)
  BY DEF ControlKey, Control, KeyOf, Controls
<1>4. Open' => Open
  BY DEF Open
<1> QED
  BY <1>1, <1>2, <1>3, <1>4, KeysAfter

\* A cancel that is taken finds its operation, or gives its key back.
LEMMA KeysCancelled ==
    ASSUME KeyInv, NEW op \in Ops, op \in Registered \/ <<"cancel", op>> \notin keys',
           keys' \in {keys, keys \ {<<"cancel", op>>}}, UNCHANGED <<stage, attempts, status, phase>>,
           \A command \in Commands : In(controlLane', command) => In(controlLane, command),
           \A command \in Commands : In(controlLane, command) =>
               In(controlLane', command) \/ command = <<"cancel", op>>
    PROVE  KeyInv'
<1>1. Releases({})
  <2>1. \A x \in Ops : Kind[x] = "disconnect" => KeyOf(x) # <<"cancel", op>>
    BY DEF KeyOf
  <2> QED
    BY <2>1 DEF Releases
<1>2. ControlKey(<<"cancel", op>>) = <<"cancel", op>>
  BY DEF ControlKey
<1>3. (Open' => Open) /\ Registered' = Registered
  BY DEF Open, Registered
<1> QED
  BY <1>1, <1>2, <1>3, KeysAfter

LEMMA ControlsKeepKeys ==
    ASSUME Inv, KeyInv, HandleControl
    PROVE  KeyInv'
<1>1. /\ controlLane # <<>> /\ controlLane' = Tail(controlLane) /\ controlLane \in Seq(Commands)
      /\ UNCHANGED <<workLane, mutationLane, status, phase>>
  BY DEF HandleControl, closing, Inv, AnswerInv, Lanes
<1>2. PICK command \in Commands : command = Head(controlLane)
  BY <1>1, Popping
<1>3. /\ In(controlLane, command)
      /\ \A c \in Commands : /\ In(controlLane', c) => In(controlLane, c)
                             /\ In(controlLane, c) => In(controlLane', c) \/ c = command
  BY <1>1, <1>2, Popping
<1>4. PICK op \in Ops : op = command[2]
  BY DEF Commands
<1>5. CASE command[1] = "cancel" /\ CancelOperation(op)
  <2>1. command = <<"cancel", op>>
    BY <1>4, <1>5 DEF Commands
  <2> QED
    BY <1>1, <1>3, <1>5, <2>1, KeysCancelled DEF CancelOperation
<1>6. CASE command[1] # "cancel" /\ ProfileControl(op)
  <2>1. Kind[op] \in Controls /\ Taken(op)
    BY <1>1, <1>2, <1>4, <1>6, ControlTaken DEF Inv, AnswerInv
  <2>2. command = Control(op)
    <3>1. command = <<command[1], op>> /\ command[1] \in Controls
      BY <1>4, <1>6 DEF Commands
    <3>2. command[1] = Kind[op]
      BY <1>3, <3>1 DEF Inv, AnswerInv, Lanes
    <3> QED
      BY <3>1, <3>2 DEF Control
  <2>3. Pending(op) /\ Fits(op, "failed") /\ In(controlLane, Control(op))
    BY <1>3, <2>1, <2>2 DEF Taken, Fits
  <2>4. CASE Emit({op}, "failed") /\ UNCHANGED stage
    BY <1>1, <1>3, <2>1, <2>2, <2>3, <2>4, KeysRefused
  <2>5. CASE /\ uncertain /\ attempts' = [attempts EXCEPT ![op] = @ + 1]
             /\ keys' = keys \ {<<"cancel", op>>, <<Kind[op], Scope(op)>>}
             /\ UNCHANGED entries
    <3>1. ReleasedKeys(op, "failed") = {<<"cancel", op>>, <<Kind[op], Scope(op)>>}
      BY <2>1 DEF ReleasedKeys
    <3>2. keys' = keys \ UNION {ReleasedKeys(x, "failed") : x \in {op}}
      BY <2>5, <3>1
    <3>3. attempts' = [x \in Ops |-> attempts[x] + IF x \in {op} THEN 1 ELSE 0]
      <4>1. attempts \in [Ops -> Nat]
        BY DEF Inv, AnswerInv, Unanswered
      <4>2. \A x \in Ops : [attempts EXCEPT ![op] = @ + 1][x] = attempts[x] + IF x \in {op} THEN 1 ELSE 0
        BY <4>1
      <4> QED
        BY <2>5, <4>1, <4>2
    <3> QED
      BY <2>4, <2>5, <3>2, <3>3 DEF Emit, entries
  <2>6. CASE /\ \/ Register(op, "work", "waiting", ProfileNetwork(Scope(op)))
                \/ Register(op, "work", "running", {})
             /\ UNCHANGED <<keys, attempts>>
    BY <1>1, <1>3, <2>1, <2>2, <2>3, <2>6, KeysStarted
  <2> QED
    BY <1>6, <2>4, <2>5, <2>6 DEF ProfileControl, StartControl, Refuse, entries
<1> QED
  BY <1>2, <1>4, <1>5, <1>6 DEF HandleControl

LEMMA WorkKeepsKeys ==
    ASSUME Inv, KeyInv, StartMutation \/ HandleWork
    PROVE  KeyInv'
<1>1. PICK op \in Ops :
         /\ Kind[op] \notin Controls /\ Taken(op) /\ UNCHANGED <<controlLane, status, phase>>
         /\ \/ Refuse(op, "other") \/ Refuse(op, "failed")
            \/ Register(op, "work", "running", {}) /\ UNCHANGED <<keys, attempts>>
  <2>1. CASE StartMutation
    <3> DEFINE op == Head(mutationLane)
    <3>1. op \in Ops /\ Kind[op] \in Mutations /\ Taken(op)
      BY <2>1, MutationTaken DEF Inv, AnswerInv, StartMutation
    <3>2. Kind[op] \notin Controls
      BY <3>1 DEF Mutations, Controls
    <3>3. /\ UNCHANGED <<controlLane, status, phase>>
          /\ \/ Refuse(op, "other") \/ Refuse(op, "failed")
             \/ Register(op, "work", "running", {}) /\ UNCHANGED <<keys, attempts>>
      BY <2>1 DEF StartMutation, closing
    <3> QED
      BY <3>1, <3>2, <3>3
  <2>2. CASE HandleWork
    <3> DEFINE op == Head(workLane)
    <3>1. op \in Ops /\ Kind[op] \in LaneWork /\ Taken(op)
      BY <2>2, WorkTaken DEF Inv, AnswerInv, HandleWork
    <3>2. Kind[op] \notin Controls
      BY <3>1 DEF LaneWork, ProfileWork, Controls
    <3>3. /\ UNCHANGED <<controlLane, status, phase>>
          /\ \/ Refuse(op, "other") \/ Refuse(op, "failed")
             \/ Register(op, "work", "running", {}) /\ UNCHANGED <<keys, attempts>>
      BY <2>2 DEF HandleWork, StartExportWork, StartDraftWork, StartProfileWork, closing
    <3> QED
      BY <3>1, <3>2, <3>3
  <2> QED
    BY <2>1, <2>2
<1>2. Pending(op) /\ Fits(op, "other") /\ Fits(op, "failed")
  BY <1>1 DEF Taken, Fits, Controls
<1>3. ASSUME NEW event \in {"other", "failed"}, Refuse(op, event) PROVE KeyInv'
  <2>1. Emit({op}, event) /\ UNCHANGED stage /\ Fits(op, event)
    BY <1>2, <1>3 DEF Refuse, entries
  <2> QED
    BY <1>1, <1>2, <2>1, KeysRefused
<1>4. CASE Register(op, "work", "running", {}) /\ UNCHANGED <<keys, attempts>>
  BY <1>1, <1>4, KeysStarted
<1> QED
  BY <1>1, <1>3, <1>4

LEMMA MessagesKeepKeys ==
    ASSUME Inv, KeyInv, MessagesFit, HandleMessage
    PROVE  KeyInv'
<1>1. messages # <<>> /\ UNCHANGED <<controlLane, status, phase>> /\ messages \in Seq(Ops \X Events)
  BY DEF HandleMessage, lanes, closing, Inv, AnswerInv, Messages
<1>2. Len(messages) \in Nat /\ 1 \in 1..Len(messages) /\ messages[1] \in Ops \X Events
  BY <1>1
<1>3. PICK op \in Ops, output \in Events : op = messages[1][1] /\ output = messages[1][2]
  BY <1>2
<1>4. Fits(op, output) /\ Entries /\ (Open' => Open)
  BY <1>1, <1>2, <1>3 DEF MessagesFit, Open, Inv, AnswerInv
<1>5. CASE UNCHANGED <<stage, keys, attempts>>
  BY <1>1, <1>4, <1>5, KeysKept DEF Registered
<1>6. CASE /\ stage[op] # "none" /\ UNCHANGED <<keys, attempts>>
           /\ \E targets : Register(op, "completion", "waiting", targets)
  <2>1. Registered' = Registered
    BY <1>4, <1>6 DEF Register, Registered, Entries
  <2> QED
    BY <1>1, <1>4, <1>6, <2>1, KeysKept
<1>7. CASE stage[op] # "none" /\ CompleteEntry(op, output)
  <2>1. Registered' = Registered \ {op} /\ op \in Registered
    BY <1>4, <1>7 DEF CompleteEntry, Registered, Entries
  <2>2. Emit({op}, output)
    BY <1>7 DEF CompleteEntry
  <2> QED
    BY <1>1, <1>4, <2>1, <2>2, KeysAnswered
<1> QED
  BY <1>3, <1>5, <1>6, <1>7 DEF HandleMessage, entries

LEMMA FailuresKeepKeys ==
    ASSUME Inv, KeyInv, NEW failed \in SUBSET Registered, FailEntries(failed),
           UNCHANGED <<status, phase, controlLane>>
    PROVE  KeyInv'
<1> DEFINE over == {op \in failed : stage[op] = "cleanup"}
<1>1. /\ stage' = [op \in Ops |-> IF op \in over THEN "none" ELSE IF op \in failed THEN "cleanup" ELSE stage[op]]
      /\ Emit(over, "failed") /\ over \in SUBSET Registered
  BY DEF FailEntries
<1>2. \A op \in over : Fits(op, "failed")
  BY DEF Fits
<1>3. Registered' = Registered \ over
  BY <1>1 DEF Registered
<1> HIDE DEF over
<1> QED
  BY <1>1, <1>2, <1>3, KeysAnswered

LEMMA UnavailableKeepsKeys ==
    ASSUME Inv, KeyInv, AnswerUnavailable
    PROVE  KeyInv'
<1>1. UNCHANGED <<stage, status, phase>> /\ controlLane \in Seq(Commands) /\ Lanes
  BY DEF AnswerUnavailable, entries, closing, Inv, AnswerInv, Lanes
<1>2. CASE /\ controlLane # <<>> /\ controlLane' = Tail(controlLane) /\ UNCHANGED <<workLane, mutationLane>>
           /\ \/ /\ Head(controlLane)[1] = "cancel" /\ keys' = keys \ {Head(controlLane)}
                 /\ UNCHANGED attempts
              \/ Head(controlLane)[1] # "cancel" /\ Emit({Head(controlLane)[2]}, "failed")
  <2>1. PICK command \in Commands : command = Head(controlLane)
    BY <1>1, <1>2, Popping
  <2>2. /\ In(controlLane, command)
        /\ \A c \in Commands : /\ In(controlLane', c) => In(controlLane, c)
                               /\ In(controlLane, c) => In(controlLane', c) \/ c = command
    BY <1>1, <1>2, <2>1, Popping
  <2>3. PICK op \in Ops : op = command[2] /\ command = <<command[1], op>>
    BY DEF Commands
  <2>4. CASE command[1] = "cancel" /\ keys' = keys \ {command} /\ UNCHANGED attempts
    <3>1. command = <<"cancel", op>>
      BY <2>3, <2>4
    <3> QED
      BY <1>1, <2>2, <2>4, <3>1, KeysCancelled
  <2>5. CASE command[1] # "cancel" /\ Emit({op}, "failed")
    <3>1. Kind[op] \in Controls /\ Taken(op)
      BY <1>1, <1>2, <2>1, <2>3, <2>5, ControlTaken
    <3>2. command[1] \in Controls
      BY <2>5 DEF Commands
    <3>3. command = Control(op)
      BY <1>1, <2>2, <2>3, <3>2 DEF Lanes, Control
    <3>4. Pending(op) /\ Fits(op, "failed") /\ In(controlLane, Control(op))
      BY <2>2, <3>1, <3>3 DEF Taken, Fits
    <3> QED
      BY <1>1, <2>2, <2>5, <3>1, <3>3, <3>4, KeysRefused
  <2> QED
    BY <1>2, <2>1, <2>3, <2>4, <2>5
<1>3. ASSUME NEW op \in Ops, Pending(op), Kind[op] \notin Controls, Emit({op}, "failed"), UNCHANGED controlLane
      PROVE  KeyInv'
  <2>1. Fits(op, "failed")
    BY <1>3 DEF Fits, Controls
  <2> QED
    BY <1>1, <1>3, <2>1, KeysRefused
<1>4. CASE mutationLane # <<>> /\ Emit({Head(mutationLane)}, "failed") /\ UNCHANGED controlLane
  <2>1. Head(mutationLane) \in Ops /\ In(mutationLane, Head(mutationLane))
    BY <1>1, <1>4, Popping DEF Lanes
  <2>2. Kind[Head(mutationLane)] \notin Controls /\ Pending(Head(mutationLane))
    BY <1>1, <2>1 DEF Lanes, Pending, Mutations, Controls
  <2> QED
    BY <1>3, <1>4, <2>1, <2>2
<1>5. CASE workLane # <<>> /\ Emit({Head(workLane)}, "failed") /\ UNCHANGED controlLane
  <2>1. Head(workLane) \in Ops /\ In(workLane, Head(workLane))
    BY <1>1, <1>5, Popping DEF Lanes
  <2>2. Kind[Head(workLane)] \notin Controls /\ Pending(Head(workLane))
    BY <1>1, <2>1 DEF Lanes, Pending, LaneWork, ProfileWork, Controls
  <2> QED
    BY <1>3, <1>5, <2>1, <2>2
<1> QED
  BY <1>2, <1>4, <1>5 DEF AnswerUnavailable

\* A control or a cancel is accepted: the command stands for its key.
LEMMA KeysTaken ==
    ASSUME Inv, KeyInv, NEW command \in Commands, controlLane' = Append(controlLane, command),
           ControlKey(command) \notin keys, keys' = keys \cup {ControlKey(command)},
           \/ /\ command[1] = "cancel" /\ UNCHANGED status
           \/ /\ command = Control(command[2]) /\ status[command[2]] = "new"
              /\ status' = [status EXCEPT ![command[2]] = "submitted"],
           UNCHANGED <<stage, attempts, phase>>
    PROVE  KeyInv'
<1>1. controlLane \in Seq(Commands) /\ Lanes /\ status \in [Ops -> Statuses]
  BY DEF Inv, AnswerInv, Lanes
<1>2. \A x : In(controlLane', x) <=> In(controlLane, x) \/ x = command
  BY <1>1, Pushing
<1>3. keys' \subseteq AllKeys' /\ Registered' = Registered /\ (Open' <=> Open)
  BY DEF KeyInv, AllKeys, Registered, Open
<1> SUFFICES ASSUME Open, Open' PROVE KeyInv'
  BY <1>3 DEF KeyInv
<1>4. ASSUME NEW key \in keys'
      PROVE  \/ \E c \in Commands : In(controlLane', c) /\ ControlKey(c) = key
             \/ \E op \in Registered' : key \in {<<"cancel", op>>, KeyOf(op)}
  <2>1. CASE key \in keys
    BY <1>2, <1>3, <2>1 DEF KeyInv, Backed
  <2> QED
    BY <1>2, <2>1
<1>5. \A key \in keys' : Backed(key)'
  BY <1>4 DEF Backed, ControlKey, Commands, KeyOf
<1>6. PICK op \in Ops : op = command[2]
  BY DEF Commands
<1>7. \A x \in Ops : x # op => status'[x] = status[x]
  BY <1>1, <1>6
<1>8. \A x \in Ops : x # op /\ Asking(x)' => Asking(x)
  BY <1>7 DEF Asking
<1>9. Asking(op)' => Asking(op) \/ (command = Control(op) /\ Kind[op] = "disconnect")
  BY <1>6 DEF Asking
<1>10. command = Control(op) /\ Kind[op] = "disconnect" => ControlKey(command) = KeyOf(op)
  BY DEF ControlKey, Control, KeyOf
<1>11. ASSUME NEW x \in Ops, Asking(x)' PROVE KeyOf(x) \in keys'
  BY <1>8, <1>9, <1>10, <1>11 DEF KeyInv
<1>12. ASSUME NEW a \in Ops, NEW b \in Ops, Asking(a)', Asking(b)', Scope(a) = Scope(b) PROVE a = b
  <2>1. ASSUME NEW x \in Ops, x # op, Asking(x)', Asking(op)', Scope(x) = Scope(op) PROVE FALSE
    <3>1. Asking(x) /\ KeyOf(x) \in keys /\ ~Asking(op)
      BY <1>8, <2>1 DEF KeyInv
    <3>2. ControlKey(command) = KeyOf(op) /\ Kind[op] = "disconnect"
      BY <1>9, <1>10, <2>1, <3>1
    <3>3. KeyOf(x) = KeyOf(op)
      BY <2>1, <3>1, <3>2 DEF Asking, KeyOf
    <3> QED
      BY <3>1, <3>2, <3>3
  <2>2. CASE a # op /\ b # op
    BY <1>8, <1>12, <2>2 DEF KeyInv
  <2> QED
    BY <1>12, <2>1, <2>2
<1>13. ASSUME NEW x \in Ops, Kind[x] \in Controls, x \in Registered' \/ In(controlLane', Control(x))
       PROVE  status'[x] = "submitted"
  <2>1. command[1] = "cancel" => command # Control(x)
    BY <1>13 DEF Control, Controls
  <2>2. command = Control(x) => x = op
    BY <1>6 DEF Control
  <2>3. CASE x = op /\ command = Control(op)
    BY <1>1, <1>6, <2>1, <2>3
  <2>4. CASE x # op \/ command # Control(op)
    <3>1. x \in Registered \/ In(controlLane, Control(x))
      BY <1>2, <1>3, <1>13, <2>2, <2>4
    <3>2. status[x] = "submitted"
      BY <1>13, <3>1 DEF KeyInv
    <3> QED
      BY <1>6, <1>7, <3>2
  <2> QED
    BY <2>3, <2>4
<1> QED
  BY <1>3, <1>5, <1>11, <1>12, <1>13 DEF KeyInv, KeyOf, Control

LEMMA SubmissionsKeepKeys ==
    ASSUME Inv, KeyInv, NEW op \in Ops, Submit(op) \/ SubmitCancel(op)
    PROVE  KeyInv'
<1>1. Lanes /\ status \in [Ops -> Statuses] /\ UNCHANGED <<stage, attempts, phase>>
  BY DEF Inv, AnswerInv, Lanes, Submit, SubmitCancel, entries, closing
<1>2. CASE SubmitCancel(op)
  <2> DEFINE command == <<"cancel", op>>
  <2>1. command \in Commands /\ command[1] = "cancel" /\ ControlKey(command) = command
    BY DEF Commands, ControlKey
  <2>2. /\ command \notin keys /\ controlLane' = Append(controlLane, command)
        /\ keys' = keys \cup {command} /\ UNCHANGED status
    BY <1>2 DEF SubmitCancel
  <2> HIDE DEF command
  <2> QED
    BY <1>1, <2>1, <2>2, KeysTaken
<1>3. CASE /\ status[op] = "new" /\ Kind[op] \in Controls /\ ControlKey(Control(op)) \notin keys
           /\ controlLane' = Append(controlLane, Control(op))
           /\ keys' = keys \cup {ControlKey(Control(op))} /\ Sent(op)
  <2>1. PICK command \in Commands : command = Control(op) /\ command[2] = op
    BY <1>3 DEF Control, Commands
  <2>2. command = Control(command[2]) /\ status' = [status EXCEPT ![command[2]] = "submitted"]
    BY <1>3, <2>1 DEF Sent
  <2> QED
    BY <1>1, <1>3, <2>1, <2>2, KeysTaken
<1>4. CASE /\ status[op] = "new" /\ UNCHANGED <<controlLane, keys>>
           /\ \E why \in {"submitted", "rejected", "coalesced"} :
                /\ status' = [status EXCEPT ![op] = why]
                /\ why = "submitted" => Kind[op] \notin Controls
  <2>1. \A x \in Ops : x # op => status'[x] = status[x]
    BY <1>1, <1>4
  <2>2. stage[op] = "none" /\ ~In(controlLane, Control(op))
    BY <1>4 DEF Inv, AnswerInv, Untouched, Pending, Lanes
  <2>3. ~Asking(op)'
    BY <1>1, <1>4 DEF Asking, Controls
  <2>4. \A x \in Ops : Asking(x)' => Asking(x)
    BY <1>1, <2>1, <2>3 DEF Asking
  <2>5. Registered' = Registered /\ (Open' <=> Open) /\ op \notin Registered
    BY <1>1, <2>2 DEF Registered, Open
  <2>6. \A key : Backed(key) <=> Backed(key)'
    BY <1>4, <2>5 DEF Backed, ControlKey, Commands, KeyOf
  <2>7. ASSUME Open, NEW x \in Ops, Kind[x] \in Controls, x \in Registered' \/ In(controlLane', Control(x))
        PROVE  status'[x] = "submitted"
    BY <1>4, <2>1, <2>2, <2>5, <2>7 DEF KeyInv
  <2> QED
    BY <1>4, <2>4, <2>5, <2>6, <2>7 DEF KeyInv, KeyOf, Control, AllKeys
<1>5. CASE Submit(op)
  <2>1. status[op] = "new"
    BY <1>5 DEF Submit
  <2>2. CASE SubmitWork(op)
    BY <1>4, <2>1, <2>2 DEF SubmitWork, NotSent, Sent, lanes, ProfileWork, Controls
  <2>3. CASE SubmitMutation(op)
    BY <1>4, <2>1, <2>3 DEF SubmitMutation, NotSent, Sent, lanes, Mutations, Controls
  <2>4. CASE SubmitControl(op)
    <3>1. CASE \E why \in {"coalesced", "rejected"} : NotSent(op, why)
      BY <1>4, <2>1, <3>1 DEF NotSent, lanes
    <3> QED
      BY <1>3, <2>1, <2>4, <3>1 DEF SubmitControl, Control
  <2> QED
    BY <1>5, <2>2, <2>3, <2>4 DEF Submit
<1> QED
  BY <1>2, <1>5

LEMMA KeyNext == Inv /\ KeyInv /\ MessagesFit /\ [Next]_vars => KeyInv'
<1> SUFFICES ASSUME Inv, KeyInv, MessagesFit, [Next]_vars PROVE KeyInv'
  OBVIOUS
<1>1. CASE HandleControl
  BY <1>1, ControlsKeepKeys
<1>2. CASE StartMutation \/ HandleWork
  BY <1>2, WorkKeepsKeys
<1>3. CASE HandleMessage
  BY <1>3, MessagesKeepKeys
<1>4. CASE Reap
  <2> DEFINE panicked == {op \in Registered : task[op] = "panicked"}
  <2>1. FailEntries(panicked) /\ panicked \in SUBSET Registered /\ UNCHANGED <<status, phase, controlLane>>
    BY <1>4 DEF Reap, lanes, closing
  <2> QED
    BY <2>1, FailuresKeepKeys
<1>5. CASE AbortNetwork
  BY <1>5, Joinable, FailuresKeepKeys DEF AbortNetwork, lanes, closing
<1>6. CASE AnswerUnavailable
  BY <1>6, UnavailableKeepsKeys
<1>7. ASSUME NEW op \in Ops, Submit(op) \/ SubmitCancel(op) PROVE KeyInv'
  BY <1>7, SubmissionsKeepKeys
<1>8. CASE CloseLanes \/ ShutdownRuntime
  <2>1. keys' = keys /\ ~Open'
    BY <1>8 DEF CloseLanes, ShutdownRuntime, Open
  <2> QED
    BY <2>1 DEF KeyInv, AllKeys
<1>9. CASE UNCHANGED <<keys, status, attempts, controlLane, stage, phase>>
  BY <1>9, KeysKept DEF Registered, Open
<1>10. CASE GraceExpires \/ RequestShutdown \/ UNCHANGED vars
  BY <1>9, <1>10 DEF GraceExpires, RequestShutdown, lanes, entries, history, closing, vars
<1>11. ASSUME NEW op \in Ops, TaskStep(op) \/ PanicTask(op) \/ ChangeUncertain(op) PROVE KeyInv'
  <2>1. UNCHANGED taskUnchanged /\ UNCHANGED stage
    BY <1>11 DEF TaskStep, AwaitTargets, QueueReconnect, GrantReconnect, GiveUpReconnect, DrainReconnect,
                 FinishTask, Send, MoveTo, PanicTask, ChangeUncertain
  <2> QED
    BY <1>9, <2>1 DEF taskUnchanged, lanes, closing, history
<1> QED
  BY <1>1, <1>2, <1>3, <1>4, <1>5, <1>6, <1>7, <1>8, <1>10, <1>11 DEF Next, ControllerStep, ClientStep

-----------------------------------------------------------------------------
(* Messages that fit, the empty registry, and bounds.                      *)

LEMMA OutputsFit ==
    ASSUME Inv, NEW op \in Ops, NEW output \in Outputs(op), stage[op] # "none"
    PROVE  Fits(op, output) /\ output \in Events
<1>1. stage[op] \in Stages /\ (stage[op] = "completion" => Kind[op] \in Mutations)
  BY DEF Inv, AnswerInv, Entries
<1>2. Kind[op] \in Kinds
  BY ControllerAssumption DEF ControllerAssumption
<1>3. CASE stage[op] = "cleanup"
  BY <1>3 DEF Outputs, Fits, Events
<1>4. CASE stage[op] = "completion"
  BY <1>1, <1>4 DEF Outputs, Fits, Events, Mutations
<1>5. CASE stage[op] = "work" /\ Kind[op] \in Controls
  BY <1>5 DEF Outputs, Fits, Events, Controls
<1>6. CASE stage[op] = "work" /\ Kind[op] \notin Controls
  <2>1. output \in {"ready", "failed", "output", "other"}
    BY <1>6 DEF Outputs, Controls
  <2> QED
    BY <1>6, <2>1 DEF Fits, Controls, Events
<1> QED
  BY <1>1, <1>3, <1>4, <1>5, <1>6 DEF Stages

LEMMA FitNext == Inv /\ MessagesFit /\ [Next]_vars => MessagesFit'
<1> SUFFICES ASSUME Inv, MessagesFit, [Next]_vars PROVE MessagesFit'
  OBVIOUS
<1>1. messages \in Seq(Ops \X Events) /\ Len(messages) \in Nat
  BY DEF Inv, AnswerInv, Messages
<1>2. CASE UNCHANGED messages
  BY <1>2 DEF MessagesFit, Fits
<1>3. CASE messages' = <<>>
  <2>1. 1..Len(messages') = {}
    BY <1>3
  <2> QED
    BY <2>1 DEF MessagesFit
<1>4. CASE HandleMessage
  <2>1. messages # <<>> /\ messages' = Tail(messages)
    BY <1>4 DEF HandleMessage
  <2>2. /\ Len(messages') = Len(messages) - 1
        /\ \A i \in 1..(Len(messages) - 1) : messages'[i] = messages[i + 1] /\ i + 1 \in 1..Len(messages)
    BY <1>1, <2>1
  <2> QED
    BY <2>2 DEF MessagesFit, Fits
<1>5. ASSUME NEW op \in Ops, NEW output \in Events, Fits(op, output), Send(op, output) PROVE MessagesFit'
  <2>1. messages' = Append(messages, <<op, output>>)
    BY <1>5 DEF Send
  <2>2. /\ Len(messages') = Len(messages) + 1 /\ messages'[Len(messages) + 1] = <<op, output>>
        /\ \A i \in 1..Len(messages) : messages'[i] = messages[i]
    BY <1>1, <2>1
  <2>3. \A i \in 1..Len(messages') : i \in 1..Len(messages) \/ i = Len(messages) + 1
    BY <1>1, <2>2
  <2> QED
    BY <1>5, <2>2, <2>3 DEF MessagesFit, Fits
<1>6. ASSUME NEW op \in Ops, TaskStep(op) \/ PanicTask(op) PROVE MessagesFit'
  <2>1. Live(op) /\ stage[op] # "none"
    BY <1>6, TaskEffect DEF Live, Inv, AnswerInv, Entries
  <2>2. "failed" \in Events /\ Fits(op, "failed")
    BY DEF Events, Fits
  <2>3. ASSUME NEW output \in Outputs(op), Send(op, output) PROVE MessagesFit'
    BY <1>5, <2>1, <2>3, OutputsFit
  <2> QED
    BY <1>2, <1>5, <1>6, <2>2, <2>3
       DEF TaskStep, AwaitTargets, QueueReconnect, GrantReconnect, GiveUpReconnect, DrainReconnect,
           FinishTask, MoveTo, PanicTask
<1>7. CASE \/ HandleControl \/ StartMutation \/ HandleWork \/ Reap \/ CloseLanes \/ AbortNetwork
           \/ AnswerUnavailable \/ GraceExpires \/ ClientStep \/ UNCHANGED vars
           \/ \E op \in Ops : ChangeUncertain(op)
  BY <1>2, <1>7 DEF HandleControl, StartMutation, HandleWork, Reap, CloseLanes, AbortNetwork,
                    AnswerUnavailable, GraceExpires, ClientStep, RequestShutdown, Submit, SubmitCancel,
                    ChangeUncertain, vars
<1>8. CASE ShutdownRuntime
  BY <1>3, <1>8 DEF ShutdownRuntime
<1> QED
  BY <1>4, <1>6, <1>7, <1>8 DEF Next, ControllerStep

LEMMA EmptiedNext == Inv /\ Emptied /\ [Next]_vars => Emptied'
<1> SUFFICES ASSUME Inv, Emptied, [Next]_vars, phase' = "down" PROVE \A op \in Ops : stage'[op] = "none"
  BY DEF Emptied
<1>1. Entries
  BY DEF Inv, AnswerInv
<1>2. CASE ShutdownRuntime
  BY <1>2 DEF ShutdownRuntime, Registered, entries
<1>3. CASE phase = "down" /\ UNCHANGED stage
  BY <1>3 DEF Emptied
<1>4. CASE HandleMessage \/ HandleControl \/ StartMutation \/ HandleWork \/ Reap \/ AbortNetwork
           \/ CloseLanes \/ AnswerUnavailable
  <2>1. phase # "down" /\ phase' # "down"
    BY <1>4 DEF HandleMessage, HandleControl, StartMutation, HandleWork, Reap, AbortNetwork, CloseLanes,
                AnswerUnavailable, Polling, closing
  <2> QED
    BY <2>1
<1>5. CASE GraceExpires \/ ClientStep \/ UNCHANGED vars
  BY <1>3, <1>5 DEF GraceExpires, ClientStep, RequestShutdown, Submit, SubmitCancel, entries, closing, vars
<1>6. ASSUME NEW op \in Ops, TaskStep(op) \/ PanicTask(op) \/ ChangeUncertain(op)
      PROVE  \A x \in Ops : stage'[x] = "none"
  <2>1. UNCHANGED taskUnchanged /\ UNCHANGED stage
    BY <1>6 DEF TaskStep, AwaitTargets, QueueReconnect, GrantReconnect, GiveUpReconnect, DrainReconnect,
                FinishTask, Send, MoveTo, PanicTask, ChangeUncertain
  <2> QED
    BY <1>3, <2>1 DEF taskUnchanged, closing
<1> QED
  BY <1>2, <1>4, <1>5, <1>6 DEF Next, ControllerStep


LEMMA LaneLengths ==
    ASSUME NEW S, NEW q \in Seq(S), NEW limit \in Nat, Len(q) <= limit
    PROVE  /\ q # <<>> => Len(Tail(q)) <= limit
           /\ \A e : Len(q) < limit => Len(Append(q, e)) <= limit
           /\ Len(<<>>) <= limit
<1>1. Len(q) \in Nat
  OBVIOUS
<1>2. q # <<>> => Len(Tail(q)) = Len(q) - 1
  OBVIOUS
<1>3. \A e : Len(Append(q, e)) = Len(q) + 1
  OBVIOUS
<1> QED
  BY <1>1, <1>2, <1>3

LEMMA BoundedNext == Inv /\ Bounded /\ [Next]_vars => Bounded'
<1> SUFFICES ASSUME Inv, Bounded, [Next]_vars PROVE Bounded'
  OBVIOUS
<1>1. /\ workLane \in Seq(Ops) /\ mutationLane \in Seq(Ops) /\ controlLane \in Seq(Commands)
      /\ WorkCapacity \in Nat /\ MutationCapacity \in Nat /\ ControlCapacity \in Nat /\ MaxCancels \in Nat
  BY ControllerAssumption DEF ControllerAssumption, Inv, AnswerInv, Lanes
<1> DEFINE Fine == cancelled' \subseteq Ops /\ UNCHANGED <<uncertain, requested, cancels>>
<1>2. /\ Registered \subseteq Ops /\ NetworkEntries \subseteq Ops /\ cancelled \subseteq Ops
      /\ \A scope : ProfileNetwork(scope) \subseteq Ops
  BY DEF Registered, NetworkEntries, ProfileNetwork, Bounded
<1>3. /\ workLane # <<>> => Len(Tail(workLane)) <= WorkCapacity
      /\ \A e : Len(workLane) < WorkCapacity => Len(Append(workLane, e)) <= WorkCapacity
      /\ Len(<<>>) <= WorkCapacity
  BY <1>1, LaneLengths DEF Bounded
<1>4. /\ mutationLane # <<>> => Len(Tail(mutationLane)) <= MutationCapacity
      /\ \A e : Len(mutationLane) < MutationCapacity => Len(Append(mutationLane, e)) <= MutationCapacity
      /\ Len(<<>>) <= MutationCapacity
  BY <1>1, LaneLengths DEF Bounded
<1>5. /\ controlLane # <<>> => Len(Tail(controlLane)) <= ControlCapacity
      /\ \A e : Len(controlLane) < ControlCapacity => Len(Append(controlLane, e)) <= ControlCapacity
      /\ Len(<<>>) <= ControlCapacity
  BY <1>1, LaneLengths DEF Bounded
<1> DEFINE Lengths == /\ Len(workLane') <= WorkCapacity /\ Len(mutationLane') <= MutationCapacity
                      /\ Len(controlLane') <= ControlCapacity
<1>6. UNCHANGED lanes => Lengths
  BY DEF Bounded, lanes
<1>7. Lengths /\ Fine => Bounded'
  BY DEF Bounded
<1>8. CASE HandleMessage
  <2>1. UNCHANGED lanes /\ UNCHANGED <<uncertain, requested, cancels>>
    BY <1>8 DEF HandleMessage, closing
  <2>2. cancelled' \subseteq Ops
    <3>1. PICK op : op = messages[1][1]
      OBVIOUS
    <3>2. CASE UNCHANGED cancelled \/ cancelled' = cancelled \ {op}
      BY <1>2, <3>2
    <3>3. CASE \E fenced, targets :
                 /\ targets = IF uncertain THEN NetworkEntries ELSE UNION {ProfileNetwork(s) : s \in fenced}
                 /\ cancelled' = (cancelled \cup targets) \ {op}
      <4>1. PICK fenced, targets :
                 /\ targets = IF uncertain THEN NetworkEntries ELSE UNION {ProfileNetwork(s) : s \in fenced}
                 /\ cancelled' = (cancelled \cup targets) \ {op}
        BY <3>3
      <4>2. targets \subseteq Ops
        BY <1>2, <4>1
      <4> QED
        BY <1>2, <4>1, <4>2
    <3> QED
      BY <1>8, <3>1, <3>2, <3>3 DEF HandleMessage, CompleteEntry, entries
  <2> QED
    BY <1>6, <1>7, <2>1, <2>2
<1>9. CASE HandleControl
  <2>1. Lengths /\ UNCHANGED <<uncertain, requested, cancels>>
    BY <1>5, <1>9 DEF HandleControl, closing, control, Bounded
  <2>2. cancelled' \subseteq Ops
    BY <1>2, <1>9 DEF HandleControl, CancelOperation, ProfileControl, StartControl, Refuse, entries
  <2> QED
    BY <1>7, <2>1, <2>2
<1>10. CASE StartMutation
  <2>1. Lengths /\ UNCHANGED <<uncertain, requested, cancels>>
    BY <1>4, <1>10 DEF StartMutation, closing, Bounded
  <2>2. cancelled' \subseteq Ops
    BY <1>2, <1>10 DEF StartMutation, Refuse, entries
  <2> QED
    BY <1>7, <2>1, <2>2
<1>11. CASE HandleWork
  <2>1. Lengths /\ UNCHANGED <<uncertain, requested, cancels>>
    BY <1>3, <1>11 DEF HandleWork, closing, control, Bounded
  <2>2. cancelled' \subseteq Ops
    BY <1>2, <1>11 DEF HandleWork, StartExportWork, StartDraftWork, StartProfileWork, Refuse, entries
  <2> QED
    BY <1>7, <2>1, <2>2
<1>12. CASE Reap \/ AbortNetwork
  <2>1. UNCHANGED lanes /\ UNCHANGED <<uncertain, requested, cancels>>
    BY <1>12 DEF Reap, AbortNetwork, closing
  <2>2. cancelled' \subseteq Ops
    BY <1>2, <1>12 DEF Reap, AbortNetwork, FailEntries
  <2> QED
    BY <1>6, <1>7, <2>1, <2>2
<1>13. CASE CloseLanes
  <2>1. Lengths /\ UNCHANGED <<uncertain, requested, cancels>>
    BY <1>3, <1>4, <1>5, <1>13 DEF CloseLanes, control
  <2>2. cancelled' \subseteq Ops
    BY <1>2, <1>13 DEF CloseLanes
  <2> QED
    BY <1>7, <2>1, <2>2
<1>14. CASE AnswerUnavailable
  <2>1. Lengths
    BY <1>3, <1>4, <1>5, <1>14 DEF AnswerUnavailable, Bounded
  <2>2. Fine
    BY <1>2, <1>14 DEF AnswerUnavailable, entries, control, closing
  <2> QED
    BY <1>7, <2>1, <2>2
<1>15. CASE ShutdownRuntime \/ GraceExpires \/ UNCHANGED vars
  <2>1. UNCHANGED lanes /\ Fine
    BY <1>2, <1>15 DEF ShutdownRuntime, GraceExpires, vars, entries, control, closing, history
  <2> QED
    BY <1>6, <1>7, <2>1
<1>16. CASE RequestShutdown
  <2>1. UNCHANGED lanes /\ UNCHANGED <<cancelled, uncertain, cancels>> /\ requested' = TRUE
    BY <1>16 DEF RequestShutdown, entries, control, history
  <2> QED
    BY <1>6, <2>1 DEF Bounded
<1>17. ASSUME NEW op \in Ops, Submit(op) PROVE Bounded'
  <2>1. Lengths
    BY <1>3, <1>4, <1>5, <1>6, <1>17
       DEF Submit, SubmitWork, SubmitMutation, SubmitControl, NotSent, Bounded
  <2>2. Fine
    BY <1>2, <1>17 DEF Submit, entries, control, closing
  <2> QED
    BY <1>7, <2>1, <2>2
<1>18. ASSUME NEW op \in Ops, SubmitCancel(op) PROVE Bounded'
  <2>1. Lengths
    BY <1>5, <1>18 DEF SubmitCancel, Bounded
  <2>2. UNCHANGED <<cancelled, uncertain, requested>>
    BY <1>18 DEF SubmitCancel, entries, control, closing
  <2>3. cancels' \in [Ops -> 0..MaxCancels]
    BY <1>1, <1>18 DEF SubmitCancel, Bounded
  <2> QED
    BY <2>1, <2>2, <2>3 DEF Bounded
<1>19. ASSUME NEW op \in Ops, TaskStep(op) \/ PanicTask(op) PROVE Bounded'
  <2>1. UNCHANGED taskUnchanged /\ UNCHANGED uncertain
    BY <1>19 DEF TaskStep, AwaitTargets, QueueReconnect, GrantReconnect, GiveUpReconnect, DrainReconnect,
                 FinishTask, Send, MoveTo, PanicTask
  <2>2. UNCHANGED lanes /\ Fine
    BY <1>2, <2>1 DEF taskUnchanged, closing, history
  <2> QED
    BY <1>6, <1>7, <2>2
<1>20. ASSUME NEW op \in Ops, ChangeUncertain(op) PROVE Bounded'
  <2>1. UNCHANGED taskUnchanged /\ uncertain' \in BOOLEAN
    BY <1>20 DEF ChangeUncertain, Bounded
  <2>2. UNCHANGED lanes /\ UNCHANGED <<cancelled, requested, cancels>>
    BY <2>1 DEF taskUnchanged, closing, history
  <2> QED
    BY <1>6, <2>1, <2>2 DEF Bounded
<1> QED
  BY <1>8, <1>9, <1>10, <1>11, <1>12, <1>13, <1>14, <1>15, <1>16, <1>17, <1>18, <1>19, <1>20
     DEF Next, ControllerStep, ClientStep

-----------------------------------------------------------------------------
(* The theorems.                                                           *)

LEMMA InvInit == Init => Inv
<1> SUFFICES ASSUME Init PROVE Inv
  OBVIOUS
<1>1. Lanes
  BY NothingIn DEF Init, Lanes, Statuses, Control
<1>2. Entries
  BY DEF Init, Entries, Stages, TaskStates
<1>3. Closing
  <2>1. graceOver = FALSE /\ phase \in Phases
    BY DEF Init, Phases
  <2> QED
    BY <2>1 DEF Closing
<1>4. Untouched /\ Unanswered
  BY DEF Init, Untouched, Unanswered
<1>5. Messages
  BY DEF Init, Messages
<1>6. Mutating = {} /\ mutationActive = FALSE
  BY DEF Init, Mutating
<1>7. ExclusionInv
  BY <1>6 DEF Init, ExclusionInv, Serialized, Settled, Ordered, Working
<1> QED
  BY <1>1, <1>2, <1>3, <1>4, <1>5, <1>7 DEF Inv, AnswerInv

LEMMA InvNext == Inv /\ [Next]_vars => Inv'
<1> SUFFICES ASSUME Inv, [Next]_vars PROVE Inv'
  OBVIOUS
<1>1. CASE HandleMessage
  BY <1>1, HandleMessageStep
<1>2. CASE HandleControl
  BY <1>2, HandleControlStep
<1>3. CASE StartMutation
  BY <1>3, StartMutationStep
<1>4. CASE HandleWork
  BY <1>4, HandleWorkStep
<1>5. CASE Reap
  BY <1>5, ReapStep
<1>6. CASE CloseLanes
  <2>1. Lanes' /\ \A x \in Ops : Pending(x)' => Pending(x)
    BY <1>6, Drains DEF Inv, AnswerInv, CloseLanes
  <2>2. Onwards
    BY <1>6, <2>1 DEF Inv, AnswerInv, CloseLanes, Closing, Phases, Onwards
  <2> QED
    BY <1>6, <2>2, LeavesEntries DEF CloseLanes, control, core
<1>7. CASE AbortNetwork
  BY <1>7, AbortStep
<1>8. CASE ShutdownRuntime
  <2>1. /\ messages' = <<>> /\ phase' = "down" /\ Registered = {}
        /\ UNCHANGED <<lanes, status, graceOver, core, mutationActive>>
    BY <1>8 DEF ShutdownRuntime, entries, control, history, core
  <2>2. Lanes' /\ Closing' /\ Onwards
    BY <2>1 DEF Inv, AnswerInv, Lanes, Closing, Phases, Pending, Onwards, lanes
  <2>3. Entries' /\ Unanswered'
    BY <2>1 DEF Inv, AnswerInv, Entries, Unanswered, core
  <2>4. Untouched' /\ Messages'
    BY <2>1, <2>2 DEF Inv, AnswerInv, Onwards, Untouched, Messages, core
  <2>5. ExclusionInv'
    BY <2>1 DEF Inv, ExclusionInv, Serialized, Mutating, Settled, Ordered, Working, core
  <2> QED
    BY <2>2, <2>3, <2>4, <2>5 DEF Inv, AnswerInv
<1>9. CASE AnswerUnavailable
  BY <1>9, UnavailableStep
<1>10. CASE GraceExpires
  <2>1. Onwards
    BY <1>10 DEF Inv, AnswerInv, GraceExpires, history, lanes, Lanes, Closing, Phases, Pending, Onwards
  <2> QED
    BY <1>10, <2>1, LeavesEntries DEF GraceExpires, entries, control, history, core
<1>11. CASE RequestShutdown
  <2>1. Onwards
    BY <1>11, Stays DEF RequestShutdown, history
  <2> QED
    BY <1>11, <2>1, LeavesEntries DEF RequestShutdown, entries, control, history, core
<1>12. ASSUME NEW op \in Ops, Submit(op) PROVE Inv'
  <2>1. Lanes' /\ \A x \in Ops : Pending(x)' => Pending(x)
    BY <1>12, Submits DEF Inv, AnswerInv, Submit
  <2>2. Onwards
    BY <1>12, <2>1 DEF Inv, AnswerInv, Submit, closing, Closing, Onwards
  <2> QED
    BY <1>12, <2>2, LeavesEntries DEF Submit, entries, control, core
<1>13. ASSUME NEW op \in Ops, SubmitCancel(op) PROVE Inv'
  <2>1. Lanes' /\ \A x \in Ops : Pending(x)' => Pending(x)
    BY <1>13, Cancels DEF Inv, AnswerInv, SubmitCancel
  <2>2. Onwards
    BY <1>13, <2>1 DEF Inv, AnswerInv, SubmitCancel, closing, Closing, Onwards
  <2> QED
    BY <1>13, <2>2, LeavesEntries DEF SubmitCancel, entries, control, core
<1>14. ASSUME NEW op \in Ops, TaskStep(op) \/ PanicTask(op) PROVE Inv'
  BY <1>14, TaskProgress
<1>15. ASSUME NEW op \in Ops, ChangeUncertain(op) PROVE Inv'
  <2>1. UNCHANGED <<lanes, status, phase, graceOver, core, messages, mutationActive>>
    BY <1>15 DEF ChangeUncertain, taskUnchanged, closing, history, core
  <2> QED
    BY <2>1, Stays, LeavesEntries
<1>16. CASE UNCHANGED vars
  <2>1. UNCHANGED <<lanes, status, phase, graceOver, core, messages, mutationActive>>
    BY <1>16 DEF vars, entries, control, closing, history, core
  <2> QED
    BY <2>1, Stays, LeavesEntries
<1> QED
  BY <1>1, <1>2, <1>3, <1>4, <1>5, <1>6, <1>7, <1>8, <1>9, <1>10, <1>11, <1>12, <1>13, <1>14, <1>15, <1>16
     DEF Next, ControllerStep, ClientStep

LEMMA InvHolds == Spec => []Inv
BY InvInit, InvNext, PTL DEF Spec

\* At most one terminal event is attempted for a command, none while its entry
\* is registered, and the controller joins the task of a Completed message
\* without waiting: no path of completion, panic, reaping, abort and cleanup
\* answers twice or blocks the loop (finish_task_output, reap_panicked_tasks,
\* finish_controller_shutdown).
THEOREM AnswersAreSound == Spec => []AnswersSound
<1>1. Inv => AnswersSound
  BY DEF Inv, AnswerInv, Unanswered, Messages, Late, AnswersSound, AnsweredOnce, CompletedTasksJoinAtOnce
<1> QED
  BY <1>1, InvHolds, PTL

\* What a task still awaits was answered or is registered, so nobody waits for
\* a token that was dropped (wait_for_target_terminals).
THEOREM TargetsAreSettled == Spec => []TargetsSettle
<1>1. Inv => TargetsSettle
  BY DEF Inv, ExclusionInv, Settled, TargetsSettle
<1> QED
  BY <1>1, InvHolds, PTL

\* Mutations exclude each other, the flag says so exactly, and at most one task
\* works on a profile generation (mutation_active, has_profile_network_for_id).
THEOREM AccessIsExclusive == Spec => []ExclusiveAccess
<1>1. ASSUME Inv PROVE MutationsSerialized
  <2>1. {op \in Registered : Class(op) = "Mutation"} = Mutating
    BY <1>1, Classes DEF Inv, AnswerInv, Registered, Mutating
  <2>2. Cardinality(Mutating) <= 1
    <3>1. CASE Mutating = {}
      BY <3>1, FS_EmptySet
    <3>2. CASE Mutating # {}
      <4>1. PICK op \in Mutating : TRUE
        BY <3>2
      <4>2. Mutating = {op}
        BY <1>1, <4>1 DEF Inv, ExclusionInv, Serialized
      <4> QED
        BY <4>2, FS_Singleton
    <3> QED
      BY <3>1, <3>2
  <2> QED
    BY <1>1, <2>1, <2>2 DEF Inv, ExclusionInv, Serialized, MutationsSerialized
<1>2. ASSUME Inv PROVE ProfileExclusive
  <2> SUFFICES ASSUME NEW a \in Ops, NEW b \in Ops, a # b, Scope(a) = Scope(b),
                      stage[a] = "work", task[a] = "running", stage[b] = "work", task[b] = "running",
                      {Kind[a], Kind[b]} \subseteq ProfileWork \cup Controls
               PROVE  FALSE
    BY DEF ProfileExclusive
  <2>1. a \in waits[b] \/ b \in waits[a]
    BY <1>2 DEF Inv, ExclusionInv, Ordered, Working
  <2>2. waits[a] \subseteq terminal /\ waits[b] \subseteq terminal
    BY <1>2 DEF Inv, ExclusionInv, Ordered
  <2>3. a \notin terminal /\ b \notin terminal
    BY <1>2 DEF Inv, AnswerInv, Unanswered
  <2> QED
    BY <2>1, <2>2, <2>3
<1>3. Inv => ExclusiveAccess
  BY <1>1, <1>2 DEF ExclusiveAccess
<1> QED
  BY <1>3, InvHolds, PTL

LEMMA ResourceInit == Init => ResourceInv
<1> SUFFICES ASSUME Init PROVE ResourceInv
  OBVIOUS
<1>1. /\ profileQueue = [s \in Subjects |-> <<>>] /\ globalQueue = <<>> /\ messages = <<>>
      /\ stage = [op \in Ops |-> "none"] /\ keys = {} /\ status = [op \in Ops |-> "new"]
      /\ controlLane = <<>> /\ cancels = [op \in Ops |-> 0]
  BY DEF Init
<1>2. <<>> \in Seq(Ops) /\ Len(<<>>) = 0
  OBVIOUS
<1>3. PermitInv
  BY <1>1, <1>2, NothingIn DEF PermitInv, Runs
<1>4. KeyInv
  BY <1>1, NothingIn DEF KeyInv, Asking, Registered
<1>5. MessagesFit /\ Emptied
  BY <1>1, <1>2 DEF MessagesFit, Emptied
<1>6. cancels \in [Ops -> 0..MaxCancels]
  BY <1>1, ControllerAssumption DEF ControllerAssumption
<1>7. Bounded
  <2>1. 0 <= WorkCapacity /\ 0 <= MutationCapacity /\ 0 <= ControlCapacity
    BY ControllerAssumption DEF ControllerAssumption
  <2>2. workLane = <<>> /\ mutationLane = <<>> /\ cancelled = {} /\ uncertain = FALSE /\ requested = FALSE
    BY DEF Init
  <2>3. Len(workLane) = 0 /\ Len(mutationLane) = 0 /\ Len(controlLane) = 0
    BY <1>1, <2>2
  <2> QED
    BY <1>6, <2>1, <2>2, <2>3 DEF Bounded
<1> QED
  BY <1>3, <1>4, <1>5, <1>7 DEF ResourceInv

\* Whatever a command took it gives back, whichever way it ends: nobody queued
\* for a permit is gone and no task runs without its permits; while the runtime
\* accepts commands a coalescing key in use stands for a command that is queued
\* or registered, and an accepted Disconnect holds its key until it is answered;
\* no task is left when the runtime is down (start_profile_work,
\* release_for_event, finish_controller_shutdown).
THEOREM ResourcesAreAccounted == Spec => []ResourcesAccounted
<1>1. Inv /\ ResourceInv /\ [Next]_vars => ResourceInv'
  BY PermitNext, KeyNext, FitNext, EmptiedNext, BoundedNext DEF ResourceInv
<1>2. ASSUME Inv, ResourceInv PROVE TypeOK
  <2>1. Lanes /\ Entries /\ Closing /\ Unanswered /\ Messages /\ Serialized
    BY <1>2 DEF Inv, AnswerInv, ExclusionInv
  <2> QED
    BY <1>2, <2>1 DEF ResourceInv, PermitInv, KeyInv, Bounded, Lanes, Statuses, Entries, Stages, TaskStates,
                      Closing, Phases, Unanswered, Messages, Serialized, TypeOK
<1>3. ASSUME Inv, ResourceInv PROVE PermitsAccounted
  <2>1. profileQueue \in [Subjects -> Seq(Ops)] /\ globalQueue \in Seq(Ops)
    BY <1>3 DEF ResourceInv, PermitInv
  <2>2. ASSUME NEW queue \in Seq(Ops), NEW i \in DOMAIN queue PROVE queue[i] \in Ops /\ In(queue, queue[i])
    BY DEF In
  <2>3. /\ \A s \in Subjects : \A i \in DOMAIN profileQueue[s] : Live(profileQueue[s][i])
        /\ \A i \in DOMAIN globalQueue : Live(globalQueue[i])
    BY <1>3, <2>1, <2>2 DEF ResourceInv, PermitInv
  <2>4. \A op \in Ops : Runs(op) => Holds(op)
    BY <1>3 DEF ResourceInv, PermitInv
  <2> QED
    BY <2>3, <2>4 DEF PermitsAccounted, Runs, Holds
<1>4. ASSUME Inv, ResourceInv PROVE KeysBacked
  <2> SUFFICES ASSUME Open, NEW key \in keys
               PROVE  \/ \E i \in DOMAIN controlLane : ControlKey(controlLane[i]) = key
                      \/ \E op \in Registered : key \in {<<"cancel", op>>, <<Kind[op], Scope(op)>>}
    BY DEF KeysBacked, Open
  <2>1. Backed(key) /\ controlLane \in Seq(Commands)
    BY <1>4 DEF ResourceInv, KeyInv, Inv, AnswerInv, Lanes
  <2> QED
    BY <2>1 DEF Backed, In, KeyOf
<1>5. ASSUME Inv, ResourceInv PROVE DisconnectsCoalesced
  BY <1>5 DEF ResourceInv, KeyInv, Asking, Open, KeyOf, DisconnectsCoalesced
<1>6. ASSUME Inv, ResourceInv PROVE NoDetachedTask
  BY <1>6 DEF ResourceInv, Emptied, Inv, AnswerInv, Entries, Live, NoDetachedTask
<1>7. Inv /\ ResourceInv => ResourcesAccounted
  BY <1>2, <1>3, <1>4, <1>5, <1>6 DEF ResourcesAccounted
<1> QED
  BY <1>1, <1>7, InvInit, InvNext, ResourceInit, PTL DEF Spec
=============================================================================
