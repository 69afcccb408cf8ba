---------------------------- MODULE MCController ----------------------------
(* Instances of Controller: the commands the client may submit.  Each .cfg *)
(* picks the operations; their kinds and subjects are fixed here.          *)
EXTENDS Controller, TLC

CONSTANTS c, e, d, d2, r, u, f, s, n, w, w2, x, y, z,
          p1, dr, rs, rs2

MCKind ==
    LET kind == c :> "connect" @@ e :> "execute" @@ d :> "disconnect" @@
                d2 :> "disconnect" @@ r :> "reconnect" @@ u :> "update" @@
                f :> "refresh" @@ s :> "store" @@ n :> "create" @@
                w :> "draft" @@ w2 :> "draft" @@
                x :> "export" @@ y :> "export" @@ z :> "export"
    IN  [op \in Ops |-> kind[op]]

\* Two drafts tests share a draft, two of the three exports a result; all
\* other commands are about one profile.
MCSubject ==
    [op \in Ops |-> IF op \in {w, w2, n} THEN dr
                    ELSE IF op \in {x, y} THEN rs
                    ELSE IF op = z THEN rs2 ELSE p1]

\* The execute carries the generation the update gives the profile.
MCGeneration == [op \in Ops |-> IF op = e THEN 2 ELSE 1]

=============================================================================
