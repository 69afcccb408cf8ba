------------------------ MODULE StatementExtraction ------------------------
(***************************************************************************)
(* Which text an Execute sends to MySQL: the boundary scanner and the      *)
(* choice of the target of src/execution.rs, against a definition of       *)
(* statement boundaries by one pass over the characters.                   *)
(*                                                                         *)
(* A text is a sequence of characters, one of each class the scanner tells *)
(* apart; positions count from 0 as in the code.  Row limit and timeout    *)
(* validation, UTF-8 boundaries and the Redis target (one physical line,   *)
(* parsed by shell_words) are left out.                                    *)
(***************************************************************************)
EXTENDS Naturals, Sequences, FiniteSetsExt

CONSTANTS Alphabets,   \* the sets of characters texts are written with
          MaxLength    \* bound: the longest text

\* The characters: a letter, a space, a newline, the punctuation the scanner knows
Characters == {"a", " ", "newline", ";", "'", "double", "backtick", "backslash",
               "#", "-", "/", "*", "!"}
Quotes == {"'", "double", "backtick"}
Space == {" ", "newline"}

ASSUME TextAssumption == Alphabets \subseteq SUBSET Characters /\ MaxLength \in Nat

VARIABLES text, alphabet

textVars == <<text, alphabet>>

Char(t, i) == IF i < Len(t) THEN t[i + 1] ELSE "end"
Positions(t) == 0..(Len(t) - 1)
Slice(t, range) == SubSeq(t, range[1] + 1, range[2])

-----------------------------------------------------------------------------
\* The scanner: scan_mysql and its helpers.

\* '#' or mysql_dash_comment_starts
LineCommentStarts(t, i) ==
    \/ Char(t, i) = "#"
    \/ Char(t, i) = "-" /\ Char(t, i + 1) = "-" /\ Char(t, i + 2) \in Space

LineCommentEnd(t, i) == Min({j \in i..(Len(t) - 1) : Char(t, j) = "newline"} \cup {Len(t)})

\* block_comment_end; the empty set if the comment is not closed
BlockCommentEnds(t, from) == {j + 2 : j \in {k \in from..Len(t) : Char(t, k) = "*" /\ Char(t, k + 1) = "/"}}

BackslashRunEnd(t, i) == Min({j \in i..Len(t) : Char(t, j) # "backslash"})

OddBackslashRunBefore(t, i) ==
    LET start == Max({j \in 1..i : Char(t, j - 1) # "backslash"} \cup {0}) IN (i - start) % 2 = 1

Unclosed == [end |-> 0, ambiguous |-> FALSE]

RECURSIVE QuotedFrom(_, _, _, _)
QuotedFrom(t, i, quote, ambiguous) ==
    IF i >= Len(t) THEN Unclosed
    ELSE IF Char(t, i) = "backslash" THEN
        LET end == BackslashRunEnd(t, i)
            odd == (end - i) % 2 = 1
            unsure == Char(t, end) = quote /\ quote # "backtick" /\ odd
        IN QuotedFrom(t, IF odd THEN end + 1 ELSE end, quote, ambiguous \/ unsure)
    ELSE IF Char(t, i) # quote THEN QuotedFrom(t, i + 1, quote, ambiguous)
    ELSE IF Char(t, i + 1) = quote THEN QuotedFrom(t, i + 2, quote, ambiguous)
    ELSE [end |-> i + 1, ambiguous |-> ambiguous]

\* quoted_span
QuotedSpan(t, start, quote) == QuotedFrom(t, start + 1, quote, FALSE)

\* PendingMysqlStatement, with first_executable and last_executable_end
None == 99
NoStatement == [first |-> None, last |-> 0, ambiguous |-> FALSE]
Start == [index |-> 0, pending |-> NoStatement, statements |-> <<>>, issue |-> <<>>, stray |-> FALSE]

MarkExecutable(pending, start, end) ==
    [pending EXCEPT !.first = IF @ = None THEN start ELSE @, !.last = end]

\* An unterminated token ends the scan.
Issue(t, s) ==
    [s EXCEPT !.index = Len(t),
              !.issue = <<[start |-> IF s.pending.first = None THEN s.index ELSE s.pending.first,
                           ambiguous |-> s.pending.ambiguous]>>]

BlockComment(t, s) ==
    LET ends == BlockCommentEnds(t, s.index + 2) IN
    IF ends = {} THEN Issue(t, s)
    ELSE [s EXCEPT !.index = Min(ends),
                   !.pending = IF Char(t, s.index + 2) = "!"
                               THEN MarkExecutable(@, s.index, Min(ends)) ELSE @]

\* Mutant: a quote behind a backslash inside the span is not remembered.
QuotedForgetsEscapes(t, s) ==
    LET quote == Char(t, s.index)
        span == QuotedSpan(t, s.index, quote)
        end == IF span = Unclosed THEN s.index + 1 ELSE span.end
        before == quote # "backtick" /\ OddBackslashRunBefore(t, s.index)
        marked == [s EXCEPT !.pending = MarkExecutable(@, s.index, end),
                            !.pending.ambiguous = @ \/ before]
    IN IF span = Unclosed THEN Issue(t, marked) ELSE [marked EXCEPT !.index = end]

Quoted(t, s) ==
    LET quote == Char(t, s.index)
        span == QuotedSpan(t, s.index, quote)
        end == IF span = Unclosed THEN s.index + 1 ELSE span.end
        before == quote # "backtick" /\ OddBackslashRunBefore(t, s.index)
        marked == [s EXCEPT !.pending = MarkExecutable(@, s.index, end),
                            !.pending.ambiguous = @ \/ before \/ span.ambiguous]
    IN IF span = Unclosed THEN Issue(t, marked) ELSE [marked EXCEPT !.index = end]

\* PendingMysqlStatement::finish
Statement(pending, end) == [range |-> <<pending.first, end>>, ambiguous |-> pending.ambiguous]

Terminator(s) ==
    IF s.pending.first = None THEN [s EXCEPT !.stray = TRUE, !.index = @ + 1]
    ELSE [s EXCEPT !.statements = Append(@, Statement(s.pending, s.index + 1)),
                   !.pending = NoStatement, !.index = @ + 1]

ScanStep(t, s) ==
    LET c == Char(t, s.index) IN
    CASE LineCommentStarts(t, s.index) -> [s EXCEPT !.index = LineCommentEnd(t, s.index)]
      [] c = "/" /\ Char(t, s.index + 1) = "*" -> BlockComment(t, s)
      [] c \in Quotes -> Quoted(t, s)
      [] c = ";" -> Terminator(s)
      [] c \in Space -> [s EXCEPT !.index = @ + 1]
      [] OTHER -> [s EXCEPT !.index = @ + 1, !.pending = MarkExecutable(@, s.index, s.index + 1)]

RECURSIVE ScanFrom(_, _)
ScanFrom(t, s) ==
    IF s.index < Len(t) THEN ScanFrom(t, ScanStep(t, s))
    ELSE IF s.issue # <<>> \/ s.pending.first = None THEN s
    ELSE [s EXCEPT !.statements = Append(@, Statement(s.pending, s.pending.last))]

\* scan_mysql
Scan(t) == ScanFrom(t, Start)

-----------------------------------------------------------------------------
\* The target.

\* mysql_statement_contains
Contains(range, caret, length) ==
    \/ range[1] <= caret /\ caret < range[2]
    \/ caret = length /\ range[2] = length /\ caret >= range[1]

Error(code) == [code |-> code, range |-> <<>>]

\* infer_mysql_target, given the scan of the text
InferTarget(t, scan, caret) ==
    LET hits == {k \in DOMAIN scan.statements : Contains(scan.statements[k].range, caret, Len(t))}
    IN IF hits # {} THEN
            LET hit == scan.statements[Min(hits)] IN
            IF hit.ambiguous THEN Error("AmbiguousSqlMode") ELSE [code |-> "Ok", range |-> hit.range]
       ELSE IF scan.issue # <<>> /\ caret >= scan.issue[1].start
            THEN Error(IF scan.issue[1].ambiguous THEN "AmbiguousSqlMode" ELSE "UnterminatedSqlToken")
       ELSE Error("NoCurrentStatement")

Trimmed(t) ==
    LET solid == {i \in Positions(t) : Char(t, i) \notin Space} IN
    IF solid = {} THEN <<>> ELSE Slice(t, <<Min(solid), Max(solid) + 1>>)

\* Mutant: a lone terminator next to the statement is not counted.
SelectionIgnoresStray(selection) ==
    LET scan == Scan(Trimmed(selection)) IN
    IF scan.issue # <<>> THEN "UnterminatedSqlToken"
    ELSE IF Len(scan.statements) = 0 THEN "NoCurrentStatement"
    ELSE IF Len(scan.statements) = 1 THEN "Ok" ELSE "MultipleStatements"

\* The selection of extract_and_validate_target, and validate_mysql_selection
ValidateSelection(selection) ==
    LET scan == Scan(Trimmed(selection)) IN
    IF scan.issue # <<>> THEN "UnterminatedSqlToken"
    ELSE IF Len(scan.statements) = 0 THEN "NoCurrentStatement"
    ELSE IF Len(scan.statements) = 1 /\ ~scan.stray THEN "Ok" ELSE "MultipleStatements"

-----------------------------------------------------------------------------
\* The reference: what each character belongs to, from left to right.  With
\* escapes off, a backslash is an ordinary character in '...' and "..."
\* (NO_BACKSLASH_ESCAPES).  In a backtick span the scanner always takes it for an
\* escape, and so does the reference.

Code == [in |-> "code", skip |-> FALSE]

After(t, i, s, escapes) ==
    LET c == Char(t, i)
        n == Char(t, i + 1)
    IN CASE s.skip -> [s EXCEPT !.skip = FALSE]
         [] s.in = "line" -> IF n = "newline" THEN Code ELSE s
         [] s.in \in {"block", "version"} -> IF c = "*" /\ n = "/" THEN [in |-> s.in \o "End", skip |-> FALSE] ELSE s
         [] s.in \in {"blockEnd", "versionEnd"} -> Code
         [] s.in \in Quotes /\ c = "backslash" /\ (escapes \/ s.in = "backtick") -> [s EXCEPT !.skip = TRUE]
         [] s.in \in Quotes /\ c = s.in -> IF n = s.in THEN [s EXCEPT !.skip = TRUE] ELSE Code
         [] s.in \in Quotes -> s
         [] LineCommentStarts(t, i) -> IF n = "newline" THEN Code ELSE [in |-> "line", skip |-> FALSE]
         [] c = "/" /\ n = "*" ->
                [in |-> IF Char(t, i + 2) = "!" THEN "version" ELSE "block", skip |-> TRUE]
         [] c \in Quotes -> [in |-> c, skip |-> FALSE]
         [] OTHER -> Code

\* The state before each character, and after the last
Lexed(t, escapes) ==
    LET state[i \in 0..Len(t)] == IF i = 0 THEN Code ELSE After(t, i - 1, state[i - 1], escapes)
    IN state

ReferenceDelimiters(t, state) == {i \in Positions(t) : Char(t, i) = ";" /\ state[i] = Code}

\* Characters of a statement: outside comments, or of an executable comment
Executable(t, state, i) ==
    \/ {state[i].in, state[i + 1].in} \cap (Quotes \cup {"version", "versionEnd"}) # {}
    \/ /\ state[i] = Code /\ Char(t, i) \notin Space \cup {";"}
       /\ state[i + 1] = Code /\ ~LineCommentStarts(t, i)

Terminated(t, state) == state[Len(t)].in \in {"code", "line"}

\* One range per stretch between delimiters that holds something executable
ReferenceStatements(t, escapes) ==
    LET state == Lexed(t, escapes)
        delimiters == ReferenceDelimiters(t, state)
        End(b) == Min({d \in delimiters : d >= b} \cup {Len(t)})
        Solid(b) == {i \in b..(End(b) - 1) : Executable(t, state, i)}
        begins == {b \in {0} \cup {d + 1 : d \in delimiters} :
                     Solid(b) # {} /\ (End(b) \in delimiters \/ Terminated(t, state))}
    IN {<<Min(Solid(b)), IF End(b) \in delimiters THEN End(b) + 1 ELSE Max(Solid(b)) + 1>> : b \in begins}

-----------------------------------------------------------------------------
TextInit == alphabet \in Alphabets /\ text = <<>>

Type(c) ==
    /\ Len(text) < MaxLength
    /\ text' = Append(text, c) /\ UNCHANGED alphabet

TextNext == \E c \in alphabet : Type(c)

TextSpec == TextInit /\ [][TextNext]_textVars

-----------------------------------------------------------------------------
CaretTargets ==
    LET statements == ReferenceStatements(text, TRUE)
        scan == Scan(text)
    IN \A caret \in 0..Len(text) :
        LET target == InferTarget(text, scan, caret) IN
        /\ target.code = "Ok" =>
             target.range \in statements /\ Contains(target.range, caret, Len(text))
        /\ (\E r \in statements : Contains(r, caret, Len(text))) =>
             target.code \in {"Ok", "AmbiguousSqlMode"}

SelectedTargets ==
    /\ LET scan == Scan(text)
           targets == {InferTarget(text, scan, caret) : caret \in 0..Len(text)}
       IN \A target \in targets :
            target.code = "Ok" => ValidateSelection(Slice(text, target.range)) = "Ok"
    /\ ValidateSelection(text) = "Ok" =>
        LET t == Trimmed(text)
            state == Lexed(t, TRUE)
        IN /\ Terminated(t, state)
           /\ Cardinality(ReferenceStatements(t, TRUE)) = 1
           /\ Cardinality(ReferenceDelimiters(t, state)) <= 1

(* With the caret anywhere in any text, what infer_mysql_target sends is   *)
(* one statement of the reference that holds the caret, and a caret in a   *)
(* statement finds it unless the code calls it ambiguous.  Selecting       *)
(* exactly that target is accepted too, and a selection is accepted only   *)
(* if it is one statement and nothing that MySQL would run beside it       *)
(* (validate_mysql_selection).                                             *)
TargetsAreStatements == CaretTargets /\ SelectedTargets

(* An inferred target is the same statement whichever way the server reads *)
(* backslashes, unless a statement before it was called ambiguous          *)
(* (ambiguous_sql_mode of quoted_span and scan_mysql).                     *)
BoundariesIgnoreSqlMode ==
    LET scan == Scan(text)
        doubtful == {k \in DOMAIN scan.statements : scan.statements[k].ambiguous}
        statements == ReferenceStatements(text, FALSE)
    IN \A caret \in 0..Len(text) :
        LET target == InferTarget(text, scan, caret) IN
        target.code = "Ok"
            /\ (\A k \in doubtful : scan.statements[k].range[1] > target.range[1]) =>
          target.range \in statements
=============================================================================
