-------------------------------- MODULE Sources --------------------------------
(***************************************************************************)
(* The preprocessor's open files (cpp_process and the directives that open *)
(* and leave files), and the compiler reading the lines it puts out: which *)
(* line of which file the compiler takes each line for.                    *)
(***************************************************************************)
EXTENDS Integers, Sequences, FiniteSets, Functions, FiniteSetsExt, SequencesExt

CONSTANTS
  Files,       \* names of files
  Main,        \* the file that is compiled
  NoName,      \* no file name
  Programs,    \* what the files may contain
  MaxOpen      \* bound: files that are open at a time

VARIABLES
  contents,    \* the rows of each file
  stack,       \* ctx->_sourcestack, the file that is read last
  onces,       \* ctx->_pragma_onces
  output,      \* the lines of the preprocessed file
  status       \* "running", "refused" or "done"

vars == <<contents, stack, onces, output, status>>

(***************************************************************************)
(* A row is a logical line, which splices and comments spread over several *)
(* physical ones: text, #include, #if with its outcome, #endif, #pragma    *)
(* once or another, #line, #error, or another directive.  A file that is   *)
(* not found is NoName.  What a macro call that goes on in the next rows   *)
(* does is MacroExpand's.                                                  *)
(***************************************************************************)
Kinds == {"text", "include", "if", "endif", "once", "pragma", "line", "error", "control"}
Rows ==
  [kind : Kinds, lines : Nat \ {0}, file : Files \cup {NoName}, taken : BOOLEAN, number : Nat]

ASSUME SourcesAssumption ==
  /\ Main \in Files /\ NoName \notin Files /\ MaxOpen \in Nat
  /\ \A p \in Programs : p \in [Files -> Seq(Rows)]

-----------------------------------------------------------------------------
(* Output.  A line stands for the place whose text it has, or is blank, or *)
(* a #line directive.                                                      *)

Text(place) == [kind |-> "text", place |-> place, line |-> 0, name |-> NoName]
Blank == [kind |-> "blank", place |-> <<NoName, 0>>, line |-> 0, name |-> NoName]
LineCtrl(name, line) == [kind |-> "line", place |-> <<NoName, 0>>, line |-> line, name |-> name]
Blanks(n) == [i \in 1 .. n |-> Blank]

\* cc_read_token_with_handlectrl1: the place for which the compiler takes line
\* n of the output, which it counts from the last #line directive above.
Seen(n) ==
  LET ctrl == Max({m \in 1 .. n - 1 : output[m].kind = "line"}) IN
  <<output[ctrl].name, output[ctrl].line + (n - 1 - ctrl)>>

-----------------------------------------------------------------------------
\* FSourceCodeContext with its stream: the name it has now and the line.
Opened(f) == [file |-> f, name |-> f, line |-> 1, next |-> 1, groups |-> <<>>]

Top == Last(stack)
AtEnd == Top.next > Len(contents[Top.file])
Row == contents[Top.file][Top.next]
Passes == \A n \in DOMAIN Top.groups : Top.groups[n]

\* The row is read before anything is done with it.
ReadOn(groups) ==
  [Top EXCEPT !.line = @ + Row.lines, !.next = @ + 1, !.groups = groups]

Init ==
  /\ contents \in Programs
  /\ stack = <<Opened(Main)>>
  /\ onces = {}
  /\ output = <<LineCtrl(Main, 1)>>
  /\ status = "running"

Reading(kinds) == status = "running" /\ ~AtEnd /\ Row.kind \in kinds

Goes(row, lines) ==
  /\ stack' = Append(Front(stack), row)
  /\ output' = output \o lines
  /\ UNCHANGED <<contents, onces, status>>

Refuse == status' = "refused" /\ UNCHANGED <<contents, stack, onces, output>>

\* The file on top is left, and the one below goes on after the line it has
\* read.  The compiler is told so.
Leave(open) ==
  LET below == Front(open) IN
  /\ stack' = below
  /\ output' = IF below = <<>> THEN output
               ELSE Append(output, LineCtrl(Last(below).name, Last(below).line))
  /\ status' = IF below = <<>> THEN "done" ELSE status
  /\ UNCHANGED <<contents, onces>>

\* The text of a row is put on one line, and that of a #pragma.
TextRow ==
  /\ Reading({"text", "pragma"})
  /\ Goes(ReadOn(Top.groups),
          IF Passes THEN <<Text(<<Top.file, Top.next>>)>> \o Blanks(Row.lines - 1)
          ELSE Blanks(Row.lines))

Control ==
  /\ Reading({"control", "error"})
  /\ IF Row.kind = "error" /\ Passes THEN Refuse
     ELSE Goes(ReadOn(Top.groups), Blanks(Row.lines))

\* The group's branch is taken or not; in a group that is skipped, none is.
If ==
  /\ Reading({"if"})
  /\ Goes(ReadOn(Append(Top.groups, Row.taken)), Blanks(Row.lines))

Endif ==
  /\ Reading({"endif"})
  /\ IF Top.groups = <<>> THEN Refuse
     ELSE Goes(ReadOn(Front(Top.groups)), Blanks(Row.lines))

\* A file may be open twice, and no more.
Recursive(f) == Cardinality({n \in DOMAIN stack : stack[n].name = f}) >= 2

\* Mutant: the line that the directive stands on is put out too.
ForgetsOwnLine(f) == <<LineCtrl(f, 1)>> \o Blanks(Row.lines)

\* ctrl_include_handler, and the blank lines that the loop puts out for what
\* is left of the directive, when the new file has begun.
IncludeOutput(f) == <<LineCtrl(f, 1)>> \o Blanks(Row.lines - 1)

Include ==
  /\ Reading({"include"})
  /\ Len(stack) < MaxOpen
  /\ CASE ~Passes -> Goes(ReadOn(Top.groups), Blanks(Row.lines))
       [] Passes /\ (Row.file = NoName \/ Recursive(Row.file)) -> Refuse
       [] Passes /\ Row.file # NoName /\ ~Recursive(Row.file) ->
            /\ stack' = Front(stack) \o <<ReadOn(Top.groups), Opened(Row.file)>>
            /\ output' = output \o IncludeOutput(Row.file)
            /\ UNCHANGED <<contents, onces, status>>

\* Mutant: only files that are included are remembered.
RemembersIncluded == IF Len(stack) > 1 THEN onces \cup {Top.file} ELSE onces

\* ctrl_pragma_handler
Remembers == onces \cup {Top.file}

\* A file that is seen again is left at once.
PragmaOnce ==
  /\ Reading({"once"})
  /\ CASE ~Passes -> Goes(ReadOn(Top.groups), Blanks(Row.lines))
       [] Passes /\ Top.file \in onces -> Leave(stack)
       [] Passes /\ Top.file \notin onces ->
            /\ onces' = Remembers
            /\ stack' = Append(Front(stack), ReadOn(Top.groups))
            /\ output' = output \o Blanks(Row.lines)
            /\ UNCHANGED <<contents, status>>

\* ctrl_line_handler: the stream's line is changed before the loop compares
\* it with the one it began with, and without a name there is none to put out.
Line ==
  /\ Reading({"line"})
  /\ IF Passes
     THEN Goes([ReadOn(Top.groups) EXCEPT !.line = Row.number,
                                          !.name = IF Row.file = NoName THEN @ ELSE Row.file],
               <<LineCtrl(Row.file, Row.number)>> \o Blanks(Row.number - Top.line - 1))
     ELSE Goes(ReadOn(Top.groups), Blanks(Row.lines))

\* Mutant: the end is looked for among the rows that are not skipped.
EndPassing == status = "running" /\ AtEnd /\ Passes

\* The row that ends a file has no text.
EndRead == status = "running" /\ AtEnd

EndOfFile ==
  /\ EndRead
  /\ IF Top.groups = <<>> THEN Leave(stack) ELSE Refuse

Next ==
  TextRow \/ Control \/ If \/ Endif \/ Include \/ PragmaOnce \/ Line \/ EndOfFile

\* One loop, which nothing holds up.
Spec == Init /\ [][Next]_vars /\ WF_vars(Next)

-----------------------------------------------------------------------------
(* Properties.                                                             *)

\* Where a row starts in its file, as its programmer counts: a #line
\* directive that is not skipped gives the row that follows it a number and
\* perhaps a name.
Count(at, row) ==
  CASE row.kind = "if" -> [at EXCEPT !.line = @ + row.lines, !.groups = Append(@, row.taken)]
    [] row.kind = "endif" -> [at EXCEPT !.line = @ + row.lines, !.groups = Front(@)]
    [] row.kind = "line" /\ FALSE \notin Range(at.groups) ->
         [at EXCEPT !.line = row.number, !.name = IF row.file = NoName THEN @ ELSE row.file]
    [] OTHER -> [at EXCEPT !.line = @ + row.lines]

Counted(f, rows) ==
  LET at[r \in Nat] == IF r <= 1 THEN [name |-> f, line |-> 1, groups |-> <<>>]
                       ELSE Count(at[r - 1], rows[r - 1]) IN
  at

Place(f, r) == LET at == Counted(f, contents[f])[r] IN <<at.name, at.line>>

\* The compiler takes every line of text for the line of the file that it was
\* written on, through inclusions, skipped groups, directives and rows of
\* several lines (the blank lines and #line directives of cpp_process).
LinesAgree ==
  \A n \in DOMAIN output :
    output[n].kind = "text" => Seen(n) = Place(output[n].place[1], output[n].place[2])

\* What follows #pragma once in a file is put out once at the most, however
\* often and from wherever the file is included (ctrl_pragma_handler).
OnceOnly ==
  \A m \in DOMAIN output, n \in DOMAIN output :
    LET f == output[n].place[1]
        r == output[n].place[2]
        At(k) == contents[f][k].kind IN
    /\ m # n /\ output[m] = output[n] /\ output[n].kind = "text"
    /\ "once" \in {At(k) : k \in 1 .. r}
    => \E k \in 1 .. r : At(k) = "if"

\* Preprocessing ends: files are left, also by those that include themselves
\* (the loop of cpp_process, and the count in ctrl_include_handler).
Ends == <>(status # "running")
=============================================================================
