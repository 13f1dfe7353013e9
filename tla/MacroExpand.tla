------------------------------ MODULE MacroExpand -----------------------------
(***************************************************************************)
(* Macro definition and expansion (macro.c, ctrl_define_handler and        *)
(* ctrl_undef_handler of ctrl.c): row by row, with hidden sets that keep a *)
(* macro from expanding in its own replacement, calls that go on in the    *)
(* next rows, and arguments expanded on a stack of their own.              *)
(***************************************************************************)
EXTENDS Integers, Sequences, FiniteSets, FiniteSetsExt, SequencesExt

CONSTANTS
  Programs  \* [rows, valid]: rows of text, #define or #undef, and if they are C

VARIABLES
  program,
  rows,    \* the rows still to be read
  macros,  \* the macro table, by name
  hidden,  \* expctx._hidden_sets: sets of names, numbered from 1
  stack,   \* the lists being expanded and the bodies being substituted
  out,     \* the tokens written
  phase    \* "rows", "row", "done" or "failed"

vars == <<program, rows, macros, hidden, stack, out, phase>>

-----------------------------------------------------------------------------
(* Tokens: type, spelling, hidden set (0 for none), and from: the macros   *)
(* whose replacements it comes from.  A text row ends with a "nl" token,   *)
(* the last row is an "eof" token.                                         *)

Token(t, s) == [t |-> t, s |-> s, h |-> 0, from |-> {}]
IsId(tk) == tk.t = "id"
None == Token("none", "")
EndOfLine == Token("nl", "")

\* A macro; argc is -1 without a parameter list.
Macro(argc, params, vararg, builtin, body) ==
  [argc |-> argc, params |-> params, vararg |-> vararg, builtin |-> builtin, body |-> body]

\* Types and spellings; the literals are named for the provers.
Words == STRING \cup {"num", "str", "none", "nl", "", "0", "1", "7"}

\* What is read: rows of text, and definitions.
ReadTokens == [t : Words, s : Words, h : {0}, from : {{}}]
Macros ==
  [argc : Int, params : Seq(Words), vararg : BOOLEAN, builtin : BOOLEAN, body : Seq(ReadTokens)]
ReadRows ==
  [kind : {"text"}, toks : Seq(ReadTokens)] \cup [kind : {"undef"}, name : Words]
    \cup [kind : {"define"}, name : Words, macro : Macros]

ASSUME MacroAssumption == \A p \in Programs : p.rows \in Seq(ReadRows)

Defined(tk) == IsId(tk) /\ tk.s \in DOMAIN macros
Hidden(tk) == IF tk.h = 0 THEN {} ELSE hidden[tk.h]

\* What macro_expand_inner expands.
Expandable(tk) == Defined(tk) /\ tk.s \notin Hidden(tk)

\* find_argument_index, or 0
ParamOf(m, tk) ==
  IF \E n \in DOMAIN m.params : m.params[n] = tk.s
  THEN CHOOSE n \in DOMAIN m.params : m.params[n] = tk.s ELSE 0

\* Mutant: what follows the token on the right is forgotten.
ConcatFirst(l, r, from) ==
  IF l = <<>> \/ l[1].t = "none" THEN r
  ELSE IF r = <<>> THEN l
  ELSE Front(l) \o <<[Token(Last(l).t, Last(l).s \o Head(r).s) EXCEPT !.from = from]>>

\* concat_tokenlist on the lists between which ## stood. The two tokens, read
\* again, are one token here, which belongs to the replacement (from).
Concat(l, r, from) ==
  IF l = <<>> \/ l[1].t = "none" THEN r
  ELSE IF r = <<>> THEN l
  ELSE Front(l) \o <<[Token(Last(l).t, Last(l).s \o Head(r).s) EXCEPT !.from = from]>> \o Tail(r)

\* stringfy_tokenlist
Stringify(tks) == Token("str", FoldLeft(LAMBDA s, tk : s \o tk.s, "", tks))

-----------------------------------------------------------------------------
(* macro_gather_args.                                                      *)

\* How many of the following rows may be read for more of a call: those that are
\* text, up to the next control line.
Following(rest, look) ==
  IF look THEN Min({n \in 0 .. Len(rest) : n = Len(rest) \/ rest[n + 1].kind # "text"}) ELSE 0

\* The list itself, and the nth row after it.
Nth(toks, rest, n) == IF n = 0 THEN toks ELSE rest[n].toks

After(list, n) == SubSeq(list, n + 1, Len(list))

\* "look for '('": toks are those after the "(" if it is found, else those
\* after the line ends. apart: they are a new row, not yet part of the list.
FindParen(toks, rest, look) ==
  LET last == Following(rest, look)
      Starts(n) == {k \in DOMAIN Nth(toks, rest, n) : Nth(toks, rest, n)[k].t # "nl"}
      row == Min({n \in 0 .. last : n = last \/ Starts(n) # {}})
      found == Starts(row) # {} /\ Nth(toks, rest, row)[Min(Starts(row))].t = "("
      passed == IF Starts(row) = {} THEN Len(Nth(toks, rest, row))
                ELSE IF found THEN Min(Starts(row)) ELSE Min(Starts(row)) - 1
  IN [found |-> found, toks |-> After(Nth(toks, rest, row), passed), rows |-> After(rest, row),
      apart |-> row > 0]

\* The tokens that are not of type t.
Without(toks, t) ==
  LET kept[n \in 0 .. Len(toks)] ==
        IF n = 0 THEN <<>> ELSE IF toks[n].t = t THEN kept[n - 1] ELSE Append(kept[n - 1], toks[n])
  IN kept[Len(toks)]

\* How many parentheses are open after n tokens.
Depth(toks, n) ==
  Cardinality({k \in 1 .. n : toks[k].t = "("}) - Cardinality({k \in 1 .. n : toks[k].t = ")"})

\* The list and the first n rows after it.
Joined(toks, rest, last) ==
  LET text[n \in 0 .. last] == IF n = 0 THEN toks ELSE text[n - 1] \o rest[n].toks
  IN text[last]

\* "search for terminating )"
FindClose(toks, rest, look) ==
  LET last == Following(rest, look)
      all == Joined(toks, rest, last)
      end == Min({n \in 1 .. Len(all) + 1 : n > Len(all) \/ all[n].t = "eof"
                                            \/ (all[n].t = ")" /\ Depth(all, n) = -1)})
      row == Min({n \in 0 .. last : n = last \/ Len(Joined(toks, rest, n)) >= end})
  IN [ok |-> end <= Len(all) /\ all[end].t = ")",
      inner |-> Without(SubSeq(all, 1, end - 1), "nl"),
      toks |-> After(Joined(toks, rest, row), end), rows |-> After(rest, row)]

\* "now go back and gather arguments": which commas end one, after the first n
\* of which the next starts.
Commas(m, inner) ==
  LET outer == {n \in DOMAIN inner : inner[n].t = "," /\ Depth(inner, n) = 0}
  IN {n \in outer : ~m.vararg \/ Cardinality({k \in outer : k <= n}) < m.argc}

Behind(commas, n, length) ==
  Min({k \in 0 .. length + 1 : k > length \/ Cardinality({c \in commas : c <= k}) >= n})

Gather(m, inner) ==
  IF inner = <<>> THEN <<>>
  ELSE LET commas == Commas(m, inner) IN
       [n \in 1 .. Cardinality(commas) + 1 |->
          SubSeq(inner, Behind(commas, n - 1, Len(inner)) + 1, Behind(commas, n, Len(inner)) - 1)]

\* A call that is agreed on.
Agrees(m, args) == Len(args) = m.argc \/ (m.vararg /\ Len(args) >= m.argc - 1)

-----------------------------------------------------------------------------
(* Frames of the stack.                                                    *)

\* macro_expand_inner on a list: done tokens, the rest, whether the list goes
\* on into the rest (linked), whether more rows may be read (look).
Scan(toks, look) ==
  [kind |-> "scan", done |-> <<>>, rest |-> toks, linked |-> TRUE, look |-> look]

\* macro_expand_userdefined on the body of the macro that tk names.
Body(tk, args) ==
  [kind |-> "body", done |-> <<>>, rest |-> macros[tk.s].body, tk |-> tk, args |-> args]

Top == Last(stack)
With(frame) == Append(Front(stack), frame)
Passed(f, tks, rest) == [f EXCEPT !.rest = rest, !.done = IF f.linked THEN @ \o tks ELSE @]

Scanning == phase = "row" /\ Top.kind = "scan" /\ Top.rest # <<>>
Substituting == phase = "row" /\ Top.kind = "body"

Fail ==
  /\ phase' = "failed"
  /\ UNCHANGED <<program, rows, macros, hidden, stack, out>>

-----------------------------------------------------------------------------
(* Rows.                                                                   *)

Init ==
  /\ program \in Programs
  /\ rows = program.rows
  /\ macros = [s \in {"LINE"} |-> Macro(-1, <<>>, FALSE, TRUE, <<Token("num", "7")>>)]
  /\ hidden = <<>> /\ stack = <<>> /\ out = <<>>
  /\ phase = "rows"

\* cpp_process: a text row is expanded with hidden sets of its own.
Row ==
  /\ phase = "rows" /\ rows # <<>> /\ Head(rows).kind = "text"
  /\ rows' = Tail(rows)
  /\ hidden' = <<>>
  /\ stack' = <<Scan(Head(rows).toks, TRUE)>>
  /\ phase' = "row"
  /\ UNCHANGED <<program, macros, out>>

NoRow ==
  /\ phase = "rows" /\ rows = <<>>
  /\ phase' = "done"
  /\ UNCHANGED <<program, rows, macros, hidden, stack, out>>

\* ctrl_define_handler on a definition that has been read.
Allowed(name) == name # "defined" /\ (name \in DOMAIN macros => ~macros[name].builtin)

WellFormed(m) ==
  /\ \A n, k \in DOMAIN m.params : m.params[n] = m.params[k] => n = k
  /\ m.body # <<>> => Head(m.body).t # "##" /\ Last(m.body).t # "##"

\* compare_tokens, on the parameters and on the body.
SameMacro(m, k) == m.params = k.params /\ m.body = k.body

Define ==
  /\ phase = "rows" /\ rows # <<>> /\ Head(rows).kind = "define"
  /\ LET name == Head(rows).name
         m == Head(rows).macro IN
       IF Allowed(name) /\ WellFormed(m) /\ (name \in DOMAIN macros => SameMacro(m, macros[name]))
       THEN /\ macros' = [s \in DOMAIN macros \cup {name} |-> IF s \in DOMAIN macros THEN macros[s] ELSE m]
            /\ rows' = Tail(rows)
            /\ UNCHANGED <<program, hidden, stack, out, phase>>
       ELSE Fail

\* ctrl_undef_handler
Undef ==
  /\ phase = "rows" /\ rows # <<>> /\ Head(rows).kind = "undef"
  /\ LET name == Head(rows).name IN
       IF Allowed(name)
       THEN /\ macros' = [s \in DOMAIN macros \ {name} |-> macros[s]]
            /\ rows' = Tail(rows)
            /\ UNCHANGED <<program, hidden, stack, out, phase>>
       ELSE Fail

-----------------------------------------------------------------------------
(* macro_expand_inner.                                                     *)

\* No macro name, or a hidden one.
PassToken ==
  /\ Scanning
  /\ LET tk == Head(Top.rest) IN
       /\ ~(IsId(tk) /\ tk.s = "defined") /\ ~Expandable(tk)
       /\ stack' = With(Passed(Top, <<tk>>, Tail(Top.rest)))
  /\ UNCHANGED <<program, rows, macros, hidden, out, phase>>

\* defined X, defined (X)
IsDefined ==
  /\ Scanning
  /\ IsId(Head(Top.rest)) /\ Head(Top.rest).s = "defined"
  /\ LET rest == Tail(Top.rest)
         Types == [n \in DOMAIN rest |-> rest[n].t]
         length == IF IsPrefix(<<"id">>, Types) THEN 1
                   ELSE IF IsPrefix(<<"(", "id", ")">>, Types) THEN 3 ELSE 0
         name == rest[(length + 1) \div 2].s
     IN IF length = 0 THEN Fail
        ELSE /\ stack' = With([Top EXCEPT !.rest =
                   <<Token("num", IF name \in DOMAIN macros THEN "1" ELSE "0")>>
                     \o After(rest, length)])
             /\ UNCHANGED <<program, rows, macros, hidden, out, phase>>

\* macro_expand_builtin
Builtin ==
  /\ Scanning
  /\ LET tk == Head(Top.rest) IN
       /\ Expandable(tk) /\ macros[tk.s].builtin
       /\ stack' = With([Top EXCEPT !.rest = macros[tk.s].body \o Tail(@)])
  /\ UNCHANGED <<program, rows, macros, hidden, out, phase>>

ExpandObject ==
  /\ Scanning
  /\ LET tk == Head(Top.rest) IN
       /\ Expandable(tk) /\ ~macros[tk.s].builtin /\ macros[tk.s].argc = -1
       /\ stack' = Append(With([Top EXCEPT !.rest = Tail(@)]), Body(tk, <<>>))
  /\ UNCHANGED <<program, rows, macros, hidden, out, phase>>

CallsMacro(tk) == Expandable(tk) /\ ~macros[tk.s].builtin /\ macros[tk.s].argc >= 0

Opening == FindParen(Tail(Top.rest), rows, Top.look)

\* The list, the call and the arguments are each found once.
ExpandCall ==
  /\ Scanning
  /\ CallsMacro(Head(Top.rest))
  /\ \E p \in {Opening} :
       /\ p.found
       /\ \E c \in {FindClose(p.toks, p.rows, Top.look)} :
          \E args \in {Gather(macros[Head(Top.rest).s], c.inner)} :
            IF c.ok /\ Agrees(macros[Head(Top.rest).s], args)
            THEN /\ stack' = Append(With([Top EXCEPT !.rest = c.toks]), Body(Head(Top.rest), args))
                 /\ rows' = c.rows
                 /\ UNCHANGED <<program, macros, hidden, out, phase>>
            ELSE Fail

\* Mutant: the list is not advanced.
SkipNothing(f, p) == f

\* The name, the line ends and the token after them pass unseen; of a row that
\* was read and is no part of the list, nothing will be written.
SkipName(f, p) ==
  LET after == After(p.toks, 1)
      passed == IF p.apart THEN f.rest ELSE SubSeq(f.rest, 1, Len(f.rest) - Len(after))
  IN [Passed(f, passed, after) EXCEPT !.linked = @ /\ ~p.apart]

\* "not actually a call (no '()'), so don't expanding"
NotACall ==
  /\ Scanning
  /\ CallsMacro(Head(Top.rest))
  /\ \E p \in {Opening} :
       /\ ~p.found
       /\ stack' = With(SkipName(Top, p))
       /\ rows' = p.rows
  /\ UNCHANGED <<program, macros, hidden, out, phase>>

\* The row, or an argument in a body, is expanded.
EndOfList ==
  /\ phase = "row" /\ Top.kind = "scan" /\ Top.rest = <<>>
  /\ IF Len(stack) = 1
     THEN /\ out' = out \o Top.done
          /\ stack' = <<>>
          /\ phase' = "rows"
     ELSE LET body == stack[Len(stack) - 1] IN
          /\ stack' = SubSeq(stack, 1, Len(stack) - 2) \o
               <<[body EXCEPT !.done = @ \o (IF Top.done = <<>> THEN <<None>> ELSE Top.done)]>>
          /\ UNCHANGED <<out, phase>>
  /\ UNCHANGED <<program, rows, macros, hidden>>

-----------------------------------------------------------------------------
(* macro_expand_userdefined.                                               *)

Second(f) == IF Len(f.rest) > 1 THEN f.rest[2] ELSE None
MacroOf(f) == macros[f.tk.s]
ArgOf(f, tk) == f.args[ParamOf(MacroOf(f), tk)]

\* A __VA_ARGS__ without an argument: the assertion of array_element fails.
Missing(f, tk) == ParamOf(MacroOf(f), tk) > Len(f.args)

MakesString(f) == Head(f.rest).t = "#" /\ ParamOf(MacroOf(f), Second(f)) > 0
MakesConcat(f) == Head(f.rest).t = "##"
Copied(f, tk) == [tk EXCEPT !.from = f.tk.from \cup {f.tk.s}]
TakesArg(f) ==
  IsId(Head(f.rest)) /\ Second(f).t # "##" /\ ParamOf(MacroOf(f), Head(f.rest)) > 0

CopyToken ==
  /\ Substituting /\ Top.rest # <<>>
  /\ ~MakesString(Top) /\ ~MakesConcat(Top) /\ ~TakesArg(Top)
  /\ stack' = With([Top EXCEPT !.done = Append(@, Copied(Top, Head(Top.rest))), !.rest = Tail(@)])
  /\ UNCHANGED <<program, rows, macros, hidden, out, phase>>

MakeString ==
  /\ Substituting /\ Top.rest # <<>> /\ MakesString(Top)
  /\ IF Missing(Top, Second(Top)) THEN Fail
     ELSE /\ stack' = With([Top EXCEPT !.done = Append(@, Stringify(ArgOf(Top, Second(Top)))),
                                       !.rest = After(@, 2)])
          /\ UNCHANGED <<program, rows, macros, hidden, out, phase>>

\* An operand of ## that is a parameter stands for its argument, unexpanded;
\* on the left, what an earlier ## has made may be taken for one.
Operand(f, tk) == IF ParamOf(MacroOf(f), tk) > 0 THEN ArgOf(f, tk) ELSE <<tk>>

MakeConcat ==
  /\ Substituting /\ Top.rest # <<>> /\ MakesConcat(Top)
  /\ IF Missing(Top, Last(Top.done)) \/ Missing(Top, Second(Top)) THEN Fail
     ELSE LET made == Concat(Operand(Top, Last(Top.done)), Operand(Top, Copied(Top, Second(Top))),
                             Top.tk.from \cup {Top.tk.s}) IN
          /\ stack' = With([Top EXCEPT !.done = Front(@) \o (IF made = <<>> THEN <<None>> ELSE made),
                                       !.rest = After(@, 2)])
          /\ UNCHANGED <<program, rows, macros, hidden, out, phase>>

ExpandArg ==
  /\ Substituting /\ Top.rest # <<>> /\ TakesArg(Top)
  /\ IF Missing(Top, Head(Top.rest)) THEN Fail
     ELSE /\ stack' = Append(With([Top EXCEPT !.rest = Tail(@)]),
                             Scan(ArgOf(Top, Head(Top.rest)), FALSE))
          /\ UNCHANGED <<program, rows, macros, hidden, out, phase>>

\* "remove none-head TK_NONE"
Cleaned(toks) ==
  IF toks = <<>> THEN toks
  ELSE <<Head(toks)>> \o Without(Tail(toks), "none")

\* "distribute hidden-set": tk's own set, made if it has none, gets the name,
\* and each macro name without a set gets a copy.
OwnSet(tk) == IF tk.h = 0 THEN Append(hidden, {tk.s}) ELSE [hidden EXCEPT ![tk.h] = @ \cup {tk.s}]
OwnId(tk) == IF tk.h = 0 THEN Len(hidden) + 1 ELSE tk.h

\* Mutant: the new sets start empty.
EmptySet(sets, id) == {}

CopiedSet(sets, id) == sets[id]

Wants(tk) == tk.h = 0 /\ Defined(tk)

\* The sets are numbered in the order in which they are made.
Wanting(tks, n) == Cardinality({k \in 1 .. n : Wants(tks[k])})

Distributed(sets, id, tks) ==
  [sets |-> sets \o [k \in 1 .. Wanting(tks, Len(tks)) |-> CopiedSet(sets, id)],
   tks |-> [n \in DOMAIN tks |-> IF Wants(tks[n]) THEN [tks[n] EXCEPT !.h = Len(sets) + Wanting(tks, n)]
                                 ELSE tks[n]]]

\* The replacement takes the place of the call and is scanned again.
Replace ==
  /\ Substituting /\ Top.rest = <<>>
  /\ \E d \in {Distributed(OwnSet(Top.tk), OwnId(Top.tk), Cleaned(Top.done))} :
       /\ hidden' = d.sets
       /\ stack' = SubSeq(stack, 1, Len(stack) - 2)
                    \o <<[stack[Len(stack) - 1] EXCEPT !.rest = d.tks \o @]>>
  /\ UNCHANGED <<program, rows, macros, out, phase>>

Next ==
  \/ Row \/ NoRow \/ Define \/ Undef
  \/ PassToken \/ IsDefined \/ Builtin \/ ExpandObject \/ ExpandCall \/ NotACall \/ EndOfList
  \/ CopyToken \/ MakeString \/ MakeConcat \/ ExpandArg \/ Replace

\* The preprocessor is one loop that nothing holds up.
Spec == Init /\ [][Next]_vars /\ WF_vars(Next)

-----------------------------------------------------------------------------
(* Property.                                                               *)

\* A macro name that is still to be scanned is hidden if it came out of the
\* macro's own replacement, however many other macros' replacements and
\* arguments lie between ("distribute hidden-set").
OwnNameHidden ==
  \A n \in DOMAIN stack : stack[n].kind = "scan" =>
    \A k \in DOMAIN stack[n].rest :
      Defined(stack[n].rest[k]) => stack[n].rest[k].from \subseteq Hidden(stack[n].rest[k])
=============================================================================
