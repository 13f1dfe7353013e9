------------------------------ MODULE MacroMeaning ----------------------------
(***************************************************************************)
(* What macro expansion has to produce, after the algorithm by Prosser     *)
(* that the README of the compiler refers to: every token carries the set  *)
(* of macros that may not expand it, and there are no rows.                *)
(***************************************************************************)
EXTENDS MacroExpand, TLC

\* A token with its hide set hs.
Marked(tk, hs) == [t |-> tk.t, s |-> tk.s, hs |-> hs]
MarkedAll(tks) == [n \in DOMAIN tks |-> Marked(tks[n], {})]
Placemarker == Marked(None, {})

\* How long the argument list is that starts ts, with its parentheses; 0 if
\* there is none.
ListLength(ts) ==
  IF ts = <<>> \/ ts[1].t # "(" THEN 0
  ELSE LET ends == {n \in DOMAIN ts : Depth(ts, n) = 0}
       IN IF ends = {} THEN 0 ELSE CHOOSE n \in ends : \A k \in ends : n <= k

\* The arguments of a call of m: one for no parameters is none, if it is empty.
Actuals(m, inner) ==
  LET commas == {n \in DOMAIN inner : inner[n].t = "," /\ Depth(inner, n) = 0}
      cuts == SetToSortSeq(commas, <)
      used == IF m.vararg THEN SubSeq(cuts, 1, m.argc - 1) ELSE cuts
      ends == <<0>> \o used \o <<Len(inner) + 1>>
  IN IF m.argc = 0 /\ inner = <<>> THEN <<>>
     ELSE [n \in 1 .. Len(ends) - 1 |-> SubSeq(inner, ends[n] + 1, ends[n + 1] - 1)]

\* An argument as an operand of # or ##.
Raw(arg) == IF arg = <<>> THEN <<Placemarker>> ELSE arg

Paste(l, r) ==
  IF l.t = "none" THEN r ELSE IF r.t = "none" THEN l
  ELSE [t |-> l.t, s |-> l.s \o r.s, hs |-> l.hs \cap r.hs]

RECURSIVE Expand(_, _), Subst(_, _, _, _, _)

\* The body ts of m with arguments aps, after the tokens os.
Subst(table, m, ts, aps, os) ==
  IF ts = <<>> THEN os
  ELSE LET tk == Head(ts)
           next == IF Len(ts) > 1 THEN ts[2] ELSE Placemarker
           At(x) == ParamOf(m, x)
           Beyond(n) == SubSeq(ts, n + 1, Len(ts))
       IN CASE tk.t = "#" /\ At(next) > 0 ->
                 Subst(table, m, Beyond(2), aps, Append(os, Marked(Stringify(aps[At(next)]), {})))
            [] tk.t = "##" ->
                 LET right == IF At(next) > 0 THEN Raw(aps[At(next)]) ELSE <<next>>
                 IN Subst(table, m, Beyond(2), aps,
                          Front(os) \o <<Paste(Last(os), Head(right))>> \o Tail(right))
            [] tk.t \notin {"#", "##"} /\ At(tk) > 0 ->
                 Subst(table, m, Beyond(1), aps,
                       os \o (IF next.t = "##" THEN Raw(aps[At(tk)]) ELSE Expand(table, aps[At(tk)])))
            [] OTHER -> Subst(table, m, Beyond(1), aps, Append(os, tk))

Hide(ts, hs) ==
  [n \in 1 .. Len(SelectSeq(ts, LAMBDA tk : tk.t # "none")) |->
     LET tk == SelectSeq(ts, LAMBDA x : x.t # "none")[n] IN [tk EXCEPT !.hs = @ \cup hs]]

Expand(table, ts) ==
  IF ts = <<>> THEN <<>>
  ELSE LET tk == Head(ts)
           rest == Tail(ts)
           m == table[tk.s]
           length == ListLength(rest)
       IN CASE tk.t # "id" \/ tk.s \notin DOMAIN table \cup {"defined"} \/ tk.s \in tk.hs ->
                 <<tk>> \o Expand(table, rest)
            [] tk.t = "id" /\ tk.s = "defined" ->
                 LET arg == IF rest[1].t = "(" THEN 3 ELSE 1
                     name == rest[(arg + 1) \div 2].s
                 IN <<Marked(Token("num", IF name \in DOMAIN table THEN "1" ELSE "0"), {})>>
                      \o Expand(table, SubSeq(rest, arg + 1, Len(rest)))
            [] tk.t = "id" /\ tk.s \in DOMAIN table \ tk.hs /\ m.argc = -1 ->
                 Expand(table, Hide(Subst(table, m, MarkedAll(m.body), <<>>, <<>>), tk.hs \cup {tk.s})
                                 \o rest)
            [] tk.t = "id" /\ tk.s \in DOMAIN table \ tk.hs /\ m.argc >= 0 /\ length = 0 ->
                 <<tk>> \o Expand(table, rest)
            [] OTHER ->
                 LET aps == Actuals(m, SubSeq(rest, 2, length - 1))
                     hs == (tk.hs \cap rest[length].hs) \cup {tk.s}
                 IN Expand(table, Hide(Subst(table, m, MarkedAll(m.body), aps, <<>>), hs)
                                    \o SubSeq(rest, length + 1, Len(rest)))

Written(tks) ==
  LET seen == SelectSeq(tks, LAMBDA tk : tk.t \notin {"nl", "eof", "none"})
  IN [n \in DOMAIN seen |-> [t |-> seen[n].t, s |-> seen[n].s]]

\* The text up to the next control line is one list of tokens.
RECURSIVE Text(_)
Text(rest) ==
  IF rest = <<>> \/ Head(rest).kind # "text" THEN [toks |-> <<>>, rows |-> rest]
  ELSE LET more == Text(Tail(rest))
       IN [more EXCEPT !.toks = SelectSeq(Head(rest).toks, LAMBDA tk : tk.t \notin {"nl", "eof"}) \o @]

RECURSIVE Meant(_, _)
Meant(rest, table) ==
  IF rest = <<>> THEN <<>>
  ELSE CASE Head(rest).kind = "define" -> Meant(Tail(rest), table @@ (Head(rest).name :> Head(rest).macro))
         [] Head(rest).kind = "undef" ->
              Meant(Tail(rest), [s \in DOMAIN table \ {Head(rest).name} |-> table[s]])
         [] OTHER -> LET text == Text(rest)
                     IN Written(Expand(table, MarkedAll(text.toks))) \o Meant(text.rows, table)

Builtins == [s \in {"LINE"} |-> Macro(-1, <<>>, FALSE, TRUE, <<Token("num", "7")>>)]

-----------------------------------------------------------------------------
(* Properties.                                                             *)

\* The tokens written for a program are those of Prosser's algorithm, though
\* the hidden sets are shared, names get theirs late, and rows and arguments
\* are expanded piece by piece (macro_expand_inner); and it is the programs
\* that are no C that are refused.
AsProsser ==
  /\ phase = "done" => program.valid /\ Written(out) = Meant(program.rows, Builtins)
  /\ phase = "failed" => ~program.valid

\* Expansion comes to an end, for recursive definitions too.
Terminates == <>(phase \in {"done", "failed"})
=============================================================================
