------------------------------- MODULE MCSources -------------------------------
EXTENDS Sources

CONSTANTS main, head, other

R(kind, lines, file, taken, number) ==
  [kind |-> kind, lines |-> lines, file |-> file, taken |-> taken, number |-> number]

\* Text of one line and of two, a skipped group over two lines, an inclusion.
Texts == {R("text", n, NoName, FALSE, 0) : n \in 1 .. 2}
Groups == {R("if", 2, NoName, b, 0) : b \in BOOLEAN} \cup {R("endif", 1, NoName, FALSE, 0)}
Includes(f) == {R("include", 1, f, FALSE, 0)}
Once == {R("once", 1, NoName, FALSE, 0)}
Define == {R("control", 2, NoName, FALSE, 0)}
Others == {R("error", 1, NoName, FALSE, 0), R("pragma", 2, NoName, FALSE, 0)} \cup Includes(NoName)

Files3(mains, heads, others) ==
  {(main :> m) @@ (head :> h) @@ (other :> o) : m \in mains, h \in heads, o \in others}

\* A #line directive with a number that is not above the line it is on.
Lines == {R("line", 1, f, FALSE, 2) : f \in {main, other}}

\* The sequences of at most n of these rows.
Short(rows, n) == UNION {[1 .. k -> rows] : k \in 0 .. n}

\* A file that includes itself and the one that includes it; a file that may be
\* seen once; three files with #line directives, also skipped ones.
MCPrograms ==
  Files3(Short(Texts \cup Groups \cup Includes(head), 3),
         Short(Texts \cup Groups \cup Includes(main) \cup Includes(head), 2), {<<>>})
  \cup Files3(Short(Texts \cup Groups \cup Define \cup Once \cup Includes(head), 4),
              {<<t>> : t \in Texts} \cup {<<o, i>> : o \in Once, i \in Includes(main)}, {<<>>})
  \cup Files3({<<a, g, l, i, b>> : a \in Texts, g \in Groups \cup Texts, l \in Lines,
                                     i \in Includes(head), b \in Texts \cup Groups \cup Others},
              {<<t>> : t \in Texts \cup Others}
              \cup {<<i, l, t>> : i \in Includes(other), l \in Lines, t \in Texts}, {<<t>> : t \in Texts})
=============================================================================
