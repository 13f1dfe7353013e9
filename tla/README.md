# A TLA+ model of hcc

hcc is a C99 compiler for 32-bit x86: it preprocesses and compiles one
translation unit at a time and writes MASM source. This directory holds TLA+
modules translated from its source, configurations that check them with TLC, and
theorems about them that TLAPS proves for every value of the constants. The
reference is the code; `README.md:41` of the repository gives C99 as the language
it implements, and there are no tests. Paths below are relative to `src/src/`.

The compiler is one thread. It has no locks, messages or timers, keeps nothing
on disk but its output and stops at the first internal failure. What makes it
hard is of another kind: long sequences of legal calls on shared mutable
structures (stacks of files and of condition blocks, macro tokens that share
hidden sets, symbol tables, code lists rewritten in passes, a pool of nodes, the
frame of a function, the register file) whose meaning depends on facts cached
several calls earlier.

## 1. Inventory

| Part | Source | State | Operations | What makes it correct |
|---|---|---|---|---|
| Character streams | `basic/charstream.c` | file buffer, ring of three characters ahead, line and column | open, current, look ahead, move on | the characters of the file, once each and in order, whatever the sizes of buffer and ring |
| Memory areas | `basic/mm.c` | per area a chain of chunks, free positions | allocate, free the area | live blocks disjoint, aligned, within their chunk |
| Strings, arrays, logging | `basic/hstring.c`, `utils.c`, `logger.c` | the string table, growing arrays | hash, append, pop back | one pointer for one spelling |
| Preprocessor lexer | `libcpp/pplexer.c` | the automaton's state | read token, read row | C99 translation phases 1 to 3 |
| Conditional compilation | `libcpp/ctrl.c`, `cpp.c` | the stack of condition blocks of each source | `#if` ... `#endif`, end of file | groups nest; one branch of each is taken |
| Sources and lines | `libcpp/cpp.c`, `ctrl.c` | the source stack, files seen once, output position | `#include`, `#line`, `#pragma once`, end of file | a file comes back where it was left; line numbers agree |
| Macros | `libcpp/macro.c` | the macro table, hide sets of tokens | define, undefine, expand | no name expands in its own expansion; expansion ends |
| Conditions | `libcpp/eval.c` | operand and operator stacks | evaluate | the value C99 gives the expression |
| C lexer | `libcc/lexer/lexer.c`, `cc.c` | one token ahead, file and line | next, look ahead, expect | tokens keep order and position |
| Symbols | `libcc/parser/symbols.c` | tables by scope level | enter, leave, install, look up, relocate | the innermost visible declaration is found |
| Types | `libcc/parser/types.c` | the type table | make, qualify, compose, lay out | sizes, offsets, compatibility |
| Parser | `libcc/parser/parser.c`, `expr.c`, `stmt.c`, `init.c` | the function being compiled, its code list | one function for each production | the tree means what the source means |
| IR and basic blocks | `libcc/ir/ir.c`, `canon.c` | code list, blocks, reachability | linearise, simplify, build and erase blocks | the same paths, no dead code |
| DAG | `libcc/ir/dag.c` | a pool of nodes, hashed | find or make a node, forget on stores, calls, labels | a node that is found again has the same value |
| Instruction selection | `libcc/gen/x86/gencode_x86.c` | triples, operands | one handler for each triple code | each code reads and leaves what its triple means |
| Register file | `libcc/gen/x86/reg_x86.c` | descriptors, users, cached last references | associate, spill, free, allocate | a wanted value is never lost nor read from a wrong place |
| Frame | `gencode_x86.c` (`block_enter` ... `alloc_temporary_space`) | list of local uses, current and largest extent | enter, leave, declare, allocate | live places are disjoint and reserved |
| Output | `libcc/output.c`, `gen/x86/backend_x86.c`, `gen/assem.c`, `gen/backend.c` | none to speak of | directives, names, data | formatting, and the bytes of initialisers |
| Tools | `tools/hcc`, `tools/hcpp` | options | `main` | none to speak of |

How they interact. The preprocessor reads rows of tokens from the file on top of
its stack, hands directives to `ctrl.c`, expands the others with `macro.c` (which
may read further rows for the arguments of a call), and writes lines of text. The
compiler never sees the files: it learns from blank lines and `#line` directives
which line of which file it is reading, so the two must count alike. The parser
pulls tokens through `cc_read_token`, installs and looks up symbols, and leaves a
code list for each function. `canon.c` makes the list linear and cuts it into
blocks, `dag.c` hangs DAG nodes on it, `gencode_x86.c` turns those into triples
and marks for each node the last triple that uses it (`_lastref`), then
translates triple after triple. A handler calls the register file, which spills
through `emit_store_r2staticmem` into places of the frame, and the frame decides
from the same `_lastref` which places are free again. All three share the nodes'
`_x` records: who holds a value is written down in the node, in the register's
list of users and in the frame's list of places, and the three have to agree
after every triple. At the end of the file `backend.c` walks the symbols once
more and writes the data, and which names are public and which imported.

The behaviours that are hard to test, by part:

- Preprocessor: groups nested in groups that are skipped; files that include one
  another and themselves; rows that span lines, after which the count of lines
  must still be right; macros that come back to themselves through arguments,
  `##` and other macros.
- Parser: one name declared in the file, in blocks and as a parameter, in all
  orders; symbols that outlive the memory of the function that made them;
  initializers with braces left out, walked by three functions that must agree.
- Code lists: jumps into and out of loops and switches, blocks erased whose scope
  markers are kept, labels whose counts of jumps fall to nothing.
- Back end: a node found again in the pool after a store; orders of triples that
  use up registers; values whose last use is in the triple being translated (every
  comparison with `_lastref` is a boundary); pairs of registers of which one half
  is taken; blocks left while a temporary in them is still wanted.

`hazards` in `PROJECT.json` lists these and the others at their lines, with the
property that would catch each one.

## 2. Modules

| Module | Models | Role |
|---|---|---|
| `CondGroups` | | abstract: what conditional compilation promises |
| `CondStack` | the handlers of `#if` ... `#endif` in `ctrl.c`, the rows and ends of `cpp_process` | state machine, implements `CondGroups` |
| `CondProofs` | | its invariants and the implementation, proved |
| `Sources` | `cpp_process`, `#include`, `#line`, `#pragma`, `#error`; `cc_read_token_with_handlectrl1` of the compiler | state machine |
| `SourcesProofs` | | its invariants, proved |
| `MacroExpand` | `macro.c`, `#define`, `#undef` | state machine |
| `MacroProofs` | | its invariant and what it implies, proved |
| `MacroMeaning` | Prosser's algorithm, which `src/README.md:9` names | definition by recursion, and the properties that compare |
| `Scopes` | | abstract: what a name denotes |
| `Linkage` | `symbols.c`, the declarations of `parser.c`, the directives of `backend.c` | state machine, implements `Scopes` |
| `LinkageProofs` | | its invariant and the implementation, proved |
| `TypeLayout` | sizes and alignments (`types.c`, `cc.c:31`), one round of the loop of `cc_parser_structfields` | operators |
| `StructFields` | that loop, and what refuses a field | state machine, a step for each round |
| `StructProofs` | | its invariant and what it implies, proved |
| `VarInit` | `init.c`, `doinit_*` of `backend.c` | state machine after that of `StructFields`, operators for the walks |
| `IRCode` | the codes of `ir.h` and how `ir.c` makes them | operators, used by the three below and by `Canon` |
| `StmtCode` | `stmt.c`, the conditions of `expr.c`, `cc_canon_expr_linearize` | operators from statements to codes |
| `StmtMeaning` | | what statements and codes do: two interpreters |
| `Canon` | `canon.c` from the first simplification to `cc_canon_check_return` | state machine over code lists |
| `CanonMeaning` | | the properties that compare code and statements |
| `CanonProofs` | | the invariant of `Canon` and what it implies, proved |
| `DagPool` | `dag.c`, `munch_expr` and `munch_stmt` | state machine beside the trees' meaning |
| `RegX86` | `reg_x86.c` | operators from context to context, invariants |
| `GenX86` | the handlers of `cc_gen_triple_to_x86`, operand formation, what `cc_output_asmcodes` makes them read and write | state machine over `RegX86` |
| `GenProofs` | | the invariant of both and what it implies, proved |
| `Frame` | `block_enter`, `block_leave`, `local_variable`, `alloc_temporary_space`, `util_roundup` | state machine |
| `FrameProofs` | | its invariants, proved |
| `MC...` | | instances for TLC: the inputs each run enumerates |

Operators called mutants in a module (each is headed *Mutant:*) are no part of
the model: they are wrong versions of the operator after them, and each property
of each passing run is shown to fail when one replaces its original. Where a
module has `RECURSIVE` operators it is one that only TLC evaluates.

### CondStack and CondGroups

`condstack` is `top->_condstack`. A block has its kind and the two bits of
`_flags`. A condition comes to `true`, `false`, `empty` or `bad` (does not
evaluate); the code's checks for the first are made before, for the second after
the walk over sibling blocks, and the model keeps that order. The rows of other
directives and of text are one action: all they do here is to be kept or
skipped. `#include` starts a new source with a stack of its own, so one source
file is the right scope.

`CondGroups` has no blocks. A group knows whether it is enclosed in kept lines,
whether its branch is being sought, is being taken or has been taken, and whether
`#else` has been seen. `CondStack` implements it: every `#if` block is a group
and the blocks up to the next `#if` are its branches.

### Sources

`stack` is `_sourcestack` with the stream of each file: `file` is `_srcfilename` of
the context, which stays, `name` that of the stream, which `#line` changes, `line`
the stream's line, `groups` whether the open `#if` groups pass (`CondStack` has how
that is decided, `#elif` and `#else` included). `onces` is `_pragma_onces`. A row is
a logical line with the number of physical lines it takes; a file's last line ends
with a newline, and a header that is not found is the file `NoName`.

The order in the loop of `cpp_process` matters and is kept. The row is read first,
which moves the stream's line; then the handler runs, which may push a file or
change the line; then blank lines are written for what the row took and its
handler did not write. So an `#include` writes the new file's `#line` before the
blank lines of its own row (`IncludeOutput`), and `#line` changes the very
number the loop subtracts from (`Line`).

`output` is the text that is written, a line for an item: text with the place it
came from, a blank, or `#line`. `Seen` is what the compiler makes of it, by the code
of `cc.c`: the last `#line` directive above gives the name and the number to count
from. `LinesAgree` compares that with `Place`, which counts in the file alone, row
after row (`Counted`, by `Count` of each).

### MacroExpand and MacroMeaning

`rows` are those still to be read; `macros` is the table; `hidden` are the
`_hidden_sets`, which tokens refer to by number, as the code does by pointer: a
copy of a token refers to the same set. `stack` unfolds the recursion of
`macro_expand_inner`: a `scan` frame is a list on its way through the loop, a
`body` frame the body of a macro in which parameters are replaced, with
the argument lists that `macro_gather_args` has cut from the row, or from the
following rows. Its three loops are each one expression: where the parenthesis is
found (`FindParen`), where its end is (`FindClose`, over the rows that may be read,
`Following`, joined into one list), and which commas end an argument (`Gather`).
Each action is one round of a loop: a token that passes, a call, a
`#`, a `##`, an argument that is expanded on its own, and the end of a replacement
where names get hidden sets (`Distributed`) and the list goes back to be scanned.
`from` is a history field: the macros whose replacement a token was in; it is set
where a token is copied from a body or pasted, and never lost.

A token pasted by `##` and lexed again is one token. Predefined macros are
one, `LINE`. `MacroMeaning` is the published algorithm: every token carries its own
hide set, calls take the intersection of the name's and the parenthesis's.

### Linkage and Scopes

`level` is `gCurrentLevel`; `chain` the tables from `gGlobals` to `gIdentifiers`, in
which a level without declarations has no table; `externals` is `gExternals`; `all` is
the list of file symbols that `cc_symbol_foreach` walks. `symbols` are the records,
with `area` telling whether a symbol was allocated in the permanent or the
temporary area, or was freed with it. `function` says how far
`cc_parser_funcdefinition` is. Two variables are history: `linkage`, what C
says of each name of the file, and `declared`, which family of declarations the
program is written from; `code` collects the symbols the code refers to by name.

Parsing is one action for each declaration, scope and use, in any order the
grammar allows. `EndOfFile` writes the directives: `Defines`, `Imports` and `Exports`
are what `cc_gen_dumpsymbols` puts out. Programs do not use the name of a type as
a value. The tables of tags, labels and constants are left out, as is
everything about types but whether two are the same.

`Scopes` has a stack of functions from names to things, in which all levels are
there, and `denotes`, what a use of each name means now. `Linkage` implements it:
a symbol of the file stands for its name, a symbol of a block's `extern` for the name
of its alias, and the scopes are the tables by level. As `denotes` is mapped to what
`cc_symbol_lookup` finds, the refinement covers the look-ups too.

### TypeLayout, StructFields

`cc_parser_structfields` reads the fields first and places them then. `declared` are
the fields as read; `laid` is what the loop keeps from one to the next: the fields
with their offsets, `offset`, `bitsmax`, `bitsused`, the size of `prevfield` and the size
and alignment so far. `Place` is a round of the loop (`PlaceField`, which `Aggregate`
repeats for the types of `VarInit`), `Refuse` its early return, `Finish` the padding.
What the parser has checked of a field before is in `DeclarationsAssumption`, with what
the metrics of `cc.c:31` say of sizes and alignments. They are small powers of two,
so that the mask of `util_roundup` is a division; sizes beyond an `int` are left out.

### VarInit

The module extends `StructFields`: a structure is declared, and a variable with an
initializer may follow, whose type can be that structure, hold it, or be an array of it.
`object` has its type, what the source says of it with all braces (`full`), and how
it is written (`init`). The stages are those of the code:
the check (`cc_varinit_check`, which also gives its size to an array without
one), and then either walk: the codes for a local variable, on memory with
anything in it, or the data of a static one. `bytes` is the result of either.

### IRCode, StmtCode, StmtMeaning, Canon, CanonMeaning

A label and a temporary are named by their place in the syntax tree, so the
builders are operators. The conditions are trees (`COND`, `LOGAND`, `LOGOR`, `NOT`,
`SEQ`, assignments) as `expr.c` builds and `canon.c` linearizes them; arithmetic is not:
what an expression does is to be zero or not, from a comparison `a`, a call `f` or a
variable `v`. `Canon` takes any functions (`Bodies`) and the list that the parser makes
of each (`CodesOf`), and knows nothing of the trees in the codes but which are
constants, so that its theorems are about every list that `CanonAssumption` allows:
blocks nest and a label is in one place, as `cc_stmt_compound`, `cc_stmt_label` and
`cc_symbol_label` make it. `MCCanon` gives it the lists `StmtCode` makes, and TLC
evaluates the assumption for each. `Canon` has one action for each pass:
`Simplify` (one call of `cc_canon_codelist_simplify_inner`), `GenBasicBlocks`,
`EraseDeadBlocks`, `JoinBlocks`, `CheckReturn`, in the order of `cc_canon_uber`.
`StmtMeaning` runs statements, and code lists, on every sequence of outcomes;
`CanonMeaning` says that these runs agree in every phase of `Canon`.

### DagPool

`dag` holds the nodes, which of them the pool would find, and the node of each tree
that several codes have in common (`_dagnode`). Memory is five cells of small
numbers and an address is a cell. Every step appends a code: its trees become
nodes (`TranslateExpr`), the triples for nodes not yet computed run on the
machine's memory (`mem`, `value`), and the same trees run on memory of their own
(`meaning`). A call may store into any cell; a label forgets the pool and, since
another path may lead to it, changes a cell on both sides.

### RegX86 and GenX86

A context (`gen`) has two halves. One is the compiler's: users and cached last
reference of each register, `_isusing`, and the locations in the nodes. The
other is the machine the emitted code will run on: the contents of registers and
of memory at this point of the code. A content is the set of values it equals.
The handlers of `GenX86` update both: where the code emits an instruction, the
model checks that each operand holds the value of its node (`Read`) and writes
the result (`Produce`, `SetReg`, `Clobber`). So a property like `OperandsHold`
compares what the compiler believes with what its output does.

A function is a set of triples, of which each step translates any that is
possible: its operands have been computed, its result has not, and every node
whose last use is this triple is used by it. This covers the orders
`munch_expr` and `munch_stmt` produce, and others. Last uses are chosen for
variables in `Init`, for a value when it is made. The DAG's nodes outlive a
conditional jump and end at a label (`dag.c:291`).

Abstracted: scaled-index addresses, the text of instructions, which jump or
comparison it is, how memory changes when a pointer or variable is written
(`DagPool` has the new nodes that are made after such a store), and that two
places of memory do not overlap, which `Frame` shows.

### Frame

`localuses`, `curlocalbytes` and `maxlocalbytes` are the fields of
`FCCGenCodeContext`; `inmemory` and `slot` are `_x._inmemory` and the negated
offset of each node; `lastref` is chosen at the start and never changes, as
`mark_lastref` has run for all triples before the first is translated. `locals`
is a history variable: the variables in scope with their places.
The loop of `block_leave` becomes: the index it breaks at (`IsStop`), the block
entries it looks at on the way (`Reopened`) and how many times it calls
`array_popback`, which always removes the last entry, not the one looked at
(`Popped`). `AllocTemporarySpace` is allowed for any value with `lastref >= seqid`
and no place: `cc_reg_spill` asserts `>`, and the two extra calls (float spills,
intermediates) are inside. A triple that opens or closes a block or declares a
variable uses no value (`Silent`).

## 3. Runs

Fairness is weak fairness of `Next`, stated in `MacroExpand` and `Sources` only: the
preprocessor is one loop in one thread, which nothing holds up, so a step that
is possible is taken. With it, `Terminates` and `Ends` say that the loop has a last
round: that recursive macros and files that include themselves are left in the
end. The other modules state no fairness and no liveness: their loops are over
finite lists. Deadlock is not checked, since rows, triples and passes end.

| Run | Bounds | Shows |
|---|---|---|
| `MCCondStack` | seven blocks | one branch of each group, and the implementation of `CondGroups` |
| `MCSources` | three files of up to five rows | lines agree, files seen once, preprocessing ends |
| `MCMacro` | macros `A`, `B`, `f(x)`, `g(x, y)` with five, three, eight and four bodies, nine texts; programs of other forms, right and wrong | the tokens are those of Prosser's algorithm; expansion ends |
| `MCLinkage` | six symbols, blocks two deep, four families of declarations | names mean the innermost declaration; nothing freed is reached; the assembler finds each name |
| `MCVarInit` | structures and unions of up to four fields of nine kinds: 14,760; thirteen types, 1,261 initializers: every number of values, every way to leave out braces | fields are aligned, inside, apart, the padding is right; all three walks agree with what is written |
| `MCCanon` | 250 functions of up to three nested constructs; two events and five turns of loops | the code does what the statements mean; blocks nest |
| `MCDagPool` | four codes of seventeen, calls, labels and zeroing among them | shared nodes have the right value |
| `MCIntegers` | 32 bits: arithmetic (4 triples), division (5), calls and stores (4) | all register invariants, no assertion fails |
| `MCWide` | 64-bit pairs (4 triples) and their comparisons (5), floats (5), pointers and structures (4), pointers until registers run out (5) | pairs are taken and given back as one; ST0 is shared; string instructions; eviction, spill, reload |
| `MCFrame` | three values (4, 8 and 4 bytes), variables of 1 and 8 bytes, five triples, two levels | places are disjoint, reserved, stable; leaving a block gives back what it took |

Why these bounds are enough to be of use.

- `MCCondStack`: seven blocks hold three nested groups, one with `#elif` and
  `#else`, and all four ways a condition can come out are tried for each of them.
- `MCSources`: rows of one and of two lines, groups that are kept, skipped and left
  open, in every order up to three or four rows, in files that include
  themselves, each other, and again after `#pragma once`. A file may be open
  twice by the code's own rule, so three files make a stack of six: the bound
  `MaxOpen` of seven is never met.
- `MCMacro`: any two of the four macros may call each other, each itself, in bodies,
  in arguments and across arguments; rows end within a call and before its
  parenthesis.
- `MCLinkage`: a family is the declarations of one or two names and a function to put
  blocks in: an object that blocks declare `extern` and the file defines; one with
  every storage class, a parameter and block objects; functions declared, defined,
  static and omitted inline ones; a type hidden by objects and other types. Six
  symbols let a name be declared in the file, in a block and in the block
  within, and again after the function, whose temporary symbols are freed.
- `MCVarInit`, structures: a bit-field can begin a unit, go on in it, fill it, not fit in what is left,
  follow one of another size, and be followed by a plain field. What a round does
  depends on the last field and on sums, so four fields show each pair in
  front of and behind another field; the theorems know no number of fields.
- `MCVarInit`, initializers: nestings of structures, arrays, strings, unions and bit-fields to
  depth three; the initializer may stop anywhere, or have one value too many.
- `MCCanon`: each loop and `switch` with each way to leave it, jumps into loops and out
  of nested blocks; the oracle gives every sequence of outcomes for the inputs.
  Two events tell apart traces in which codes were lost, swapped or repeated.
- `MCDagPool`: four codes are a load, two stores between, and a second load, which is
  what it takes to find a node again wrongly by name, through a pointer, after a
  call or after a pointer was changed. Seven nodes let the pool overflow.
- `MCIntegers`, `MCWide`: four or five triples with values that may live to the end fill
  EAX to EDX, which is all `NormalRegs` has, and with pairs or pointers all six;
  each handler meets operands in registers, in memory, in both, dying and
  living. What longer functions could add is a state of the register file that
  these do not reach.
- `MCFrame`: two sizes make `Fits` refuse and accept; with two levels a temporary of
  the inner block can outlive it, and five triples let a slot be made, reused,
  released and allocated again. The theorems of section 4 know
  no such limits.

The properties, by the question they answer:

- *What a row means.* `OneBranch`, `AllTaken`, `ElseLast`, `RefinesGroups`: which rows
  are kept. `AsProsser`, `OwnNameHidden`: what a row becomes. `Terminates`, `Ends`.
- *Where a row is.* `LinesAgree`, through inclusions, skipped groups and rows of many
  lines; `OnceOnly`.
- *What a name means.* `RefinesScopes`: the innermost declaration in scope. `Kept`: no
  table leads to freed memory. `NamesResolved`: every name in the code is defined
  once or imported, and public exactly if it has external linkage.
- *What a declaration and a statement mean.* `FieldsWithin`, `FieldsApart`,
  `UnitAligned` (an assertion of the parser); `AcceptedExactly`, with the size an array
  gets, and `PartsInitialized`; `SameBehaviour` of code and statements,
  `BlocksNest`, `FallsOffSeen` (a path without a return is noticed), and `Shrinks`,
  which says that each simplification makes the list smaller, or that the loop
  that repeats it ends.
- *What may be shared.* `SharedRight`, `PoolFresh`.
- *Who holds what.* `UsersMatch`: a register's list of users, its cached last
  reference and the nodes' own locations agree. `PartsApart`: the words of a
  pair are in two registers. `ValuesKept`: a wanted value is in the registers and
  in the memory its node names. `NothingLost`: it is in one of the two.
  `OperandsHold`: no emitted code reads an operand that is not what its triple
  means. `NothingSetAside`: `_isusing` is clear between triples.
  `NoAssertionFails`: no `assert` of either file fails. `WideHolds` is the conjunction of
  `ValuesKept`, `OperandsHold` and `NoAssertionFails` that `MCWide` checks.
- *The frame.* `NoOverlap`, `FrameReserved`, `SlotStable`, `LeaveReclaims`.

Two more runs (`MCBad...`) each find one violation; see section 5.

## 4. Proofs

`FrameProofs`, from `FrameAssumption` (sizes of values are positive; any number
of values, any sizes, any length and nesting):

- `Inductive`: `IInv` holds always. `NoOverlap` is not inductive, as it speaks of
  wanted values and of their own places and not of how `block_leave` decides. `IInv`
  says that `localuses` lists places downwards (`Ordered`) and none beyond
  `curlocalbytes` (`Within`); that each wanted value in memory has the entry that
  names it, with its depth and enough size (`Owned`), and that no entry names a
  value without a place (`Resident`); that variables are apart from entries and
  from one another (`VarsApart`); and that each open block still has its entry,
  deeper blocks behind it and outer variables above its offset (`Nested`). The
  hard step is `BlockLeave`. `BlockLeaveLeaves` shows that its many calls of
  `array_popback` leave a prefix of the list: either the one before the block's
  own entry, or one that ends at or after the temporary that still is wanted.
- `TypeCorrect`, `FrameSafe` (`NoOverlap`), `PrologueSuffices`
  (`FrameReserved`), `SlotsStable` (`SlotStable`) and `BlocksReclaimed`
  (`LeaveReclaims`: a block that no wanted value outlives gives back all that was
  allocated since it was entered), all from `IInv`.

`CondProofs`, for stacks of any height (`MaxBlocksAssumption`):

- `CondInductive`: `CInv` holds always. It adds to the checked invariants that
  the blocks of a group agree on the parent flag (`SameParent`), that a block
  without it is inside groups in their taken branch (`OuterTaken`), and that a
  block is skipped for one reason (`OneReason`). `OuterTaken` is the fact the
  code relies on when it looks at the top block alone.
- `CondTypeCorrect`, `CondOneBranch`, `CondAllTaken`, `CondElseLast`.
- `CondRefinement`: `CondStack` implements `CondGroups`. A push of `#if` opens a
  group (`OpenerGroup`), a push of `#elif` or `#else` changes the innermost one
  and no other (`SiblingGroup`), the pops of `#endif` close it (`EndifGroup`),
  and the groups keep lines exactly when the top block does (`MappedFact`).

`SourcesProofs`, for files with any rows, however they include each other:

- `SourcesInductive`: `SInv` holds always. A reading of a file is past `#pragma once`
  (`Past`) when it has read one that no group can skip. Such a file is remembered
  and has one such reading on the stack (`Remembered`); text from below the pragma
  is in the output only for readings that are left or have gone past it
  (`Passed`), and no line of it is there twice (`Distinct`). `Ungrouped` is the link
  to the groups: above a file's first `#if` none is open.
- `PutOutOnce` (`OnceOnly`), from the last two.
- `LinesKept` (`LinesAgree`): what the code knows of each open file is what its rows
  count to (`Matches`), and the count at the end of the output is that of the file
  on top (`CountsTo`). It is proved for files that keep to `LinesTame`: an `#include`
  that is obeyed is on one line, a `#line` gives a name and a number that is not
  above the next line's. For other files it is false: `ctrl.c:469` and `ctrl.c:557`
  in section 5 are the counterexamples. `Counted` is a recursive function; what the
  proof uses of it is its first value and its step (`CountedFact`).

`MacroProofs`, from `MacroAssumption` (what is read are tokens without hidden sets
and definitions of them; any rows, macros and depth):

- `MacroInductive`: `MInv` holds always. On the stack lists and bodies alternate. In
  a list every token that names a macro is hidden by all macros it came from
  (`Good`). In a body that does not hold yet: a token that is copied or pasted has no
  hidden set, but came from no other macros than the body's own name came from, and
  that name (`Made`). `Replace` turns the one into the other, since the set it
  distributes has exactly these (`OwnFact`, `DistributedFact`), and later additions
  to shared sets only make them larger (`Grown`, `SoundGrows`). The set of spellings
  grows with `#` and `##`, hence the quantifier over `S`. The invariant also says
  what the code relies on without a check: `##` has an operand on its left, and
  every hidden set that a token refers to exists.
- `NamesHidden` (`OwnNameHidden`). Writing this proof showed that the model had
  taken `from` away from the left operand of a second `##`; it does not now.

`LinkageProofs`, for any identifiers, types and declarations, any nesting:

- `LinkageInductive`: `LInv` holds always. It speaks of the chain by levels
  (`TableOf`), as a level without declarations has no table: levels in the chain
  increase and none is above `level` (`Chained`); a table lists symbols of its
  level, permanent in the file's and temporary in others (`Listed`); aliases and
  externals lead to permanent symbols of the file (`Aliased`, `Imported`).
- `NothingFreed` (`Kept`): the temporary area goes when only the file's table is left.
- `LinkageRefinement` (`RefinesScopes`): `Linkage` implements `Scopes`, if typedefs are
  declared as C has it (`TypedefsLegal`, 6.7p3). The hypothesis is needed since
  `parser.c:133` compares only the types and accepts a typedef for the name of an
  object. `NamesResolved` stays with TLC: for arbitrary programs it is false, by
  the defects of section 5, and its families of programs are what avoids them.

`StructProofs`, for any number of fields, of any sizes and widths of bits, from
`DeclarationsAssumption`:

- `StructInductive`: `StructInv` holds always. Beside what the properties say of the
  fields placed so far, it says that a unit of bits is that of the last field
  (`UnitOfLast`), that the alignment is the one of some field and a multiple of
  that of each (`AlignOfOne`), and, if bit-fields side by side have units of one
  size, that no field has a bit beyond the first free one (`InOrder`). Each way to
  place a field has a lemma (`PlainPut`, `ReusePut`, `NewPut`) with the same conclusion,
  `Put`, from which the invariant follows once (`RoundSound`).
- `StructTypeCorrect`, `StructFieldsWithin`, `StructFieldsApart` and `StructUnitAligned`,
  from `StructInv`. The hypothesis `OneUnitSize` of `FieldsApart` is
  the defect of `parser.c:1734`; without it TLC finds two fields that overlap.

`CanonProofs`, from `CanonAssumption`, for lists of any length:

- `Invariant`: `IInv` holds always: codes are well formed and in the list or in the
  blocks but not in both (`InOnePlace`), what is left of blocks nests, and every
  label is at one code. `Shrinks` needs the last. A round that shortens no jump
  may still redirect some, and it is then that a label goes: the one they went to
  is left without a jump, since no other label is redirected to it. With a label
  in two places that would be false.
- Each pass makes its list *tidier* (`Tidier`): wherever the old codes lead from one
  depth to another without going below 0 the new ones do, and no label is in
  more places. That is closed under putting lists one behind the other
  (`TidierJoined`), and so is the other measure, the sum of weights (`LighterJoined`); so
  a pass is judged code by code (`Fits`), and a block of the basic blocks apart from
  the others. Nesting is `Path`, a function from places to depths: such functions
  can be cut and joined (`PathSplit`, `PathConcat`), which sums cannot.
- `BlocksStayNested` (`BlocksNest`). Erasing a dead block keeps its `BLKBEG` and
  `BLKEND`, which is all the proof needs of it: which blocks are dead does not matter.
- `RoundsShrink` (`Shrinks`): the loop of `cc_canon_codelist_simplify` ends.

Sums, joined lists and the cut into blocks are recursive functions; `Recursion` shows
that such a function exists, and `Steps` is the induction over naturals that the
library's theorem cannot be instantiated for.

`GenProofs`, from `GenAssumption` and `TripleAssumption` (kinds of nodes are disjoint; a
64-bit node has two words, others one; pointers are words; what each triple code
computes and of which type), for any functions, any nodes and last uses, with
spills and evictions wherever they come:

- `Invariant`: `IInv` holds always. Beside the properties below it says that every
  pointer is wanted as long as what is read through it (`KidsOutlive`, without which
  an operand of the form `[register]` could lose its base), that variables have a
  place in memory (`VarsHome`), that a node is in a register when it says so
  (`Located`), and that only EAX and EDX are ever set aside, so that one of the other
  registers can be had. Each operation of the register file has one lemma that
  says what it does to the contexts it is given (`Emits`, `Stores`, `Places`); the
  lemma of a handler is the composition of these, and there is one per handler.
- `Types` (`TypeOK`), `NothingIsLost` (`NothingLost`), `MarksGivenBack` (`NothingSetAside`).
- `UsersAgree`: `UsersMatch` for functions that are `Plain`. All nodes are words. Shift
  counts are constants which no triple of the function has in a register, and no
  comparison reads its right operand through its left one. Words, because
  `cc_reg_make_unassociated` drops every user before the one that it removes
  (`reg_x86.c:286`) and a pair's second register is taken off that way; TLC finds
  `UsersMatch` true of the functions of `MCWide` too, but for pairs it is not proved. The
  other two because a count moved to ECX (`gencode_x86.c:1500`), and a left operand
  that is loaded for a comparison after the right one was read through it, are given
  a register without giving up the one they may have. The functions of `MCIntegers`
  are `Plain`. `Fresh` and `CountsHome` are what the induction adds: a value not
  yet computed has no register and no place in memory, and a shift count has no
  register.
- `WantedStays`: `ValuesKept` for functions that are `Tame`, those of `MCIntegers` among
  them. They are `Plain`, have no floats and read nothing through pointers; and one
  that divides converts nothing, and a dividend is there used for the last time
  or never in a register, which is what `gencode_x86.c:1578` needs. The
  induction (`Steady`) says of every wanted value that the register and the place
  its node names hold it. That would do for functions without divisions. In those
  that convert nothing it says too that no two wanted values share a register, as
  a conversion's result and its operand may, and that no dividend that is used
  again is in EAX (`AloneFrom`, `Away`), so that a division, which replaces EAX and
  EDX, replaces no wanted value that was not saved. Nothing is assumed of how
  many values are wanted at a time.
- `NothingStops`: `NoAssertionFails` for functions that are `Simple`, again those of
  `MCIntegers` among them: `Tame`, without structures, and none that both stores
  and converts. `Steady` carries it along, since what a handler asserts follows from
  the other parts: an operand is at hand (`Present`, `AtHandFact`), a register can be
  had (`ChoiceFact`), and the users of a register that is freed are in it and in its
  list once (`FreeUsersPasses`), so that `cc_reg_spill` meets only what it asks for. The
  store (`StoreFinds`) looks up its right operand after it may have freed a register
  for the address of the left one: a value that is used here for the last time keeps its register,
  because it shares it with no wanted value (`AloneFrom`) and of the six registers
  another is a better choice (`ChoiceSpares`). With a conversion that is false: the
  defect at `:1969`.

Only model-checked, and why:

- `PartsApart`, `OperandsHold` and `WideHolds`, and `ValuesKept` and `NoAssertionFails` for
  functions that are not `Tame` or not `Simple`. For arbitrary functions they are
  false, by the defects of section 5: `:1287` gives both words of a sum the same
  register, `:1283` takes away a register that an operand names, `:1321`, `:859` and
  `:1969` fail. Whether a function meets them depends on which registers are free
  when a handler runs and not on the function alone: a hypothesis on `Triples`
  excludes more than just these, and the runs exclude them by keeping functions
  short. `:1283` can come up in functions of integers too, so `Simple` does not
  help `OperandsHold`.
- `SameBehaviour`, `FallsOffSeen`, `AsProsser`, `PartsInitialized`, `AcceptedExactly`, `PoolFresh`
  and `SharedRight`. They compare the code with a recursive definition of what C
  says, by induction over programs or trees, which is beyond these provers.
- `NamesResolved`, for the reason above.
- `Terminates` and `Ends`: liveness, and whatever rests on `ENABLED`.

## 5. Defects

Modelling met places where the code does not do what it, or a comment in it,
says. Two have a run, on a small program that shows it, and are in `findings`:

| Run | Where | What happens |
|---|---|---|
| `MCBadPaint` | `libcpp/macro.c:861` | an argument that is used twice: its copies share one hidden set, so a name hidden while the first is expanded is not expanded in the second; the algorithm the README names gives each token its own |
| `MCBadStatic` | `libcc/parser/parser.c:1147` | `static int x = 1;` in a block: `_defined` is set through the union that holds the initializer by then, so `x` is put out as zeros |

The others are visible in the modules, or were met while reading, and have no run.
Assertions matter in debug builds; in release builds (`NDEBUG`, `premake5.lua:20`)
the code goes on with the state the assertion was to exclude.

Instruction selection (`gencode_x86.c`). `GenX86` has these cases as the code has
them; the functions of the runs leave them out, as the last paragraph of this
part says.

- `:1321`: `a - v`, v a float in ST0 that dies here: v is spilled all the same,
  against the assertion `reg_x86.c:162`.
- `:859`: an address computed by an addition is spilled and then read through; the
  helper asserts that it was itself read from memory.
- `:1577`: `a / (b + k)`: the divisor is in EAX, which is loaded with the dividend.
- `:1578`: a dividend that already is in EAX and is used again after the division is
  not saved before EAX becomes the quotient.
- `:1287`: `a + b` of 64 bits, `a` in memory: both words of the result get the same
  register.
- `:1283`: the register for the left operand is allocated when the right one has
  already been turned into a register name; if the allocation takes that very
  register, the instruction reads the wrong value. It takes five triples, or
  three with 64-bit comparisons (`:1787`).
- `:1500`: a shift count outside ECX is to be moved into ECX; the emitted code moves
  ECX into the count.
- `:1926`: a float made of an 8- or 16-bit value: the last code stores into the
  intermediate register, the result's place is never written.
- `:1969`: `*p = v`, p in memory and v used here for the last time: a register for p
  is allocated before v is looked up. If all six are taken, and v shares its
  register with an equal value (made by a conversion of the same size) that is
  wanted later than all others, v is dropped with that register and not saved, and
  the lookup finds nothing: compilation stops.
- `:2014`: a structure is passed by value: the code emitted for it fails an
  assertion when written out (`:3391`).
- `:2327`: a 64-bit difference of registers subtracts the high words and adds the
  low ones.
- `:2574`: a float compared with a float in a register: `fcom` is written with the
  register as an address.
- `:3148`, `:3154`: a float that is converted to an integer is popped from ST0 even
  if it is used again; the conversion to `long long` stores one dword and loads two.
- `:3292`: `fld` pushes on the x87 stack, nothing pops it; the ninth fails.
- `reg_x86.c:162`: a value computed before a branch and used after it, as in
  `f() + (c ? g() : 2)`, is spilled by the branch that needs its register; the
  other branch comes to the use with nothing in its place.

In `MCGenX86`: conversions to integers and dividends that are values are last uses
(`Dying`); divisors are variables or constants; shift counts are constants; the
left operands of 64-bit additions are values, and there are no 64-bit differences;
comparisons of 64-bit variables are in a function without additions; floats are
compared with, and combined with, the variable; floats are made of words;
structures are not read again after they are pushed; and in the function in which
registers run short the right operand of an addition is in memory or constant.

Declarations and names. `Linkage` has these as the code has them; `Conforming` or
the families leave them out.

- `backend.c:108`: a block declares `extern` a name that the file declares and never
  defines: references are counted on the block's symbol, so the file's is not
  imported.
- `parser.c:1226`: a function declared in a block and defined later: the definition
  does not look in the externals, and the name is both public and imported.
- `parser.c:1251`: `static int f(void); int f(void) {}`: the definition's storage
  replaces the declaration's, and f becomes public.
- `parser.c:1371`: a function that calls an inline one, with inline functions
  omitted: nothing defines the name.
- `expr.c:70`: the function being compiled is never reset, so an initializer in the
  file after an omitted inline function does not count its references.
- `parser.c:795`: `int f(int), g(int);` leaves the level at that of parameters.
- `parser.c:133`: a typedef may redeclare an object of the same type in its scope,
  or a parameter in the body; and the name of a type is accepted in an expression.

Sources and lines. The programs of `MCSources` have `#line` with a name and a number
not above the row it is in.

- `ctrl.c:557`: after `#line N` the loop of `cpp_process` writes N - start - 1 blank
  lines, since the stream's line was changed; the text after it is counted from
  there. Without a name it writes `(null)`, and `cc.c:204` makes the compiler forget
  the name.
- `ctrl.c:469`: an `#include` that takes several physical lines: the rest of its
  blank lines go after the new file's `#line`, whose lines they shift. The programs
  have it on one line.
- `ctrl.c:445`: the check for recursion compares names that `#line` changes.
- `ctrl.c:599`: a file left at its second `#pragma once` is not checked for open `#if`s.
- a last line without a newline is put out without one, before the next `#line`.

Macros. In the programs of `MCMacro` the name of a macro that takes arguments is
followed by a call, in its row or the next, or by a token that is no macro.

- `macro.c:839`: when the name of a macro that takes arguments is no call, the token
  after it is skipped; if it ends a row before a directive (`:222`), the row is lost.
- `f()` for a macro with one parameter is refused, and an empty call of a variadic
  one without other parameters fails an assertion.
- the outcome of `a ## b` is looked at for parameters again in `a ## b ## c`; `defined`
  is special in any row; two definitions that differ only in their number of
  parameters are taken to be the same.

Trees and code lists.

- `canon.c:219`: a comparison whose value is not used, or on the right of a comma in
  a condition, is linearized without its labels.
- `canon.c:685`: the code that declares a local variable is erased with its block if
  that cannot be reached, although a label further on can be.
- `expr.c:1455`: a compound assignment converts its right operand to the left one's
  type before the operation.
- `expr.c:2989`: `c ? p : (void *)q` has type `void`, not `void *`.

Structures and initializers. The variables of `MCVarInit` and their initializers leave these out.

- `init.c:855`: a string shorter than its local array, without braces: the rest of
  the array is not written.
- `backend.c`: the padding at the end of a static structure, and the bytes of a
  static union beyond its first member, are not put out.
- `init.c:670`: a local bit-field whose unit is no `int` fails an assertion; values
  are not cut to the width of their field.
- `parser.c:1734`: a bit-field after one whose unit has another size is placed without
  stepping over it, and the two overlap.
- a structure initialized by an expression is refused.

## 6. What is not modelled

The parts with status `not_modelled` in `PROJECT.json`, and what "partly" leaves
out, which its notes say.

- `eval.c`: what a condition evaluates to is a choice (four outcomes in `CondStack`, two
  in `Sources`). The evaluator itself is sequential arithmetic.
- Both lexers and `charstream.c`: tokens and rows are inputs. What the stream
  keeps that others use, its line and name, is in `Sources`.
- `mm.c`: `Linkage` has what freeing an area means, for the symbols in it. That blocks
  of an area are disjoint is not modelled.
- Compatibility and conversion of types, folding of constants, and the grammar of
  declarators and expressions, which is a transcription of C99's. `Linkage` and
  `StmtCode` take types and arithmetic as given.
- Printing of directives and instructions (`output.c`, `backend_x86.c`, `assem.c`), the
  command line tools, logging, paths and the vendored option parser: no state worth
  checking.
- Failure of memory allocation, after which the compiler stops.

## 7. Plan

1. Repairs of `gencode_x86.c:1283` and `:1287` in a variant of the handlers, under which
   `PartsApart` and `OperandsHold` could be stated for all functions and proved from
   the invariant of `GenProofs`.
2. `PoolFresh`, as far as it can be told of single steps of `DagPool`.
3. `CharStream` (`charstream.c`), implementing a plain sequence of characters with ring
   and buffer of any size, `MmAreas` (`mm.c`) and `PpEval` (`eval.c`: its two stacks against
   the grammar).
