# A TLA+ model of the compiler front end

This directory holds a formal model of the C front end in `src/`: a lexer, a
preprocessor and an expression parser, and the hash table and the arena they
are built on. It states what these parts promise, checks the promises with TLC
on small instances, and proves the most important ones with TLAPS for all
instances.

The program runs on one thread, keeps nothing on disk and talks to nobody.
What makes it hard is elsewhere: probing sequences in a table with tombstones,
memory that is never given back, global flags (`in_include`, `in_define`,
`escaped`) that outlive what they were set for, a token list that is cut and
extended while loops hold pointers into it, macro expansion that recurses in two
places over that list, and precedence without a grammar.

## The system

### Components

| Component | Source | State | Operations |
|---|---|---|---|
| Arena | `memory.c` | `bytes_used`, `capacity` | `create_arena`, `allocate_from_arena`, `delete_arena` |
| Hash table | `hash_table.c` | `entries[]` (`status`, `key`, `value`), `length`, `capacity` | `ht_alloc`, `ht_get`, `ht_add`, `ht_remove` |
| Macro table | `preprocessor.c` 24-98 | the hash table, the macro arena | `add_macro`, `remove_macro`, `macro_exists` |
| Conditions | `preprocessor.c` 231-368, `common.c` | `RPN_tokens`, `op_stack`, `number_stack` (locals) | `evaluate_if`, `handle_defined` |
| Directives | `preprocessor.c` 100-229, 370-472, 866-967 | the token list, the place in it, `cond`, `if_cond`, `any_cond_true` | `process_preprocessing_tokens`, `handle_*_directive(s)` |
| Macro expansion | `preprocessor.c` 474-864 | the token list, `arguments[8][32]` | `expand_macro`, `consume_argument`, `substitute_argument`, `stringify_argument` |
| Lexer | `lexer.c` | `files[]`, `files_top`, `in_define`, `in_include`, `escaped` | `scan_and_insert_tokens`, `scan_token`, `build_lexme`, `create_*_token`, `add_file` |
| Numeric constants | `lexer.c` 364-549 | none | `create_constant_token` |
| Parser | `parser.c` | `token_stream`, `tk_stream_pos`, the tree | `create_ast_tree`, one function per production |
| Driver | `main.c` | the token arena, the list head | `main`, `add_predefined` |
| Leaf helpers | `strings.c`, `helper_functions.c`, `debug.c`, `enums.h` | none | strings, list steps, output |

### How they interact

`main` pushes the source file and then a file of predefined macros on the stack
`files`; `scan_and_insert_tokens` scans the stack from its top until it is
empty and appends the tokens to the list `tokens`.
`process_preprocessing_tokens` walks that list. A directive is handled and cut
out of the list. `#include` pushes a header and calls the lexer again, which
inserts its tokens after the line. `#define` and `#undef` go through the macro
table, which lives in the macro arena: the table takes the arena's first block,
and each macro a block of its own. A name that is a macro is expanded in place.
Conditions are evaluated with `evaluate_if` after expansion. The parser takes
what is left of the list. Lexer and preprocessor share `in_define` and
`in_include`.

### What is hard, and what makes each part correct

- *Hash table.* Linear probing with tombstones. Correct: a dictionary. The key
  is always reachable from its home slot; it is in the table once; `length` is
  right; calls return.
- *Arena.* Correct: blocks are aligned, in bounds and never overlap.
- *Macro table.* Correct: a map from names to definitions in which the first
  definition stands and a different one is reported; the arena does not run out
  before the table; entries point at live macros.
- *Conditions.* Correct: the value C gives; no pop of an empty stack; stacks of
  64 entries suffice for a line of 64 tokens.
- *Directives.* Correct: of a chain exactly the group C keeps is kept, whatever
  is nested in it and whatever the groups define; only directives are removed;
  every file is read to its end.
- *Lexer.* Correct: longest match; each file for itself, whatever the flags were
  left at; right lines; no read and no write out of bounds; every file ends.
- *Numeric constants.* Correct: one token for one constant, with the value and
  the type C gives it.
- *Macro expansion.* Correct: the tokens C makes of the text; activations of
  `expand_macro` that nest; lengths that stay those of the segments while inner
  calls remove and insert nodes; an end.
- *Parser.* Correct: the tree of C's grammar, the stream left at the token after
  the expression, an error for what is no expression.

`PROJECT.json` lists the hazards one by one with the line where each bites and
the properties that cover it.

## The modules

| Module | What it is |
|---|---|
| `Dictionary` | what a client of the hash table relies on: a partial map served one call at a time |
| `HashTable` | `hash_table.c`, one loop iteration per step; implements `Dictionary` |
| `HashTable_proofs` | theorems about `HashTable` |
| `Arena`, `Arena_proofs` | `memory.c` and the theorems about it |
| `MacroEnvironment` | `#define`, `#undef` and lookups as C means them |
| `MacroTable` | `add_macro`, `remove_macro`, `macro_exists`; composes `HashTable` and `Arena`; implements `MacroEnvironment` |
| `MacroTable_proofs` | theorems about `MacroTable`, from those of its parts |
| `IfExpression`, `IfExpression_proofs` | `evaluate_if`, one token per step, and the theorems about its stacks, on all lines and on well-formed ones |
| `Conditionals` | a list of lines with conditionals: the nesting level, what the theorems ask of a file, and the lines that C skips |
| `ConditionalInclusion` | what C makes of directives, one line per step and a whole conditional at its `#if` |
| `Directives` | `process_preprocessing_tokens`, one line per step, and `handle_if_directives`, one group per step; implements `ConditionalInclusion` |
| `Directives_proofs` | theorems about `Directives` |
| `Lexer`, `Lexer_proofs` | `scan_and_insert_tokens`, one token or one character of a lexeme per step, and the theorems about it |
| `NumericConstant` | what `create_constant_token` computes: conversion to base 10, and the suffixes |
| `MacroDefinition` | `handle_define_directive`: the macro a line of tokens defines |
| `MacroExpansion`, `MacroExpansion_proofs` | `expand_macro` over a linked list, one token per step, and the main loop on text; the theorem about its pointers |
| `Parser` | the expression parser, one operator per production |
| `Translation` | `main` from the token list on: composes `MacroExpansion` and `Parser` |
| `LeastNumber` | induction and recursion on numbers, and `Min` and `Max`, for the proofs |
| `MC_*` | instances for TLC, with their inputs and the reference definitions |

In each module a comment starting with `Faulty:` introduces a variant of the
definition that follows it, with a bug that could have been made there. They are
not used by any specification. Each shows that a property can fail: with the
variant in the place of the original, TLC finds that property violated.
`PROJECT.json` pairs them with the properties.

### Correspondence with the code

**HashTable.** `status`, `entry_key`, `entry_value` are the fields of
`entries[]`; `pc` is the call that runs; `index`, `start_index`,
`tombstone_index`, `tombstone_found` are the locals. The hash is a constant,
any function from keys to slots. The only client, `add_macro`, calls `ht_add`
right after an `ht_get` of the same key that answered `NULL`; `AddCall` has that
as its guard, and `MacroTable` makes exactly those calls. `AddStep` writes
`tombstone_index` and never `tombstone_found`, as the code does.

**Arena.** A block is a start and a size. An allocation that does not fit prints
and exits. Sizes do not wrap: the largest request of the program is the macro
table itself.

**MacroTable.** `macro_at` is what the arena holds at an address. A macro is a
name and the rest, which `macros_equal` compares; parameters and replacement
list are one value. The hash table's `Values` are addresses.

**IfExpression.** A line is a sequence of tokens after macro expansion. The
arrays grow without a bound, and `StackRoom` says how far they do. An operator
popped from an empty stack, a division by zero and a closing parenthesis without
an opening one lead to a final `pc`: what the build does then is undefined. An
expression with no operand returns an uninitialized entry: either Boolean.
Integers have no width: the inputs stay small.

**Directives.** The list is a sequence of lines; the code moves by tokens, but
everything it decides, it decides at a DIRECTIVE or a NEWLINE token. `out` is
what precedes the place of the loop, `rest` what follows. A line whose `eol` is
`FALSE` ends in the END token of its file. A line of text is the use of one
object-like macro and its value; a macro stands for a constant. A condition is a
constant, `defined A`, or `defined(A)`. The two forms differ in an `#elif`.
Its macros are expanded by `handle_if_directives` (`preprocessor.c:426-437`), which
spares only the token right behind `defined`; with parentheses that is the `(`, so a
macro `A` becomes a constant, of which `handle_defined` makes a 0 (`ElifExpanded`).
The main loop, which expands the line of an `#if`, spares both forms. A
group that is removed leaves its directive line, which the main loop removes
afterwards, as in the code: `#elif`, `#else` and `#endif` have no case in
`process_preprocessing_tokens`. `MaxIncludes` stands for the token arena.
The abstract machine `ConditionalInclusion` has what is ahead, what was kept and
the macros. Its `Conditional` drops all groups but the one C keeps, in one step.
`Ahead` is what `Directives` has in the place of that: outside
`handle_if_directives` the rest of the list, and in it the rest without the lines
that C skips from the group at `at` on, given that a group was already kept
(`Taken`). `Skipped` says which lines these are of the whole conditional, by its
groups and the first whose condition holds, with nothing of `cond`, `if_cond` and
`any_cond_true`.

**Lexer.** A character is a string of length one. `cursor` is the position in
the top file and `escaped`; `mode` is the function that has control; `new_token`
is the token in construction, with `follows_whitespace`. The search for a
spelling in `subtype_strings` is membership in `Keywords` or `Directives`. An
escaped character in a literal is a backslash and the character in one string,
where the code sets bit 7. A constant is read part by part (`Parts`), as
`create_constant_token` calls `build_lexme` for each; `EndPart` is what it does
between two parts, `EndSuffix` what it does at the end. An error leaves the
token without its lexeme and the rest of the constant to the next token. `ULONG`
is the width of `size_t` and `long`. The model's tokens were also compared with
those of the compiled lexer on 25,896 of the files of the run, on 27,703 files
of numbers, and on 14,911 more in a build with `MAX_LEXEME_LENGTH` 8: where the
behaviour is defined they are identical, and the aborts are the same.

**MacroExpansion.** `list` is the memory of nodes and a pointer is an index into
it, 0 for `NULL`; a node that is unlinked stays where it is. `ptr` is the place
of the main loop. `calls` is the C stack: an activation has the node it replaces,
`end_entry` (`end`), `new_entry` (`new`), the place in the replacement list
(`rep`), the two lengths (`len`, `seg`), the loop variable (`at`) and the
arguments. `phase` is the loop it is in: the replacement list, the `##` behind a
token of it, the expansion of the argument just substituted, or the rescan.
`Replace` does one token of the replacement list with its `#`, `Concatenate` one
`##` with its right operand; `Enter` is a call and `Return`, with `Resumed`, what the caller does with the length. The macros are
`Defined` by the `#define`s of the program: `MacroDefinition` reads a line as
`handle_define_directive` does, with its parameters, their errors, and the blank
that tells a list of parameters from a replacement list. `status` says how a program went wrong
where the code does: a `NULL` pointer followed or no stack left (`crashed`), an
assertion (`aborted`), a count along a cycle (`spinning`), or no node left. Left
out: the lines of tokens, except that a stringified token has no `src_filepath`;
and the limits on parameters, arguments and replacement lists. The model was
compared with the compiled code on some 6,000 random programs, inside and
outside the class of the run: they end alike, with the same tokens.

**Parser.** A production takes the position in the stream and whether an error
was reported, and returns its node and the new ones. `pun_to_op` is read past its
end for constants, and `operator_precedence` for a comma; `Translation` lets the
former be an assignment operator or nothing, and the latter be negative or not.
A node has no type, which nothing reads. The parser was compared with the code,
with the call at `parser.c:506` repaired, on 1,060 token sequences: they agree,
on loops and crashes too.

**Translation.** `token_stream` is what `initialise_parser` copies from the list;
BLANK tokens stay. `create_ast_tree` parses one expression and exits, so nothing
of `main` comes after it.

## The runs

| Run | Instance | What it shows |
|---|---|---|
| `hash_table` | 3 slots, 4 keys, 2 values; two keys have the last slot as home, the others the first two | `ProbeChain`, `UniqueKeys`, `LengthCounts`, `Filled`, `ProbeKnowledge`, `NeverAborts`, `SlotsAreSpent`, `CallsReturn`, and `ImplementsDictionary` |
| `hash_table_full` | the same, 1 value | `UsableBelowCapacity` fails: a table with room can hang a lookup |
| `arena` | 44 bytes, requests of 1, 7, 8, 9, 16 | `BlocksInBounds`, `BlocksDisjoint` |
| `macro_table` | 3 slots, 2 names with one home, 2 definitions | `NeverOutOfMemory`, `EntriesPointAtMacros`, `OneSlotPerMacro`, `ImplementsEnvironment` |
| `if_expression` | the well-formed conditions built in `MC_IfExpression`; all lines of up to 3 tokens over 15 | `AgreesWithC` (value, and no division by zero) and `NoUnderflow` on the former, `StackRoom` and `Ends` on both |
| `directives` | chains with up to 2 `#elif` with every mix of conditions and groups, `defined(A)` in an `#elif` excepted; chains in chains; includes | `AgreesWithC`, `NoCrash`, `OneGroupKept`, `TextIsNotRemoved`, `Ends`, and `ImplementsC` |
| `directives_elif` | chains with 3 `#elif` | `OneGroupKept` fails |
| `directives_pragma` | a `#pragma` alone on its line | `Ends` fails |
| `directives_eol` | a header with no final newline | `TextIsNotRemoved` fails |
| `lexer` | 33,840 programs: all files of up to 5 characters over several alphabets, of which 7,043 are about numbers; stacks of two files; a file and two headers | `AgreesWithC`, `InBounds`, `Ends` |
| `translation` | 8,207 programs: up to two `#define`s and a text that uses them (about 1,410); token sequences without macros, of which 1,171 are expressions | `AgreesWithC`, `EndsNest`, `NothingSkipped`, `Ends` of the expansion, `AgreesWithGrammar` of the parser |
| `lexer_strings` | two string literals | `StringsEndAtTheirQuote` fails |

### Bounds, and why they are enough

*Hash table.* The code's decisions depend on whether a slot is EMPTY, a
tombstone, or occupied by the key or by another, and on the wrap of the index.
Three slots and two keys whose home is the last one give every mix on both sides
of the wrap, a table full of entries, one full of tombstones, and all between;
the fourth key is one that a full table does not hold.
The theorems remove the bound. *Arena.* The sizes lie on both sides of a
multiple of 8 and 44 is none: the padding decides whether the last request fits.
The theorems remove the bound. *Macro table.* Two names and three slots: a name
can be defined, undefined and defined again until the table and the arena are
exhausted together. *Conditions.* Every pair of adjacent levels of precedence,
both orders, with and without parentheses and `!`. *Directives.* Two `#elif` are
the most with which the code agrees with C (see below). A group uses the macro,
defines it, or undefines and uses it, so that later conditions depend on which group was kept;
the last ones, behind which no condition comes, only do the first two. An `#if` asks
for a macro with parentheses too; an `#elif` does not, because there the code parts
from C. *Lexer.* The longest
punctuator has three characters, and five leave room for what is before and
after it; `MAX_LEXEME_LENGTH` is 5, so lexemes reach it, and `ULONG` is 128, so
octal and hexadecimal constants leave the range of a long. *Translation.* Two
macros name each other and themselves in every way that two tokens allow; a
function-like one has up to three of its parameter, `#` and `##` of it, the other
macro and itself in its body, and is given nothing, an expression, the other
macro, a call of itself, and parentheses with a comma in them. Two macros with
arguments are nested in each other on both sides. `Misread` has the lines of
`#define` that are easily taken for something else. That crosses every branch of
`expand_macro` in both of its recursions. `STACK_FRAMES` is 12 and `MAX_TOKENS`
60; no program of the run comes near either. The expressions have one operator of
each level in every order of three, and every sequence of up to four of a few
tokens.

Deadlock is checked for the hash table and the macro table, which always accept
a call or are at work on one; a lookup that goes round is a step as well. It is
checked for `Translation` too, whose last step is an exit that repeats.
The other programs end, and their configurations say so.

### Fairness

The program is sequential and its own scheduler: if the code it is executing
has a next step, it takes it. That is `WF_vars(Next)` of `IfExpression`,
`Directives` and `Lexer`. The hash table is only called: `HashTable` has
`WF_vars(Work)`, the steps of a call that has been made, and calls themselves
are never assumed. `Translations` says that the expansion takes a step whenever
it is running. It is written out as `[]<>(status # "running") \/ []<><<Expand>>`
because an expansion that is running can always take a step, which the absence of
deadlocks confirms, and that is the weak fairness of `Expand`. No strong fairness
is used.

### What the reference definitions are

`MC_IfExpression` builds conditions together with their value, along the C
grammar. `MC_Directives!Meaning` reads a document in one pass with a stack of
conditionals, and has nothing of `handle_if_directives`; it also judges
`ConditionalInclusion`, which reads a conditional as a whole. `MC_Lexer!Lex` scans by
longest match in the list of C's punctuators, with no state but the directive a
line is in. It gives `OUTSIDE` where C leaves the meaning open and where the
code is known to part from C:

- `|=` is given the subtype of `^=` (`lexer.c:786`);
- two dots that are not three are both dropped (`lexer.c:647`);
- `/*/` is a complete comment (`lexer.c:709`), an open comment does not end
  (`lexer.c:707`), nor does a `//` comment at the end of a file with no newline
  (`lexer.c:704`), and a splice does not continue a `//` comment;
- a comment counts as a blank only if a blank follows (`lexer.c:713`);
- an escaped backslash before a quote or another backslash in a literal
  (`lexer.c:176`, run `lexer_strings`);
- a backslash at the end of a line inside or right after a token splits it
  (`lexer.c:860`);
- a `#` that is not the first token of its line is a directive (`lexer.c:815`);
- `#include` with no header on its line leaves `in_include` set
  (`lexer.c:579`), and a header name may not have `$`, `@`, a back quote or a
  blank in it (`lexer.c:256-271`);
- a lexeme of `MAX_LEXEME_LENGTH` characters or more is cut (`lexer.c:306`).

- a number that starts with a point (`lexer.c:645`); a suffix of more than one
  letter, of which only the last counts (`lexer.c:488`); an integer with an
  exponent, which stays an integer (`:459`); a point or an exponent after more
  than one digit of which the first is 0, which makes the digits octal (`:412`);
  hexadecimal fractions, of which only the part before the point is converted
  (`lexer.c:424`); a value beyond a long, which is printed as a negative one
  (`lexer.c:389`).

14,656 of the 33,840 programs have such a part. `AgreesWithC` speaks of the
rest; `InBounds` of all; `Ends` of those with no open comment, and lets a
constant that is too long end in the assertion of `string_cat_c`.

`MC_Translation!Replaced` is C's macro replacement by Prosser's algorithm, with a
set of hidden names for each token, on sequences: it has no nodes, no lengths and
no flag. `MC_Translation!Tree` finds the tree of an expression from its loosest
operator inwards; as in C, what is assigned to is a unary expression. `MCPrograms` leaves out the texts for which `Replaced` yields
`OUTSIDE`, because the code is known to part from C there:

- a parameter that comes first in its replacement list, given an argument that
  calls a macro with arguments: the argument is counted to the end of the whole
  list (`preprocessor.c:788`) and the list linked into a cycle (`:832`), as for
  `F(G(1))` with `F(x)` being `x` and `G(y)` being `y y`;
- a macro whose expansion grows in the rescan: the length is that from before it
  (`preprocessor.c:860`), the assertion at `:822` fails if this was in an
  argument, and the main loop, which ignores `irreplaceable` (`:880`), looks at
  the tail again;
- macros that name each other: only a macro's own name is marked (`:666`), and
  two that call each other recurse until the stack is full (`:842`);
- the name of a macro with arguments that no `(` follows, or whose call reaches
  beyond the expansion it starts in: whatever comes is taken for the arguments
  (`:631`), and their number is not checked;
- `##` with an empty left operand, which aborts in `string_copy` (`:756`), with
  an operand of several tokens that are macros, or with what is no name; `#` or
  a stringified token at the head of a replacement list (`:682`), or white space
  in the argument of `#`, which is written after the token it precedes (`:612`).

`InGrammar` leaves out of `AgreesWithGrammar` what the parser does not parse as
C does: the unary operators `& * + - ~ !`, which it drops (`parser.c:319`), the
conditional operator, whose `:` is looked for in the token that was the `?`
(`:411`), the comma, at which it goes round (`:446`), the BLANK tokens that
empty expansions leave (`:463`), and assignments to what is no unary expression
(`AssignsToBinary`). `a + a = a` has no derivation in C, but the parser takes any
conditional expression before an assignment operator for a unary one, and its
comment says so (`:429-430`); 228 of the token sequences, in parentheses or not, are
left out for that. 4,858 remain, so that 3,687 of them are no expressions. Postfix expressions are not in the code.

## Where the code and its comments part

1. `hash_table.c:56` and `:83`. Tombstones are never reused. Once every slot has
   been used, `ht_get` of an absent name never returns, although the table has
   room by its own assertion at `:76`. With 32768 slots this takes as many
   `#define`s that are undefined again.
2. `preprocessor.c:441`. `#if 0`, `#elif 1`, `#elif 0`, `#elif 1` keeps two
   groups: `cond` is compared with the condition just before, not with all.
3. `preprocessor.c:957`. A directive on the last line of a file that has no
   final newline takes the following line of the including file with it.
4. `preprocessor.c:949`. A `#pragma` that is alone on its line, which C allows,
   leaves the main loop where it was, for ever.
5. `lexer.c:302`. A string literal that ends in an escaped backslash runs past
   its closing quote.
6. `preprocessor.c:426`. The comment calls the expansion of an `#elif` "Basically a
   copy", of that of the main loop, which leaves the operand of `defined` alone, in
   parentheses or not (`:899-912`). The copy spares one token only. With `A` defined
   as 9, `#elif defined(A)` becomes `defined(9)`, which is 0, and its group is
   dropped; the compiled program drops it as well.

The first five are runs of their own that TLC finds violated. The sixth has no run:
`MC_Directives!AskingElifs` has documents of the kind, and with these as `Documents`
TLC finds `AgreesWithC` violated.

## The proofs

The theorems hold for every value of the constants that meets the assumptions
of the module, each of which the code justifies and TLC evaluates on the run's
instance:

- *Hash table, macro table.* The capacity is a positive number, the hash is a
  function into the slots, and `NULL` is no key and no value. The sizes of the
  structures in the macro arena are positive multiples of 8, because they hold
  pointers.
- *Arena.* The capacity is a number, and requests are positive.
- *Conditions.* A line is a sequence of tokens (`InputsAssumption`), any
  sequence: nothing says that it is a condition. Only `NeverUnderflows` is about
  conditions, and says so in its hypothesis.
- *Lexer.* A file is a sequence of characters (`ProgramsAssumption`), any
  sequence, and the stack holds any number of them. `NumeralsFit`: the decimal
  numeral of every `long` is shorter than a lexeme may be. In the program that
  is 20 characters against a `MAX_LEXEME_LENGTH` of 512.
- *Macro expansion.* A text is a sequence of tokens, any sequence; a `#define`
  is one that has a name and ends in its NEWLINE, and the lexer makes no ARGUMENTs
  (`ProgramsAssumption`). Nothing says that calls have their arguments or
  parameters are listed as in C. The room on the C stack and in the token arena
  are numbers.
- *Directives.* A file is a sequence of lines, and a line has a name where the
  code looks one up. Four theorems have hypotheses beyond these; see below.

### Hash table

The invariant that is inductive is `IInv`, the conjunction of
`TypeOK`, `Filled`, `ProbeChain`, `UniqueKeys`, `LengthCounts`,
`ProbeKnowledge` and `NeverAborts`, each of which the run checks too. None of
the middle ones is inductive alone. `UniqueKeys` needs to know, when `ht_add`
stores, that the key is absent. It is, because the get before it stopped at an
EMPTY slot after passing every slot in between without a match
(`ProbeKnowledge`), and an entry beyond that slot would break `ProbeChain`.
`ProbeChain` in turn needs `ProbeKnowledge` to store at the end of an unbroken
run of used slots. `NeverAborts` needs the EMPTY slot that the get has seen and
`LengthCounts`. The wrap of the index is confined to the lemmas on `Between`
(`BetweenGrows`, `BetweenRound`, `BetweenTrichotomy`); what follows is about
sets. There is one lemma per operation and `NextKeeps` joins them.

`Refinement` shows `Spec => Dict!Spec`: `Contents` maps each key to the value of
the slot that holds it, which `UniqueKeys` makes unique. `AddStore` is `Add`, a
get that ends is `AnswerGet`, the step of `ht_remove` that finds the key, and
the one that returns, are `Remove`; all other steps change nothing the client
sees.

### Arena

`IInv` adds to the type that `bytes_used` is a multiple of 8 and at
most the capacity, and that every block ends at or before it. A new block starts
there.

### Macro table

The proof composes. `MacroTable_proofs` instantiates the proof modules of the
two parts; `SameTable` and `SameArena` say that their definitions are those
`MacroTable` uses, `NextOfTable` and `NextOfArena` that every step of the macro
table is a step, or a stutter, of each part, and so the parts keep their own
invariants. What is added to these is about the boundary:

- `Memory`: the arena holds the table and the macros one after the other, so
  `bytes_used` is the size of the table and that of so many macros;
- `Control`: which call the table can be in during which operation;
- `Pending`: the macro that `ht_add` is about to enter is in the arena and in no
  slot; `Answered`: the answer of a get stays true until the next call;
- `OneSlotPerMacro`, `EntriesPointAtMacros` and `NeverOutOfMemory` themselves.

`ArenaSuffices` is where they meet. A macro is allocated only after a get has
ended at an EMPTY slot. By `OneSlotPerMacro` there are then fewer macros in the
arena than slots, and by `Memory` the next fits (`RoomForMacro`), because sizes
that are multiples of 8 are not padded (`NoPadding`). `Refinement` maps
`AddStore`, a get that reports, and the end of `ht_remove` to the operations of
`MacroEnvironment`, and allocation and probing to stutters.

### Conditions

`IInv` is `TypeOK`, the contents of the three stacks (`Stacks`), the place of
the cursor (`Position`), and `StackRoom`. `RPN_tokens` and `op_stack` together
never exceed what was read, `PopTo` only moves tokens from one to the other
(`PopToFacts`), and `number_stack` grows by one for a constant of `RPN_tokens`
and shrinks for the rest. It holds of lines with any mistake in them.

`NeverUnderflows` is about lines that are conditions (`Condition`). A line is one
if its tokens can be labelled, each with what the grammar expects there (an
operand, an operator, the name after `defined`) and with the brackets that
are open; a `?` is a bracket that its `:` closes. Any length and nesting is
allowed, and any order of precedence. Two things C allows are not, because the
code pops an empty stack on them: a `!` applied to a `!`, and a `?:` that is
between the `?` and the `:` of another and not in parentheses. There is no
unary `-` or `+` either, which the code takes for the binary one. `MC_IfExpression` assumes, and TLC evaluates, that all the conditions of its run
are such lines (`MCConditions`), so the hypothesis is met by what the run checks.

The invariant is `Founded`. While the line is scanned (`Scans`) the rest of it
can be labelled (`Ahead`), and `Yard` relates the stack and the output to the
label: the brackets on `op_stack` are those open in the line, in their order
(`Nested`), and the output leaves on `number_stack` the numbers that the stacked
operators will take beyond those they leave, and one more where an operator is
expected (`Weighed`, `Height`). `PopHeight` shows that operators popped above
the last bracket always find theirs, whatever their precedence, so the theorem
does not depend on the precedence table but for three facts: `!` binds tightest,
and `?` and `(` less than all others (`PrecedenceFacts`). While `RPN_tokens` is
evaluated (`Evaluates`), there is a function that gives the height of
`number_stack` after each token, ends in 1, and is never too low for the next.
That function is built one token at a time (`AppendHeight`), which is why the
proof needs no induction over the line.

### Lexer

`IInv` says that the stack of files and the cursor stay in bounds (`Stack`),
that what is under construction fits the function that has control
(`Partial(new_token, mode)`, which bounds the lexeme), and the types. There is
one lemma per function; the ones that only look ahead rest on `PeekFacts` and
`PeekAheadFacts`.

The hard part is a constant. `EndPart` replaces the characters read by the
decimal digits that `convert_to_base_10` prints of their value, and the lexeme
must not outgrow its array by that. `ValueIsWord` says that the accumulated
value stays below `ULONG` however many digits there are, `NumeralMonotonic`
that a smaller number has no longer a numeral, and `ToBase10Fits` draws the
bound from them and `NumeralsFit`. `numeral` is a recursive function, so that it
has a value at all has to be proved (`NumeralDefined`). That is what
`LeastNumber!Recursion` is for: a function defined by recursion on smaller
numbers exists. It and `SetInduction` rest on the least element of a set of
numbers, and take the property as a set, since an operator cannot be instantiated.

### Directives

`TypeCorrect` has no hypothesis: `if_directive` is a line of the list all the time
that groups before it are removed. The other theorems are about nested
conditionals, and for them a list of lines is a sequence of turns, +1 at an
`#if` and -1 at an `#endif`. `Level` counts them from one line to another;
`LevelIsCount` and `LevelSplit` make it additive. A group has its end in the list
if the level falls below 0 behind it (`Drops`), and a list is `Ended` if that is
so of every group. What the code does to the list is one of three things: it goes
on (a suffix), it inserts a header (a concatenation), or it removes a group, which
goes from one line to the next of the same conditional (a cut across which
the level is 0). Each keeps `Ended`: `SuffixEnded`, `ConcatEnded`, `CutEnded`.

- `NeverCrashes`: in files in which directives end in newlines (`Terminated`) and
  groups are ended (`Closed`), no group is searched past the end of the list. The
  invariant `FInv` is the type, `Ended(rest)` and the conclusion.
- `TextSurvives`: in files in which directives end in newlines, no step
  removes a line of text except with the group it is in. It needs no other
  hypothesis.
- `OneGroup`: if besides no conditional has more than two `#elif`, at most one
  group of a chain is kept. `Memory` is the invariant behind it. The code has
  `if_cond`, and of the `#elif`s only the condition of the last one, `cond`; so a kept
  group that is neither of these is behind at least two `#elif`s, and a wrong
  group can be kept only at a third. `Short` has to be kept too, by suffixes,
  concatenations and cuts (`SuffixShort`, `ConcatShort`, `CutShort`).

- `Refinement`: if besides nothing but the `#endif` follows an `#else` in its
  conditional (`ElseLast`, a rule of C), and no `#elif` has parentheses behind its
  `defined` (`BareElifs`), the code implements
  `ConditionalInclusion`: lines are kept, removed and read in the order, and
  under the definitions, of C, whatever the groups define or undefine.

`Refinement` maps `If` to `Conditional`, each line to itself, and `Group` and
`EndGroups` to stutters; running out of memory or of lines stops, which is a
stutter too. That a `Group` is a stutter is the theorem's content: whatever group
the code removes or keeps, what C will read has not changed. Its invariant `RInv`
adds to that of `OneGroup` that `rest` is `ElseLast`, and what `cond` and
`any_cond_true` say of the conditional at hand (`Marks`). `GroupDecides` derives
that the code removes a group if and only if one was taken before or its
condition fails. `ElseEnds` says that behind an `#else` there are no groups, so that
it does not matter that the code forgets there that one was taken.
`SkippedNext` takes the lines that C skips a group at a time,
`SkippedMoved` follows them through the cut, and `OnlyCut` says that it makes no
difference to what is left when lines that are skipped anyway are cut out first.

`BareElifs` is used where `GroupDecides` looks at an `#elif`: the expansion leaves
its condition as it is (`ElifsUnchanged`).

Three of the hypotheses are there because the code fails without them:
`directives_eol` is a file that is not `Terminated`, `directives_elif` one that is
not `Short`, `AskingElifs` are some that are not `BareElifs`, and each breaks the
conclusion. They are sufficient, not necessary: an `#elif defined(A)` with `A` not a
macro is decided as in C. `MC_Directives` assumes, and TLC
evaluates, that all documents and headers of the run `directives` meet all five
(`MCFilesAreWhole`).

### Macro expansion

`TypeCorrect` is about programs of any kind, those too that the run leaves out
because the code parts from C on them: no line of `expand_macro` follows a
pointer that is neither `NULL` nor a node, and where it would follow `NULL` the
model says so (`crashed`). Activations hold pointers into a list that the
activations above them change, so a pointer is only as good as what all of them
leave. `IInv` is `Safe`, with a status of the program:

- `Heap`: every node is linked to a node or to none. Nodes are never taken away,
  so a pointer that was good stays good, and a list of activations that is right
  for a number of nodes is right for more (`StackGrows`).
- `StackOf`: the locals of each activation (`Frames`) are in range for that
  number; it has a non-empty list of tokens for each parameter of its macro; an
  activation in the loop over an argument has a first node of it, one at a `##` is
  in the replacement list; and one that has called another waits at a node, which
  it will follow when the other returns.
- `MacrosOK`: each ARGUMENT in a replacement list is one of the parameters, so
  that `find_parameter_index` finds it.

Three things are walks of any length along the list: `Advance`, `Chain`, and the
reading of one argument after another. Each is a recursive function, and that it
exists and never leaves the nodes is shown by `Iteration` and `IterationKeeps`
of `LeastNumber` (`AdvanceFacts`, `ChainFacts`, `ArgumentsFacts`). The parameters
of a `#define` are read from back to front in the model, which takes
`LeastNumber!Recursion`, and the NEWLINE ends them, because it is no parameter
and no comma (`LineEnds`, `ReadingExists`). On the list itself there are three
operations: a node is written (`Written`), one is appended (`NodeAppended`), and
tokens are inserted behind one (`InsertFacts`). The proof has one lemma for each
action, or for the two that are alike, on top of `EnterKeeps`, `ReturnKeeps` and
`TopKeeps`, which say what a call, a return and a step of the running activation
do to the stack.

### The theorems

| Module | Theorem | States |
|---|---|---|
| `HashTable_proofs` | `TypeCorrect` | `Spec => []TypeOK` |
| | `EntriesReachable` | `Spec => []ProbeChain` |
| | `KeysUnique` | `Spec => []UniqueKeys` |
| | `LengthCorrect` | `Spec => []LengthCounts` |
| | `AssertionHolds` | `Spec => []NeverAborts` |
| | `EntriesFilled` | `Spec => []Filled` |
| | `ProbesKnow` | `Spec => []ProbeKnowledge` |
| | `SpentForever` | `Spec => SlotsAreSpent` |
| | `Refinement` | `Spec => ImplementsDictionary` |
| `Arena_proofs` | `TypeCorrect` | `Spec => []TypeOK` |
| | `InBounds`, `Disjoint` | `Spec => []BlocksInBounds`, `Spec => []BlocksDisjoint` |
| `MacroTable_proofs` | `TypeCorrect` | `Spec => []TypeOK` |
| | `ArenaSuffices` | `Spec => []NeverOutOfMemory` |
| | `NoDanglingEntries` | `Spec => []EntriesPointAtMacros` |
| | `SlotsMatchMacros` | `Spec => []OneSlotPerMacro` |
| | `Refinement` | `Spec => ImplementsEnvironment` |
| `IfExpression_proofs` | `TypeCorrect` | `Spec => []TypeOK` |
| | `StacksSuffice` | `Spec => []StackRoom` |
| | `NeverUnderflows` | `Conditions`: `Spec => []NoUnderflow` |
| `Lexer_proofs` | `TypeCorrect` | `Spec => []TypeOK` |
| | `StaysInBounds` | `Spec => []InBounds` |
| `Directives_proofs` | `TypeCorrect` | `Spec => []TypeOK` |
| | `NeverCrashes` | `AllTerminated`, `AllClosed`: `Spec => []NoCrash` |
| | `TextSurvives` | `AllTerminated`: `Spec => TextIsNotRemoved` |
| | `OneGroup` | `AllTerminated`, `AllClosed`, `AllShort`: `Spec => OneGroupKept` |
| | `Refinement` | `AllTerminated`, `AllClosed`, `AllShort`, `AllElseLast`, `AllBareElifs`: `Spec => ImplementsC` |
| `MacroExpansion_proofs` | `TypeCorrect` | `Spec => []TypeOK` |

### Only model-checked

- All liveness (`CallsReturn`, `Ends`): it needs fairness and ENABLED, which
  these provers do not have.
- What is compared with a reference definition that is recursive
  (`AgreesWithC`, `AgreesWithGrammar`): the theorem would be an induction over
  the grammar, and the provers cannot unfold a RECURSIVE operator.
- `EndsNest` and `NothingSkipped`. They are checked on the programs of the run,
  which are chosen by what C makes of them (`Replaced`), and not claimed of those
  on which the code parts from C as listed above: a theorem would have to say of
  all programs which these are.
- The parser: it uses RECURSIVE operators, which the provers cannot unfold.

## Not modelled

- Of macro expansion: the limits of 8 parameters, 32 tokens per argument and 512
  per replacement list, which nothing checks, and the lines of tokens. A `#`
  parameter whose replacement is copied as an argument has line 0, which ends
  lists of tokens; such programs are outside the run. `Directives` has a line of
  text as the use of one macro, and `MacroExpansion` has the text without
  directives; macros are constant while it is expanded. In `Directives` a macro stands for a
  constant: one that stands for a name, which `#elif defined(A)` would then ask for,
  is not modelled, nor are macros in a condition outside `defined`.
- Of the parser: the type of nodes, `print_ast`, and what comes after the first
  expression, which the program does not reach.
- Directives without their name, and names of directives used as identifiers: a word like
  `endif` in a line of text gets the subtype of the directive (`lexer.c:335`),
  which `handle_if_directives` looks at without the type. `Lexer` has the
  classification, `Directives` no such line.
- In conditions: operators beyond `?` in the enumeration, which index
  `operator_precedence` past its end; `defined` at the end of its line; the
  width of `int`. On `%` and `&`, which the evaluation does not know, and on
  conditions that need more than the four levels of precedence, such as
  `0 == 1 + 2`, the code parts from C; these are outside the well-formed
  conditions of the run.
- The search path of `#include`, `save_tokens_to_file`, `debug.c`: input and
  output. `strings.c`: names are values here, and `string_cmp` is equality.
- A `malloc` that fails, and `delete_arena`.

## Plan

Done, in this order: `Dictionary`, `HashTable`, `HashTable_proofs`, `Arena`,
`Arena_proofs`, `MacroEnvironment`, `MacroTable`, `IfExpression`, `Directives`,
`Lexer`, `MacroDefinition`, `MacroExpansion`, `Parser`, `Translation`, `NumericConstant`.

Proved, in this order: `HashTable`, `Arena`, `MacroTable`, `IfExpression`,
`Lexer`, `Directives`, `MacroExpansion`.

Next, of the model: directives without their name, and lines of text with words
that are spelled like directives.
