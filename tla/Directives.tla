----------------------------- MODULE Directives -----------------------------
(***************************************************************************)
(* The directives of a source file: process_preprocessing_tokens,          *)
(* handle_if_directives, handle_define_directive, handle_undef_directive   *)
(* and handle_include_directive of src/src/preprocessor.c.                 *)
(*                                                                         *)
(* The token list is a sequence of lines.  What precedes the token that    *)
(* process_preprocessing_tokens looks at is `out`, what follows is `rest`; *)
(* handle_if_directives removes groups from `rest` and the loop then goes  *)
(* on after the directive.  The macro table is a map (MacroEnvironment),   *)
(* a condition is a constant or `defined` (IfExpression evaluates them),   *)
(* and a line of text is a use of one object-like macro.  Macros stand for *)
(* constants.                                                              *)
(***************************************************************************)
EXTENDS Conditionals

CONSTANTS
    Names,          \* macro names
    Headers,        \* the files #include finds: [header name -> lines]
    Documents,      \* the main files: sequences of lines
    Endless,        \* those of them that the program cannot be expected to end on
    MaxIncludes     \* bound: as many #includes exhaust the token arena

(* A line is [kind, name, body, eol]:                                       *)
(*   text     uses the macro `name`; `body` tells the lines apart           *)
(*   define   name as body            undef, ifdef, ifndef   name           *)
(*   if, elif `defined name`, `defined(name)` when body is 1,               *)
(*            or the constant body when name is ""                          *)
(*   include  the header name         pragma   with the tokens name, or ""  *)
(*   else, endif                                                            *)
(* eol is FALSE for the last line of a file that does not end in a newline: *)
(* the lexer ends it with an END token only.                                *)
Line(kind, name, body) == [kind |-> kind, name |-> name, body |-> body, eol |-> TRUE]

Joined == -1        \* a replacement list that took in the line after it

Kinds   == IfKinds \cup {"text", "define", "undef", "include", "pragma",
                         "elif", "else", "endif"}

Files == Documents \cup Range(Headers)
Lines == UNION {Range(f) : f \in Files}

ASSUME FilesAssumption == \A f \in Files : f \in Seq(Lines)

\* The names a line can have are macro names where the macro table is asked.
ASSUME LinesAssumption ==
    \A l \in Lines :
        /\ l.kind \in Kinds /\ l.body \in Int /\ l.eol \in BOOLEAN
        /\ l.kind \in {"text", "define", "undef", "ifdef", "ifndef"} => l.name \in Names
        /\ l.kind \in {"if", "elif"} => l.name \in Names \cup {""}

ASSUME BoundAssumption == MaxIncludes \in Nat

VARIABLES
    document,       \* the main file
    out,            \* the lines kept: [kind, body, value]
    rest,           \* the lines ahead
    macros,         \* macros[n]: the definition of n, or NoBody
    includes,       \* how many headers have been read
    pc,             \* "lines", "groups" (in handle_if_directives), "done",
                    \* "crash" (NULL dereference), "out_of_memory"
    at,             \* handle_if_directives: the line of if_directive in rest
    cond, if_cond, any_cond_true

chain == <<at, cond, if_cond, any_cond_true>>
vars  == <<document, out, rest, macros, includes, pc, chain>>

Init ==
    /\ document \in Documents
    /\ rest = document
    /\ out = <<>>
    /\ macros = [n \in Names |-> NoBody]
    /\ includes = 0
    /\ pc = "lines"
    /\ at = 0
    /\ cond = FALSE /\ if_cond = FALSE /\ any_cond_true = FALSE

-----------------------------------------------------------------------------
\* The line process_preprocessing_tokens looks at.
AtLine(kinds) == pc = "lines" /\ rest # <<>> /\ rest[1].kind \in kinds

\* The lines from the first to the first NEWLINE token, where a directive ends.
DirectiveEnd(lines) == {i \in 1..Len(lines) : lines[i].eol}

\* Faulty: the line after the directive goes as well.
RemovePastNewline(lines) ==
    IF DirectiveEnd(lines) = {}
    THEN pc' = "crash" /\ rest' = <<>>
    ELSE pc' = "lines" /\ rest' = SubSeq(lines, Min(DirectiveEnd(lines)) + 2, Len(lines))

\* The directive at the head of `lines` is removed up to its NEWLINE.
RemoveDirective(lines) ==
    IF DirectiveEnd(lines) = {}
    THEN pc' = "crash" /\ rest' = <<>>
    ELSE pc' = "lines" /\ rest' = SubSeq(lines, Min(DirectiveEnd(lines)) + 1, Len(lines))

\* evaluate_if on a line that is an #if, #ifdef, #ifndef or #elif, whose macros have
\* been expanded.  For an #if the main loop has spared the name behind `defined`,
\* in parentheses or not.
EvaluateIf(l) ==
    CASE l.kind = "ifndef" -> macros[l.name] = NoBody
      [] l.kind = "ifdef"  -> macros[l.name] # NoBody
      [] OTHER             -> IF l.name = "" THEN l.body # 0 ELSE macros[l.name] # NoBody

-----------------------------------------------------------------------------
(* process_preprocessing_tokens *)

Text ==
    /\ AtLine({"text"})
    /\ out' = Append(out, [kind |-> "text", body |-> rest[1].body,
                           value |-> macros[rest[1].name]])
    /\ rest' = Tail(rest)
    /\ UNCHANGED <<document, macros, includes, pc, chain>>

\* add_macro: the first definition stands.  The replacement list ends at the
\* NEWLINE token, wherever that is.
Define ==
    /\ AtLine({"define"})
    /\ LET l == rest[1]
       IN  macros' = IF macros[l.name] # NoBody THEN macros
                     ELSE [macros EXCEPT ![l.name] = IF l.eol THEN l.body ELSE Joined]
    /\ RemoveDirective(rest)
    /\ UNCHANGED <<document, out, includes, chain>>

\* Faulty: the directive is not removed.
UndefKept ==
    /\ AtLine({"undef"})
    /\ macros' = [macros EXCEPT ![rest[1].name] = NoBody]
    /\ UNCHANGED <<document, out, rest, includes, pc, chain>>

Undef ==
    /\ AtLine({"undef"})
    /\ macros' = [macros EXCEPT ![rest[1].name] = NoBody]
    /\ RemoveDirective(rest)
    /\ UNCHANGED <<document, out, includes, chain>>

\* The header is scanned and its tokens are inserted after the line's last
\* token; a header that is not found is reported and the line removed.
Include ==
    /\ AtLine({"include"})
    /\ includes < MaxIncludes
    /\ LET header == IF rest[1].name \in DOMAIN Headers THEN Headers[rest[1].name] ELSE <<>>
       IN  RemoveDirective(<<rest[1]>> \o header \o Tail(rest))
    /\ includes' = includes + 1
    /\ UNCHANGED <<document, out, macros, chain>>

IncludeOutOfMemory ==
    /\ AtLine({"include"})
    /\ includes = MaxIncludes
    /\ pc' = "out_of_memory"
    /\ UNCHANGED <<document, out, rest, macros, includes, chain>>

\* A pragma stays: the loop goes on at the last token before the NEWLINE.
Pragma ==
    /\ AtLine({"pragma"})
    /\ rest[1].name # ""
    /\ IF DirectiveEnd(rest) = {}
       THEN pc' = "crash" /\ UNCHANGED <<out, rest>>
       ELSE LET n == Min(DirectiveEnd(rest))
            IN  /\ out' = out \o [i \in 1..n |-> [kind |-> rest[i].kind,
                                     body |-> rest[i].body, value |-> NoBody]]
                /\ rest' = SubSeq(rest, n + 1, Len(rest))
                /\ UNCHANGED pc
    /\ UNCHANGED <<document, macros, includes, chain>>

\* #pragma alone on its line: the last token before the NEWLINE is the
\* directive itself, and the loop is back where it was.
BarePragma ==
    /\ AtLine({"pragma"})
    /\ rest[1].name = ""
    /\ UNCHANGED vars

\* What is left of a chain whose #if has been handled is removed.
ElifElseEndif ==
    /\ AtLine({"elif", "else", "endif"})
    /\ RemoveDirective(rest)
    /\ UNCHANGED <<document, out, macros, includes, chain>>

Finish ==
    /\ pc = "lines" /\ rest = <<>>
    /\ pc' = "done"
    /\ UNCHANGED <<document, out, rest, macros, includes, chain>>

-----------------------------------------------------------------------------
(* handle_if_directives, one group per step *)

If ==
    /\ AtLine(IfKinds)
    /\ pc' = "groups"
    /\ at' = 1
    /\ cond' = EvaluateIf(rest[1])
    /\ if_cond' = cond'
    /\ any_cond_true' = cond'
    /\ UNCHANGED <<document, out, rest, macros, includes>>

\* Faulty: an #endif does not end a nested conditional.
GroupEndsFlat ==
    {i \in (at + 1)..Len(rest) : /\ rest[i].kind \in {"elif", "else", "endif"}
                                 /\ \A j \in (at + 1)..(i - 1) : rest[j].kind \notin IfKinds}

\* The lines that end the group of if_directive.
GroupEnds ==
    {i \in (at + 1)..Len(rest) : /\ rest[i].kind \in {"elif", "else", "endif"}
                                 /\ Level(rest, at + 1, i) = 0}

\* The macros of an #elif are expanded here, and only the token right behind
\* `defined` is spared.  A name in parentheses that is a macro becomes the constant
\* it stands for, and handle_defined puts a 0 in the place of what is no name.
ElifExpanded(l) ==
    IF Parenthesised(l) /\ macros[l.name] # NoBody THEN Line("elif", "", 0) ELSE l

\* Faulty: only the condition before counts.
GroupCondOfPrevious ==
    IF rest[at].kind = "elif" THEN ~cond /\ EvaluateIf(ElifExpanded(rest[at])) ELSE cond

\* The condition the group has, once an #elif has been looked at.
GroupCond ==
    IF rest[at].kind = "elif" THEN ~if_cond /\ ~cond /\ EvaluateIf(ElifExpanded(rest[at])) ELSE cond

\* Faulty: the condition of an #elif is not remembered.
AnyTrueOfIf == any_cond_true

AnyTrue == any_cond_true \/ (rest[at].kind = "elif" /\ GroupCond)

\* Faulty: #else is the opposite of the #if, whatever the #elifs were.
RemovedUnlessIf ==
    IF rest[at].kind = "else" THEN if_cond ELSE ~GroupCond

Removed ==
    IF rest[at].kind = "else" THEN AnyTrue ELSE ~GroupCond

\* Faulty: the position does not account for the lines removed.
GroupAtStaleLine ==
    /\ pc = "groups"
    /\ rest[at].kind # "endif"
    /\ IF GroupEnds = {}
       THEN pc' = "crash" /\ UNCHANGED <<rest, chain>>
       ELSE LET last == Min(GroupEnds)
            IN  /\ cond' = GroupCond
                /\ any_cond_true' = AnyTrue
                /\ rest' = IF Removed
                           THEN SubSeq(rest, 1, at) \o SubSeq(rest, last, Len(rest))
                           ELSE rest
                /\ at' = last
                /\ UNCHANGED <<pc, if_cond>>
    /\ UNCHANGED <<document, out, macros, includes>>

Group ==
    /\ pc = "groups"
    /\ rest[at].kind # "endif"
    /\ IF GroupEnds = {}
       THEN pc' = "crash" /\ UNCHANGED <<rest, chain>>
       ELSE LET last == Min(GroupEnds)
            IN  /\ cond' = GroupCond
                /\ any_cond_true' = AnyTrue
                /\ rest' = IF Removed
                           THEN SubSeq(rest, 1, at) \o SubSeq(rest, last, Len(rest))
                           ELSE rest
                /\ at' = IF Removed THEN at + 1 ELSE last
                /\ UNCHANGED <<pc, if_cond>>
    /\ UNCHANGED <<document, out, macros, includes>>

\* At the #endif of the chain the #if line is removed, and what is left of the
\* chain is read as lines.
EndGroups ==
    /\ pc = "groups"
    /\ rest[at].kind = "endif"
    /\ RemoveDirective(rest)
    /\ UNCHANGED <<document, out, macros, includes, chain>>

-----------------------------------------------------------------------------
Next ==
    \/ Text \/ Define \/ Undef \/ Include \/ IncludeOutOfMemory
    \/ Pragma \/ BarePragma \/ ElifElseEndif \/ Finish
    \/ If \/ Group \/ EndGroups

Spec == Init /\ [][Next]_vars

\* The program is sequential.
FairSpec == Spec /\ WF_vars(Next)

-----------------------------------------------------------------------------
TypeOK ==
    /\ macros \in [Names -> Int]
    /\ includes \in 0..MaxIncludes
    /\ pc \in {"lines", "groups", "done", "crash", "out_of_memory"}
    /\ pc = "groups" => at \in 1..Len(rest)
    /\ cond \in BOOLEAN /\ if_cond \in BOOLEAN /\ any_cond_true \in BOOLEAN

\* No chain of groups is read past the end of the tokens, and no directive is
\* removed past it.
NoCrash == pc # "crash"

\* A file is read to its end: guarded headers that include each other are read
\* a finite number of times.  The exceptions are a header that includes itself
\* with no guard, and a #pragma that is alone on its line.
Ends == (document \notin Endless) ~> (pc = "done")

\* "Only want the elif condition to be true if the original condition and the
\* previous condition was false": of the groups of a chain at most one is kept.
OneGroupKept ==
    [][pc = "groups" /\ rest[at].kind = "elif" /\ cond' => ~any_cond_true]_vars

\* "Remove the directive": a line that is not a directive is never removed by
\* one, outside the groups of a conditional.
TextIsNotRemoved ==
    [][pc = "lines" /\ AtLine({"define", "undef", "include", "elif", "else", "endif"}) =>
          \A i \in 2..Len(rest) : rest[i].kind = "text" =>
              \E j \in 1..Len(rest') : rest'[j] = rest[i]]_vars

-----------------------------------------------------------------------------
(* handle_if_directives has the groups up to `at` behind it: what C reads   *)
(* next is what is ahead without the lines it skips from there on.          *)
Taken == at > 1 /\ any_cond_true

Ahead ==
    IF pc = "groups"
    THEN Only(rest, (2..Len(rest)) \ Skipped(rest, at, Taken, macros))
    ELSE rest

C == INSTANCE ConditionalInclusion WITH ahead <- Ahead, kept <- out, env <- macros

\* The lines are kept, removed and read in the order and with the macros of C.
ImplementsC == C!Spec
=============================================================================
