------------------------------- MODULE MCData -------------------------------
(***************************************************************************)
(* Model checking of six sequential parts: the byte budget of the heap,    *)
(* the ordered tables, the exhaustiveness check of match, the loading of   *)
(* modules, the formatter, and the resolution of names.  part says which   *)
(* of them a behaviour is about.                                           *)
(***************************************************************************)
EXTENDS HeapBudget, OrderedTable, Exhaustiveness, ModuleLoader, Formatter, LexicalScopes

VARIABLE part

bool == <<"bool">>
open == <<"open">>
T(i) == <<"param", i>>
Enum(name, args) == <<"enum", name, args>>

MCEnums ==
  [shape |-> <<<<>>, <<bool, open>>, <<<<"option", bool>>>>>>,
   either |-> <<<<T(1)>>, <<T(2)>>>>,
   list |-> <<<<>>, <<T(1), Enum("list", <<T(1)>>)>>>>,
   five |-> <<<<>>, <<>>, <<>>, <<>>, <<>>>>]

MCScrutinees ==
  {open, <<"tuple", <<bool, <<"option", bool>>>>>>, <<"tuple", <<open, bool>>>>,
   Enum("shape", <<>>), Enum("either", <<bool, open>>), Enum("list", <<bool>>), Enum("five", <<>>)}

\* Four files: the entry, one beside it, and two of a library.
main == <<"src", <<"main">>>>
side == <<"src", <<"a">>>>
libA == <<"lib", <<"a">>>>
libB == <<"lib", <<"b">>>>
relative(name) == <<"relative", <<name>>>>
search(segments) == <<"search", segments>>

MCEntry == main
MCLinks == <<"src", <<"l">>>> :> libA
MCAliases == "util" :> "lib"
MCSearchPath == <<"path", "lib">>

UpTo2(S) == {<<>>} \cup {<<x>> : x \in S} \cup {<<x, y>> : x, y \in S}
Parsed(lists) == {[parses |-> TRUE, items |-> items] : items \in lists}
Broken == {[parses |-> FALSE, items |-> <<relative("a")>>]}

Mains == Parsed(UpTo2({<<"other">>, relative("a"), relative("l"), search(<<"a">>), search(<<"util", "b">>)}))
Sides == Parsed({<<>>, <<relative("main")>>, <<relative("l")>>, <<<<"other">>, search(<<"b">>)>>}) \cup Broken
LibAs == Parsed({<<>>, <<relative("b")>>, <<<<"other">>, search(<<"util">>)>>}) \cup Broken
LibBs == Parsed({<<>>, <<search(<<"a">>)>>})

MCDisks ==
  {main :> m @@ side :> s @@ libA :> l @@ libB :> k : m \in Mains, s \in Sides, l \in LibAs, k \in LibBs}
    \cup {main :> m @@ side :> s @@ libB :> k : m \in Mains, s \in Sides, k \in LibBs}
    \cup {main :> m : m \in Broken}
MCOverlays == {<<>>, main :> CHOOSE m \in Broken : TRUE, libA :> [parses |-> TRUE, items |-> <<relative("b")>>]}

\* Sources: an expression, in parentheses or not, in a form around it.
IfInline == <<"if", "a", "then", "b", "else", "1", "end">>
IfParen == <<"if", "(", "a", ")", "then", "-", "b", "end">>
IfBlock == <<"if", "a", "nl", "b", "nl", "1", "nl", "else", "nl", "b", "nl", "end">>
DoBlock == <<"do", "|", "x", "|", "nl", "a", "nl", "b", "nl", "end">>
Inner == {
  <<"a">>, <<"A">>, <<"A", "(", "b", ")">>, <<"m", ".", "A">>,
  <<"a", "+", "b">>, <<"a", "**", "b">>, <<"a", "??", "b">>, <<"a", "..", "b">>, <<"a", "&&", "b">>, <<"-", "a">>,
  <<"a", ".", "f">>, <<"a", ".", "f", "(", ")">>, <<"a", "?.", "f">>, <<"a", "?.", "f", "(", "b", ")">>,
  <<"a", ".", "f", ".", "g">>, <<"a", "nl", ".", "f", "(", ")", "nl", "?.", "g", "(", "b", ")">>,
  <<"a", "?.", "f">> \o DoBlock, <<"a", ".", "f">> \o DoBlock, <<"a", ".", "f", ".", "g", "(", "1", ")">> \o DoBlock,
  <<"f", "(", "a", ",", "b", ")">>, <<"f">> \o DoBlock, <<"f", "(", "a", ")">> \o DoBlock,
  <<"a", "[", "b", "]">>, <<"a", "nl", "|>", "f", "nl", "|>", "g">>, <<"a", "|>", "f">> \o DoBlock,
  <<"|", "x", "|", "a">>, <<"||", "a", "+", "b">>, <<"|", "|", "a">>, <<"|", "x", "|">> \o IfBlock,
  DoBlock, <<"do", "nl", "|", "x", "|", "x", "nl", "end">>,
  <<"[", "a", ",", "b", "]">>, <<"(", "a", ",", ")">>, <<"{", "a", ":", "b", "}">>, <<"P", "{", "x", ":", "b", "}">>,
  IfInline, IfParen, IfBlock,
  <<"match", "a", "nl", "m", ".", "A", "(", "x", ")", "=>", "b", "nl", "(", "x", ",", "_", ")", "if", "b", "=>", "nl", "a", "nl", "b", "nl", "end">>,
  <<"a", "catch", "(", "x", ")", "nl", "A", "|", "P", "=>", "return", "b", "nl", "_", "=>", "f", "a", "nl", "end">>}

Around(i) ==
  { i, <<"-">> \o i, i \o <<"+", "1">>, <<"1", "+">> \o i, i \o <<"**", "1">>, <<"1", "**">> \o i,
    i \o <<"??", "1">>, <<"1", "??">> \o i, i \o <<"..", "1">>, <<"1", "..">> \o i,
    i \o <<".", "h">>, i \o <<"?.", "h", "(", ")">>, i \o <<"nl", ".", "h", ".", "g">>,
    i \o <<"(", "1", ")">>, i \o <<"[", "1", "]">>, <<"h", "[">> \o i \o <<"]">>,
    i \o <<"|>", "h">>, <<"1", "|>">> \o i, <<"h", "(">> \o i \o <<",", "1", ")">>, <<"h">> \o i,
    <<"[">> \o i \o <<"]">>, <<"(">> \o i \o <<",", ")">>, <<"|", "x", "|">> \o i,
    <<"do", "nl">> \o i \o <<"nl", "end">>, <<"if">> \o i \o <<"then", "1", "elsif", "b", "then", "b", "end">>,
    <<"if", "b", "then">> \o i \o <<"end">>, <<"if">> \o i \o <<"nl", "1", "nl", "end">>,
    <<"match">> \o i \o <<"nl", "_", "=>", "1", "nl", "end">>, <<"match", "b", "nl", "_", "=>">> \o i \o <<"nl", "end">>,
    i \o <<"catch!", "(", "x", ")", "nl", "_", "=>", "1", "nl", "end">>,
    <<"let", "x", "=">> \o i, <<"let", "(", "x", ",", "_", ")", "=", "[">> \o i \o <<"]">>,
    <<"a", "+=">> \o i, <<"return">> \o i,
    <<"throw">> \o i, <<"while">> \o i \o <<"nl", "break", "nl", "end">>,
    <<"for", "x", "in">> \o i \o <<"nl", "continue", "nl", "return", "nl", "end">> }

\* Items, with a statement in their bodies.
Declarations == {
  <<"import", "m", "::", "a">>, <<"import", "1">>,
  <<"pub", "def", "f", "<", "A", ":", "P", ",", "P", ":", "{", "def", "a", "(", "self", ")", ",", "def", "b", "(", "x", ":", "A", ")",
    ":", "P", "throws", "m", ".", "A", "}", ">", "(", "x", ":", "A", "<", "P", ",", "m", ".", "P", ">", ")", ":", "(", "A", ",", ")", "->", "P",
    "throws", "A", "|", "m", ".", "P", "nl", "nl", "end">>,
  <<"struct", "P", "nl", "x", ":", "A", "def", "f", "(", "self", ",", "x", ":", "A", ")", "throws", "never", "a", "nl", "end", "b", ":",
    "(", ")", "->", "(", "A", ",", "P", ")", "nl", "pub", "def", "g", "(", ")", "nl", "end", "nl", "end">>,
  <<"struct", "P", "end">>, <<"pub", "enum", "A", "<", "P", ">", "nl", "A", "P", "(", "x", ":", "P", ",", "a", ":", "(", "A", ",", ")", ",", ")", "nl", "end">>,
  <<"interface", "A", "nl", "def", "f", "(", "self", ")", "nl", "def", "g", "(", ")", ":", "P", "end">>,
  <<"pub", "let", "mut", "x", ":", "A", "<", "P", ">", "=", "a">>, <<"pub", "let", "(", "x", ",", "_", ")", "=", "a">>,
  <<"test", "1", "nl", "a", "nl", "end">>, <<"test", "1", "if", "a", "then", "b", "end", "+", "1", "end">>,
  <<"if", "a", "nl", "let", "mut", "x", "=", "1", "nl", "let", "f", ":", "A", "=", "b", "nl", "end">>,
  <<"a", "catch", "(", "x", ")", "nl", "m", ".", "A", "|", "P", "|", "_", "if", "b", "=>", "b", "nl", "end">>}

MCSources ==
  {s \o <<"nl", "eof">> : s \in UNION {Around(i) \cup Around(<<"(">> \o i \o <<")">>) : i \in Inner}}
    \cup {<<"nl">> \o i \o <<"nl", "nl">> \o j \o <<"nl", "eof">> : i, j \in Declarations}

\* A library, and the programs that import it, or not: two statements in one of
\* several forms, or two items.
MCLoaded == <<"m", "a">> :> 1
MCPanics == {<<"panics", "A">>}
MCNativeErrors == {<<"m", "A">>}
Library == <<"pub", "def", "f", "(", ")", "nl", "end", "nl", "def", "g", "(", ")", "nl", "end", "nl",
             "pub", "enum", "A", "nl", "A", "end", "nl", "enum", "P", "nl", "P", "nl", "end", "nl",
             "pub", "let", "(", "x", ",", "y", ")", "=", "h", "nl", "eof">>

Steps == {
  <<"let", "x", "=", "x">>, <<"let", "y", "=", "x">>, <<"let", "(", "x", ",", "y", ")", "=", "y">>, <<"let", "_", "=", "x">>,
  <<"x", "+=", "y">>, <<"x", ".", "f", "+=", "y">>, <<"y", "[", "x", "]", "+=", "x">>, <<"x", "=", "y">>,
  <<"for", "x", "in", "x", "nl", "y", "nl", "let", "x", "=", "x", "nl", "end">>,
  <<"match", "x", "nl", "A", "(", "x", ")", "if", "x", "=>", "y", "nl", "(", "y", ",", "y", ")", "=>", "nl", "let", "y", "=", "y", "nl", "x", "nl", "end">>,
  <<"x", "catch", "(", "y", ")", "nl", "a", ".", "A", "|", "P", "|", "panics", ".", "A", "|", "panics", ".", "P", "|", "m", ".", "A", "|", "m", ".", "P", "=>", "y", "nl", "_", "if", "x", "=>", "y", "nl", "end">>,
  <<"f", "|", "x", "|", "x", "+", "y">>, <<"f", "|", "(", "x", ",", "y", ")", ",", "(", "f", ",", "_", ")", "|", "x", "|>", "f", "(", "y", ")">>,
  <<"f", "|", "x", ",", "x", "|", "x">>, <<"f", "|", "(", "x", ",", "y", ")", ",", "x", "|", "x">>, <<"f", "|", "_", ",", "_", "|", "x">>,
  <<"f", "(", "x", "??", "y", ",", "x", "?.", "f", "(", "y", ")", ")">>, <<"y", "?.", "x", "??", "self">>,
  <<"f", "do", "|", "y", "|", "nl", "let", "x", "=", "y", "nl", "let", "y", "=", "x", "nl", "end">>,
  <<"if", "x", "nl", "let", "x", "=", "y", "nl", "x", "nl", "else", "nl", "let", "y", "=", "x", "nl", "y", "nl", "end">>,
  <<"while", "x", "nl", "let", "(", "x", ",", "f", ")", "=", "x", "nl", "x", "nl", "end">>,
  <<"a", ".", "x">>, <<"a", ".", "g">>, <<"f", "(", "a", ".", "A", ",", "a", ".", "P", ",", "A", ",", "P", "{", "x", ":", "x", "}", ")">>,
  <<"throw", "self">>, <<"let", "a", "=", "a">>}

Bodies == {s \o <<"nl">> \o t \o <<"nl">> : s, t \in Steps}
Forms(b) == {
  b, <<"import", "m", "::", "a", "nl">> \o b \o <<"let", "y", "=", "1", "nl">>,
  <<"let", "y", "=", "1", "nl", "def", "f", "(", "x", ":", "A", ")", "nl">> \o b \o <<"end", "nl", "let", "x", "=", "y", "nl">>,
  <<"enum", "A", "nl", "A", "end", "nl", "struct", "P", "nl", "x", ":", "A", "def", "f", "(", "self", ",", "y", ":", "P", ")", "nl">> \o b \o <<"end", "nl", "end", "nl">>,
  <<"import", "m", "::", "a", "nl", "test", "1">> \o b \o <<"end", "nl", "pub", "let", "(", "x", ",", "y", ")", "=", "1", "nl">>,
  <<"let", "x", "=", "||", "match", "y", "nl", "A", "(", "y", ")", "=>", "nl">> \o b \o <<"end", "nl", "let", "y", "=", "x", "nl">>}

Repetitions == {
  <<"struct", "P", "nl", "def", "f", "(", ")", "nl", "end", "nl", "f", ":", "P", "def", "f", "(", ")", "nl", "end", "nl", "x", ":", "A", "x", ":", "A", "end">>,
  <<"enum", "P", "nl", "A", "(", "x", ":", "P", ",", "x", ":", "A", ")", "A", "P", "nl", "end">>,
  <<"interface", "A", "nl", "def", "f", "(", ")", ":", "Self", "nl", "def", "f", "(", ")", "nl", "end">>,
  <<"def", "g", "<", "A", ":", "{", "def", "f", "(", "x", ":", "Self", ")", ",", "def", "f", "(", ")", "}", ",", "A", ":", "P", ">", "(", "x", ":", "A", ",", "x", ":", "Self", ")", "nl", "f", "|", "x", "|", "A", "(", "x", ",", "m", ".", "A", ")", "nl", "end">>}

MCPrograms ==
  {<<Library, f \o <<"eof">>>> : f \in UNION {Forms(b) : b \in Bodies}}
    \cup {<<Library, i \o <<"nl">> \o j \o <<"nl", "eof">>>> : i, j \in Declarations \cup Repetitions}

DataInit ==
  /\ part \in {"budget", "tables", "match", "modules", "format", "names"}
  /\ Init /\ TableInit
  /\ IF part = "format" THEN FormatInit ELSE report = [result |-> "none"]
  /\ IF part = "names" THEN ResolverInit ELSE resolution = [stage |-> "none"]
  /\ IF part = "match" THEN MatchInit ELSE type = open /\ arms = <<>>
  /\ IF part = "modules" THEN LoaderInit
     ELSE disk = <<>> /\ overlay = <<>> /\ editor = FALSE /\ loading = <<>>
          /\ modules = <<>> /\ diagnostics = {} /\ entry = 0
          /\ bundle = <<>> /\ unpacking = <<>> /\ restored = <<>> /\ became = NoImports

DataNext ==
  /\ \/ part = "budget" /\ Next /\ UNCHANGED <<tables, work, type, arms, loader, report, resolution>>
     \/ part = "tables" /\ TableNext /\ UNCHANGED <<vars, type, arms, loader, report, resolution>>
     \/ part = "match" /\ WriteArm /\ UNCHANGED <<vars, tables, work, loader, report, resolution>>
     \/ part = "modules" /\ LoaderNext /\ UNCHANGED <<vars, tables, work, type, arms, report, resolution>>
     \/ part = "format" /\ FormatFile /\ UNCHANGED <<vars, tables, work, type, arms, loader, resolution>>
     \/ part = "names" /\ ResolverNext /\ UNCHANGED <<vars, tables, work, type, arms, loader, report>>
  /\ UNCHANGED part

DataSpec == DataInit /\ [][DataNext]_<<part, vars, tables, work, type, arms, loader, report, resolution>>
=============================================================================
