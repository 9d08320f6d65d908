----------------------------- MODULE Formatter -----------------------------
(***************************************************************************)
(* The formatter (brasa_fmt): from a tree back to tokens.                  *)
(*                                                                         *)
(* Printing is a function of the tree and of the source it was parsed      *)
(* from, which is read where the tree does not say how something was       *)
(* spelled.  p is the printer: p.src, the source without the newlines that *)
(* mean nothing, and p.fits, whether what may be broken over lines fits on *)
(* one; widths, indentation, spellings and comments are left out.          *)
(***************************************************************************)
EXTENDS Syntax

P_LAMBDA == 5
P_PIPE == 10
P_COALESCE == 20
P_RANGE == 70
P_UNARY == 105
P_POSTFIX == 110
P_PRIMARY == 120

binary_bp(op) == binding_power[op]

\* Faulty variant: a binary node binds as its left side does.
prec_OfLeftSide(e) ==
  CASE e.k \in {"lambda", "do"} -> P_LAMBDA
    [] e.k = "pipe" -> P_PIPE
    [] e.k = "coalesce" -> P_COALESCE
    [] e.k = "range" -> P_RANGE
    [] e.k = "binary" -> binary_bp(e.x)[1]
    [] e.k = "unary" -> P_UNARY
    [] e.k \in {"call", "field", "safe", "safe_call", "index", "catch", "catch!"} -> P_POSTFIX
    [] OTHER -> P_PRIMARY

\* How tightly a node binds: a binary one as its looser side.
prec(e) ==
  CASE e.k \in {"lambda", "do"} -> P_LAMBDA
    [] e.k = "pipe" -> P_PIPE
    [] e.k = "coalesce" -> P_COALESCE
    [] e.k = "range" -> P_RANGE
    [] e.k = "binary" -> Min(Range(binary_bp(e.x)))
    [] e.k = "unary" -> P_UNARY
    [] e.k \in {"call", "field", "safe", "safe_call", "index", "catch", "catch!"} -> P_POSTFIX
    [] OTHER -> P_PRIMARY

-----------------------------------------------------------------------------
(* What is read back from the source.  A span counts the tokens left.        *)

Text(p, from, to) == SubSeq(p.src, Len(p.src) - from + 1, Len(p.src) - to)
TokenAt(p, left) == p.src[Len(p.src) - left + 1]
TokenBefore(p, left) == p.src[Len(p.src) - left]

\* call_shape: a bare name with no parenthesis before its first argument.
HasParens(p, callee, first) == Contains(Text(p, callee.at[2], first.at[1]), "(")
IsCommand(p, callee, args) ==
  args # <<>> /\ callee.k = "name" /\ ~HasParens(p, callee, args[1])

\* is_inline_if: then right after the first condition.
IsInlineIf(p, e) == TokenAt(p, e.c[1].at[2]) = "then"

\* dot_on_new_line: the next dot after the receiver, on another line.
DotOnNewLine(p, recv) ==
  LET rest == Text(p, recv.at[2], 0)
      dots == {i \in DOMAIN rest : rest[i] \in {".", "?.", ".."}}
  IN  \E i \in dots : (\A j \in dots : i <= j) /\ \E j \in 1 .. i : rest[j] = "nl"

-----------------------------------------------------------------------------
Flat(texts) == FlattenSeq(texts)
Separated(texts, separator) ==
  Flat([i \in DOMAIN texts |-> IF i = 1 THEN texts[i] ELSE <<separator>> \o texts[i]])
OnOneLine(p, text) == p.fits /\ ~Contains(text, "nl")

\* arg_list, delimited, tuple and wrap_pairs, but for a lone argument: on one
\* line, or an item per line with a comma after each.
Delimited(p, open, items, close) ==
  LET flat == open \o Separated(items, ",") \o <<close>>
      broken == open \o Flat([i \in DOMAIN items |-> <<"nl">> \o items[i] \o <<",">>]) \o <<"nl", close>>
  IN  IF items = <<>> \/ OnOneLine(p, flat) THEN flat ELSE broken

\* chain_links: the receiver of a run of members, and the run: each with its
\* name, whether it is called, its arguments and its receiver.
RECURSIVE chain_links(_)
chain_links(e) ==
  LET link(l, recv, called, args) ==
        LET before == chain_links(recv)
        IN  [base |-> before.base,
             links |-> Append(before.links, [dot |-> IF l.k = "field" THEN "." ELSE "?.", name |-> l.x,
                                             called |-> called, args |-> args, recv |-> recv])]
  IN  CASE e.k = "call" /\ e.c[1].k = "field" -> link(e.c[1], e.c[1].c[1], TRUE, Tail(e.c))
        [] e.k \in {"field", "safe"} -> link(e, e.c[1], FALSE, <<>>)
        [] e.k = "safe_call" -> link(e, e.c[1], TRUE, Tail(e.c))
        [] OTHER -> [base |-> e, links |-> <<>>]

RECURSIVE expr(_, _), pattern(_), stmt(_, _)

path(x) == IF x[1] = "" THEN <<x[2]>> ELSE <<x[1], ".", x[2]>>
exprs(p, es) == [i \in DOMAIN es |-> expr(p, es[i])]
patterns(ps) == Separated([i \in DOMAIN ps |-> pattern(ps[i])], ",")

pattern(e) ==
  CASE e.k = "ctor" /\ e.c = <<>> -> path(e.x)
    [] e.k = "ctor" /\ e.c # <<>> -> path(e.x) \o <<"(">> \o patterns(e.c) \o <<")">>
    [] e.k = "tuple" -> <<"(">> \o patterns(e.c) \o <<")">>
    [] OTHER -> <<e.x>>

\* A child that must bind as tightly as min_prec: this is where parentheses
\* are put back.
child(p, e, min_prec) ==
  IF prec(e) >= min_prec THEN expr(p, e) ELSE <<"(">> \o expr(p, e) \o <<")">>

arg_list(p, head, args) ==
  IF Len(args) = 1 THEN head \o <<"(">> \o expr(p, args[1]) \o <<")">>
  ELSE Delimited(p, head \o <<"(">>, exprs(p, args), ")")

\* A trailing do-block goes after the parentheses, if there are any.
with_block(p, head, args, parens) ==
  (IF parens \/ Len(args) > 1 THEN arg_list(p, head, Front(args)) ELSE head) \o expr(p, Last(args))

call(p, callee, args) ==
  LET head == child(p, callee, P_POSTFIX)
  IN  IF args # <<>> /\ Last(args).k = "do"
      THEN with_block(p, head, args, HasParens(p, callee, args[1]))
      ELSE IF IsCommand(p, callee, args) THEN head \o Separated(exprs(p, args), ",")
      ELSE arg_list(p, head, args)

chain_link(p, link) ==
  LET head == <<link.dot, link.name>>
      parens == TokenBefore(p, Last(link.args).at[1]) \in {"(", ")"}
  IN  IF ~link.called THEN head
      ELSE IF link.args # <<>> /\ Last(link.args).k = "do" THEN with_block(p, head, link.args, parens)
      ELSE arg_list(p, head, link.args)

\* try_chain: two members or more are kept together, broken before each if
\* they were, or do not fit on a line.
chain(p, links, base) ==
  LET text == child(p, base, P_POSTFIX)
      rendered == [i \in DOMAIN links |-> chain_link(p, links[i])]
      split == \E i \in DOMAIN links : DotOnNewLine(p, links[i].recv)
      flat == text \o Flat(rendered)
  IN  IF ~split /\ OnOneLine(p, flat) THEN flat
      ELSE text \o Flat([i \in DOMAIN links |-> <<"nl">> \o rendered[i]])

pipe(p, lhs, target) ==
  LET left == child(p, lhs, P_PIPE)
      right == child(p, target, P_POSTFIX)
  IN  IF OnOneLine(p, left \o right) THEN left \o <<"|>">> \o right
      ELSE left \o <<"nl", "|>">> \o right

block(p, stmts) == Flat([i \in DOMAIN stmts |-> <<"nl">> \o stmt(p, stmts[i])])

lambda_params_text(e) ==
  IF e.x = 0 THEN <<"||">> ELSE <<"|">> \o patterns(SubSeq(e.c, 1, e.x)) \o <<"|">>
lambda(p, e) ==
  IF e.k = "lambda" THEN lambda_params_text(e) \o expr(p, Last(e.c))
  ELSE <<"do">> \o (IF e.x = 0 THEN <<>> ELSE lambda_params_text(e))
         \o block(p, SubSeq(e.c, e.x + 1, Len(e.c))) \o <<"nl", "end">>

\* A dotted name.
dotted(segments) == Separated([i \in DOMAIN segments |-> <<segments[i]>>], ".")

\* arm: the body goes where it was written.
arm(p, a) ==
  LET head == IF a.c[1].k = "types" THEN Separated([i \in DOMAIN a.c[1].x |-> dotted(a.c[1].x[i])], "|")
              ELSE pattern(a.c[1])
      guard == IF Len(a.c) = 3 THEN <<"if">> \o expr(p, a.c[2]) ELSE <<>>
      body == Last(a.c)
      inline == Len(body.c) = 1 /\ TokenBefore(p, body.c[1].at[1]) = "=>"
  IN  <<"nl">> \o head \o guard \o <<"=>">>
        \o (IF body.k # "block" THEN expr(p, body)
            ELSE IF inline THEN stmt(p, body.c[1]) ELSE block(p, body.c))

arm_lines(p, as) == Flat([i \in DOMAIN as |-> arm(p, as[i])]) \o <<"nl", "end">>

if_node(p, e) ==
  LET inline == IsInlineIf(p, e)
      body(b) == IF inline THEN <<"then">> \o expr(p, b.c[1]) ELSE block(p, b.c)
      eol == IF inline THEN <<>> ELSE <<"nl">>
      n == Len(e.c) \div 2
      branch(i) == (IF i = 1 THEN <<"if">> ELSE eol \o <<"elsif">>)
                     \o expr(p, e.c[2 * i - 1]) \o body(e.c[2 * i])
      else_(b) == eol \o <<"else">> \o (IF inline THEN expr(p, b.c[1]) ELSE block(p, b.c))
  IN  Flat([i \in 1 .. n |-> branch(i)])
        \o (IF Len(e.c) = 2 * n THEN <<>> ELSE else_(Last(e.c))) \o eol \o <<"end">>

expr(p, e) ==
  LET run == chain_links(e)
      at(i, min_prec) == child(p, e.c[i], min_prec)
      pairs == [i \in 1 .. Len(e.c) \div 2 |-> expr(p, e.c[2 * i - 1]) \o <<":">> \o expr(p, e.c[2 * i])]
  IN  CASE Len(run.links) >= 2 -> chain(p, run.links, run.base)
        [] e.k \in {"literal", "name", "self", "unit", "key"} -> <<e.x>>
        [] e.k = "ctor" -> IF e.c = <<>> THEN path(e.x) ELSE arg_list(p, path(e.x), e.c)
        [] e.k = "call" /\ Len(run.links) < 2 -> call(p, e.c[1], Tail(e.c))
        [] e.k = "field" /\ Len(run.links) < 2 -> at(1, P_POSTFIX) \o <<".", e.x>>
        [] e.k = "safe" /\ Len(run.links) < 2 -> at(1, P_POSTFIX) \o <<"?.", e.x>>
        [] e.k = "safe_call" /\ Len(run.links) < 2 ->
             arg_list(p, at(1, P_POSTFIX) \o <<"?.", e.x>>, Tail(e.c))
        [] e.k = "index" -> at(1, P_POSTFIX) \o <<"[">> \o expr(p, e.c[2]) \o <<"]">>
        [] e.k = "unary" -> <<e.x>> \o at(1, P_UNARY)
        [] e.k = "binary" -> at(1, binary_bp(e.x)[1]) \o <<e.x>> \o at(2, binary_bp(e.x)[2])
        [] e.k = "coalesce" -> at(1, P_COALESCE + 1) \o <<"??">> \o at(2, P_COALESCE)
        [] e.k = "range" -> at(1, P_RANGE + 1) \o <<"..">> \o at(2, P_RANGE + 1)
        [] e.k = "pipe" -> pipe(p, e.c[1], e.c[2])
        [] e.k = "vector" -> Delimited(p, <<"[">>, exprs(p, e.c), "]")
        [] e.k = "tuple" ->
             IF Len(e.c) > 1 \/ ~OnOneLine(p, expr(p, e.c[1])) THEN Delimited(p, <<"(">>, exprs(p, e.c), ")")
             ELSE <<"(">> \o expr(p, e.c[1]) \o <<",", ")">>
        [] e.k = "map" -> Delimited(p, <<"{">>, pairs, "}")
        [] e.k = "struct" -> Delimited(p, path(e.x) \o <<"{">>, pairs, "}")
        [] e.k \in {"lambda", "do"} -> lambda(p, e)
        [] e.k = "if" -> if_node(p, e)
        [] e.k = "match" -> <<"match">> \o expr(p, e.c[1]) \o arm_lines(p, Tail(e.c))
        [] e.k \in {"catch", "catch!"} ->
             at(1, P_POSTFIX) \o <<e.k, "(", e.x, ")">> \o arm_lines(p, Tail(e.c))

\* A type, as it was written.
RECURSIVE ty(_)
ty(t) ==
  LET all(ts) == Separated([i \in DOMAIN ts |-> ty(ts[i])], ",")
  IN  CASE t.k = "type" ->
             IF t.c = <<>> THEN path(t.x) ELSE path(t.x) \o <<"<">> \o all(t.c) \o <<">">>
        [] t.k = "tuple_type" -> <<"(">> \o all(t.c) \o <<")">>
        [] t.k = "fn_type" -> <<"(">> \o all(Front(t.c)) \o <<")", "->">> \o ty(Last(t.c))

TYPES == {"type", "tuple_type", "fn_type"}
typed_text(e) == <<e.x, ":">> \o ty(e.c[1])

let_stmt(p, mutable, parts) ==
  <<"let">> \o (IF mutable = "mut" THEN <<"mut">> ELSE <<>>) \o pattern(parts[1])
    \o (IF parts[2].k \in TYPES THEN <<":">> \o ty(parts[2]) ELSE <<>>)
    \o <<"=">> \o expr(p, Last(parts))

-----------------------------------------------------------------------------
(* Items.                                                                    *)

OfKind(e, kinds) == SelectSeq(e.c, LAMBDA part : part.k \in kinds)

\* params, ret and throws.
signature_text(e) ==
  LET params == OfKind(e, {"param", "self_param"})
      throws == OfKind(e, {"throws"})
  IN  <<"(">> \o Separated([i \in DOMAIN params |-> IF params[i].k = "param" THEN typed_text(params[i])
                                                   ELSE <<"self">>], ",") \o <<")">>
        \o Flat([i \in DOMAIN OfKind(e, TYPES) |-> <<":">> \o ty(OfKind(e, TYPES)[i])])
        \o (IF throws = <<>> THEN <<>>
            ELSE <<"throws">> \o Separated([i \in DOMAIN throws |-> dotted(throws[i].x)], "|"))
        \o Flat([i \in DOMAIN OfKind(e, {"never"}) |-> <<"throws", "never">>])

iface_member(e) == <<"def", e.x>> \o signature_text(e)

generics_text(e) ==
  LET params == OfKind(e, {"generic"})
      constraint(g) ==
        IF g.c = <<>> THEN <<>>
        ELSE IF g.c[1].k = "constraint" THEN <<":", g.c[1].x>>
        ELSE <<":", "{">> \o Separated([i \in DOMAIN g.c |-> iface_member(g.c[i])], ",") \o <<"}">>
  IN  IF params = <<>> THEN <<>>
      ELSE <<"<">> \o Separated([i \in DOMAIN params |-> <<params[i].x>> \o constraint(params[i])], ",")
             \o <<">">>

public_text(e) == IF e.x.public THEN <<"pub">> ELSE <<>>

func_def(p, e) ==
  public_text(e) \o <<"def", e.x.name>> \o generics_text(e) \o signature_text(e)
    \o block(p, Last(e.c).c) \o <<"nl", "end">>

\* struct_def, enum_def and interface_def: a member per line.
definition_text(p, keyword, e) ==
  LET members == OfKind(e, {"field", "func", "variant", "member"})
      fields(v) == IF v.c = <<>> THEN <<>>
                   ELSE <<"(">> \o Separated([i \in DOMAIN v.c |-> typed_text(v.c[i])], ",") \o <<")">>
      member(n) == CASE n.k = "field" -> typed_text(n)
                     [] n.k = "func" -> func_def(p, n)
                     [] n.k = "variant" -> <<n.x>> \o fields(n)
                     [] OTHER -> iface_member(n)
  IN  public_text(e) \o <<keyword, e.x.name>> \o generics_text(e)
        \o Flat([i \in DOMAIN members |-> <<"nl">> \o member(members[i])]) \o <<"nl", "end">>

item(p, e) ==
  CASE e.k = "import" ->
         <<"import">> \o Separated([i \in DOMAIN e.x |-> <<e.x[i]>>], "::")
    [] e.k = "func" -> func_def(p, e)
    [] e.k = "struct_def" -> definition_text(p, "struct", e)
    [] e.k \in {"enum", "interface"} -> definition_text(p, e.k, e)
    [] e.k = "top_let" -> public_text(e) \o let_stmt(p, e.x.mutable, e.c)
    [] e.k = "test" -> <<"test", e.x>> \o block(p, e.c[1].c) \o <<"nl", "end">>

\* A statement, or an item.
stmt(p, e) ==
  LET of(i) == expr(p, e.c[i])
      loop(head) == head \o block(p, Last(e.c).c) \o <<"nl", "end">>
  IN  CASE e.k = "let" -> let_stmt(p, e.x, e.c)
        [] e.k = "assign" -> of(1) \o <<e.x>> \o of(2)
        [] e.k \in {"return", "throw"} -> <<e.k>> \o Flat(exprs(p, e.c))
        [] e.k \in {"break", "continue"} -> <<e.k>>
        [] e.k = "while" -> loop(<<"while">> \o of(1))
        [] e.k = "for" -> loop(<<"for">> \o pattern(e.c[1]) \o <<"in">> \o of(2))
        [] e.k \in ITEMS -> item(p, e)
        [] OTHER -> expr(p, e)

\* program, with the file's last newline.
program(p, tree) ==
  Tail(Flat([i \in DOMAIN tree.c |-> <<"nl">> \o stmt(p, tree.c[i])])) \o <<"nl", "eof">>

\* A text, what it parses to, and that printed again.
Reading(src, parsed, fits) ==
  [src |-> src, ok |-> parsed.ok, tree |-> parsed.tree,
   out |-> IF parsed.ok THEN program([src |-> Significant(src), fits |-> fits], parsed.tree) ELSE <<>>]

\* The source read, and then what it was printed as.
Readings(src, fits) ==
  LET read(done, i) ==
        LET text == IF i = 1 THEN src ELSE done[1].out IN Append(done, Reading(text, parse(text), fits))
  IN  FoldLeft(read, <<>>, <<1, 2>>)

\* format: the output, unless its own check refuses it.
format(source, output) ==
  CASE ~source.ok -> "parse_error"
    [] source.ok /\ (~output.ok \/ dump(output.tree) # dump(source.tree)) -> "unstable"
    [] OTHER -> "formatted"

-----------------------------------------------------------------------------
(* The shapes that printing does not survive, found in the tree.             *)

\* Without its parentheses, (None)(x) or (a?.f)(x) takes the arguments as its
\* own.
TakesArguments(n) ==
  n.k = "call" /\ (n.c[1].k = "safe" \/ (n.c[1].k = "ctor" /\ n.c[1].c = <<>>))

\* A statement (if ... end) + 1 is printed without them: its if ends it.
RECURSIVE Leftmost(_)
Leftmost(e) ==
  IF e.k \in {"binary", "coalesce", "range", "pipe", "call", "field", "safe", "safe_call", "index",
              "catch", "catch!", "assign"}
  THEN Leftmost(e.c[1]) ELSE e
StartsWithIf(n) ==
  \E i \in DOMAIN Statements(n) : LET s == Statements(n)[i] IN s.k # "if" /\ Leftmost(s).k = "if"

\* Parentheses put around a lambda take the meaning out of its newlines.
RECURSIVE HasLines(_)
HasLines(e) == e.k \in {"match", "catch", "catch!", "do", "if"} \/ \E i \in DOMAIN e.c : HasLines(e.c[i])
Operands(n) ==
  CASE n.k \in {"binary", "coalesce", "range", "pipe", "unary"} -> DOMAIN n.c
    [] n.k \in {"call", "field", "safe", "safe_call", "index", "catch", "catch!"} -> {1}
    [] OTHER -> {}
PutsLinesInParens(n) ==
  \/ \E i \in Operands(n) : n.c[i].k \in {"lambda", "do"} /\ HasLines(n.c[i])
  \/ n.k = "safe_call" /\ Len(n.c) > 1 /\ Last(n.c).k = "do"

\* The then after if (a) is missed; so is the newline between do and |x| in
\* brackets.
LosesThen(p, n) == n.k = "if" /\ ~IsInlineIf(p, n) /\ TokenBefore(p, n.c[2].at[1]) \in {"then", "("}
JoinsDoAndBar(n) == n.k = "do" /\ n.x = 0 /\ Statements(n) # <<>> /\ Leftmost(Statements(n)[1]).k = "lambda"

\* h | | a is printed h || a.
TurnsIntoOr(p, n) ==
  n.k = "call" /\ IsCommand(p, n.c[1], Tail(n.c)) /\ Leftmost(n.c[2]).k = "lambda" /\ Leftmost(n.c[2]).x = 0

RECURSIVE Fragile(_, _)
Fragile(p, n) ==
  \/ TurnsIntoOr(p, n) \/ TakesArguments(n) \/ StartsWithIf(n) \/ PutsLinesInParens(n) \/ LosesThen(p, n) \/ JoinsDoAndBar(n)
  \/ \E i \in DOMAIN n.c : Fragile(p, n.c[i])

-----------------------------------------------------------------------------
(* Formatting one source after another.                                      *)

CONSTANT Sources
VARIABLE report    \* of a source, and of whether broken lines fit in one

Met(readings) ==
  LET source == readings[1]
      output == readings[2]
  IN  [src |-> source.src, result |-> format(source, output), stays |-> output.out = source.out,
       fragile |-> source.ok /\ Fragile([src |-> Significant(source.src)], source.tree)]
Report(src, fits) == Met(Readings(src, fits))

FormatInit == report \in [result : {"none"}, src : Sources, fits : BOOLEAN]
FormatFile == report.result = "none" /\ report' = Report(report.src, report.fits)

\* The formatter "returns FormatError::Unstable instead of silently handing
\* back rewritten semantics", and that is "always a bug in this crate": it
\* puts back every parenthesis the tree dropped, except in the shapes above,
\* and what it hands back it leaves alone when it meets it again.
FormattingIsStable ==
  /\ report.result = "unstable" => report.fragile
  /\ report.result = "formatted" => report.stays
=============================================================================
