------------------------------- MODULE Syntax -------------------------------
(***************************************************************************)
(* The parser (brasa_parser): from tokens to the tree of a file.           *)
(*                                                                         *)
(* A parsing operator takes the tokens not yet consumed and answers what   *)
(* it built, e, and the tokens left, s.  The first error ends the parse:   *)
(* nothing accepts what is left then.  A node is                           *)
(*   [k, x, c, at]   its kind, its name or operator, its children, and     *)
(* its span, as the number of tokens left where it starts and after it.    *)
(* Parentheses around an expression leave no node, and the span of what    *)
(* they enclose does not reach them.  The contents of literals, the types  *)
(* of a lambda's parameters and the report of a field given twice are left *)
(* out.                                                                    *)
(***************************************************************************)
EXTENDS Integers, Sequences, FiniteSets, SequencesExt, TLC

CONSTANTS Names, TypeNames, Literals

OPENERS == {"(", "[", "{"}
CLOSERS == {")", "]", "}"}

\* bump and normalize: newlines inside brackets are skipped.  Of a text that
\* starts depth brackets deep, what is kept and how deep it ends; by halves.
RECURSIVE Bumped(_, _)
Bumped(tokens, depth) ==
  LET half == Len(tokens) \div 2
      left == Bumped(SubSeq(tokens, 1, half), depth)
      right == Bumped(SubSeq(tokens, half + 1, Len(tokens)), left.depth)
      after == CASE tokens[1] \in OPENERS -> depth + 1
                 [] tokens[1] \in CLOSERS /\ depth > 0 -> depth - 1
                 [] OTHER -> depth
  IN  CASE Len(tokens) = 0 -> [kept |-> <<>>, depth |-> depth]
        [] Len(tokens) = 1 -> [kept |-> IF tokens[1] = "nl" /\ depth > 0 THEN <<>> ELSE tokens, depth |-> after]
        [] OTHER -> [kept |-> left.kept \o right.kept, depth |-> right.depth]
Significant(tokens) == Bumped(tokens, 0).kept

Kind(s) ==
  IF s = <<>> THEN "error" ELSE
  CASE Head(s) \in Names -> "name"
    [] Head(s) \in TypeNames -> "type"
    [] Head(s) \in Literals -> "literal"
    [] OTHER -> Head(s)

Stuck == <<"error">>
At(s, kinds) == Kind(s) \in kinds
Expect(s, kind) == IF Kind(s) = kind THEN Tail(s) ELSE Stuck

Got(e, s) == [e |-> e, s |-> s]
Leaf(k, x, s) == Got([k |-> k, x |-> x, c |-> <<>>, at |-> <<Len(s), Len(s) - 1>>], Tail(s))
Tree(k, x, c, from, s) == Got([k |-> k, x |-> x, c |-> c, at |-> <<from, Len(s)>>], s)
Failed == Got([k |-> "unit", x |-> "", c |-> <<>>, at |-> <<1, 1>>], Stuck)

RECURSIVE SkipSeps(_)
SkipSeps(s) == IF Kind(s) = "nl" THEN SkipSeps(Tail(s)) ELSE s

\* try_continue_across_newlines
Continued(s) ==
  LET rest == SkipSeps(s)
  IN  IF At(rest, {"|>", ".", "?."}) THEN rest ELSE s

\* line_has_top_level_fat_arrow
StartsArm(s) ==
  LET ends == CHOOSE i \in DOMAIN s :
                s[i] \in {"nl", "eof", "error"} /\ \A j \in 1 .. i - 1 : s[j] \notin {"nl", "eof", "error"}
      count(S, i) == Cardinality({j \in 1 .. i - 1 : s[j] \in S})
  IN  \E i \in 1 .. ends : s[i] = "=>" /\ count(OPENERS, i) <= count(CLOSERS, i)

-----------------------------------------------------------------------------
(* Precedence: the left and right binding powers.                            *)

binding_power ==
  [op \in {"??"} |-> <<21, 20>>] @@ [op \in {"||"} |-> <<30, 31>>] @@
  [op \in {"&&"} |-> <<40, 41>>] @@ [op \in {"=="} |-> <<50, 51>>] @@
  [op \in {"<"} |-> <<60, 61>>] @@ [op \in {".."} |-> <<70, 70>>] @@
  [op \in {"+", "-"} |-> <<80, 81>>] @@ [op \in {"*"} |-> <<90, 91>>] @@
  [op \in {"**"} |-> <<101, 100>>]
UNARY_BP == 105

BuiltBy(op) == CASE op = ".." -> "range" [] op = "??" -> "coalesce" [] OTHER -> "binary"

STARTS_COMMAND_ARG ==
  {"literal", "name", "type", "self", "unit", "{", "|", "-", "!", "if", "match"}

-----------------------------------------------------------------------------
(* What the grammar refers to before it is defined.                          *)

RECURSIVE Parse(_, _)
parse_expr(s) == Parse("expr", s)
parse_stmt(s) == Parse("stmt", s)
parse_pattern(s) == Parse("pattern", s)
parse_postfix(s) == Parse("postfix", s)
parse_do(s) == Parse("do", s)
parse_type(s) == Parse("type", s)

\* The pair of a map or of a struct literal.
paired(s, what) ==
  LET key == IF what = "entry" THEN parse_expr(s) ELSE Leaf("key", Head(s), s)
      value == parse_expr(Expect(key.s, ":"))
  IN  Got(<<key.e, value.e>>, value.s)

lambda_param(s) ==
  CASE Kind(s) = "(" -> parse_pattern(s)
    [] Kind(s) \in {"_", "name"} -> Leaf(Kind(s), Head(s), s)
    [] OTHER -> Failed

\* A comma-separated list up to its closer, as a sequence; a trailing comma
\* is allowed.
Item(s, what) ==
  LET one == Parse(what, s)
  IN  IF what \in {"entry", "field"} THEN one ELSE Got(<<one.e>>, one.s)

RECURSIVE parse_list(_, _, _)
parse_list(s, closer, what) ==
  LET first == Item(s, what)
      rest == parse_list(Tail(first.s), closer, what)
  IN  IF Kind(s) = closer THEN Got(<<>>, Tail(s))
      ELSE IF Kind(first.s) = "," THEN Got(first.e \o rest.e, rest.s)
      ELSE Got(first.e, Expect(first.s, closer))

\* parse_lambda_params_if_present
lambda_params(s) ==
  CASE Kind(s) = "||" -> Got(<<>>, Tail(s))
    [] Kind(s) = "|" -> parse_list(Tail(s), "|", "param")
    [] OTHER -> Got(<<>>, s)

-----------------------------------------------------------------------------
(* Blocks and arms.  A statement that is an expression is its node.          *)

Single(r) == Got([k |-> "block", x |-> "", c |-> <<r.e>>, at |-> r.e.at], r.s)

RECURSIVE BlockLoop(_, _, _, _)
BlockLoop(s, stmts, terminators, from) ==
  LET r == parse_stmt(s)
      next == SkipSeps(r.s)
      separated == next # r.s \/ At(next, terminators \cup {"eof"})
  IN  IF At(s, terminators \cup {"eof"}) THEN Tree("block", "", stmts, from, s)
      ELSE IF Kind(s) = "error" \/ ~separated THEN Failed
      ELSE BlockLoop(next, Append(stmts, r.e), terminators, from)

parse_block(s, terminators) == BlockLoop(SkipSeps(s), <<>>, terminators, Len(s))

\* parse_do_lambda_body: a lambda whose body is a block.
do_lambda(s) ==
  LET params == lambda_params(Tail(s))
      body == parse_block(params.s, {"end"})
  IN  Tree("do", Len(params.e), params.e \o body.e.c, Len(s), Expect(body.s, "end"))

\* A constructor or a struct literal; module is the stem of its path, if any.
parse_type_ident(s, module, from) ==
  LET rest == Tail(s)
      fields == parse_list(Tail(rest), "}", "field")
      args == IF Kind(rest) = "(" THEN parse_list(Tail(rest), ")", "expr") ELSE Got(<<>>, rest)
      name == <<module, Head(s)>>
  IN  IF Kind(rest) = "{" THEN Tree("struct", name, fields.e, from, fields.s)
      ELSE Tree("ctor", name, args.e, from, args.s)

\* parse_if, after a condition: <<condition, block, ...>>, with a last block
\* when there is an else.
RECURSIVE IfTail(_, _, _)
IfTail(r, inline, from) ==
  LET branch == IF inline THEN Single(parse_expr(Expect(r.s, "then")))
                ELSE parse_block(r.s, {"elsif", "else", "end"})
      parts == Append(r.e, branch.e)
      rest == Tail(branch.s)
      cond == parse_expr(rest)
      last == IF inline THEN Single(parse_expr(rest)) ELSE parse_block(rest, {"end"})
  IN  CASE Kind(branch.s) = "elsif" -> IfTail(Got(Append(parts, cond.e), cond.s), inline, from)
        [] Kind(branch.s) = "else" ->
             Tree("if", "", Append(parts, last.e), from, Expect(last.s, "end"))
        [] OTHER -> Tree("if", "", parts, from, Expect(branch.s, "end"))

RECURSIVE CommandArgs(_, _)
CommandArgs(s, args) ==
  LET r == parse_expr(s)
  IN  IF Kind(r.s) = "," THEN CommandArgs(Tail(r.s), Append(args, r.e))
      ELSE Got(Append(args, r.e), r.s)

\* The sugar puts a, b for puts(a, b), where a statement could stand.
maybe_apply_command_call(r, from) ==
  LET args == CommandArgs(r.s, <<>>)
  IN  IF r.e.k = "name" /\ At(r.s, STARTS_COMMAND_ARG)
      THEN Tree("call", "", <<r.e>> \o args.e, from, args.s) ELSE r

\* An arm's block also ends where the line starts another arm.
RECURSIVE ArmBlockLoop(_, _, _)
ArmBlockLoop(s, stmts, from) ==
  LET r == parse_stmt(s)
  IN  IF At(s, {"end", "eof", "error"}) \/ StartsArm(s) THEN Tree("block", "", stmts, from, s)
      ELSE ArmBlockLoop(SkipSeps(r.s), Append(stmts, r.e), from)

\* An expression, or a block if it starts a line; a jump is a block of one.
parse_arm_body(s) ==
  CASE Kind(s) = "nl" -> ArmBlockLoop(SkipSeps(s), <<>>, Len(s))
    [] Kind(s) \in {"throw", "return", "break", "continue"} -> Single(parse_stmt(s))
    [] OTHER -> maybe_apply_command_call(parse_expr(s), Len(s))

\* A name, and the ones after it that a dot leads to.
RECURSIVE parse_qualified_type_name(_, _)
parse_qualified_type_name(s, name) ==
  LET next == Tail(s)
      got == Append(name, Head(s))
  IN  IF ~At(s, {"name", "type"}) THEN Failed
      ELSE IF Kind(next) = "." /\ At(Tail(next), {"name", "type"})
      THEN parse_qualified_type_name(Tail(next), got)
      ELSE Got(got, next)

RECURSIVE CatchTypes(_, _, _)
CatchTypes(s, types, from) ==
  LET one == IF Kind(s) = "_" THEN Got(<<"_">>, Tail(s)) ELSE parse_qualified_type_name(s, <<>>)
      got == Append(types, one.e)
  IN  IF Kind(one.s) = "error" THEN Failed
      ELSE IF Kind(one.s) = "|" THEN CatchTypes(Tail(one.s), got, from)
      ELSE Tree("types", got, <<>>, from, one.s)

\* The arms of a match or a catch: pattern, guard if any, body.
RECURSIVE ArmLoop(_, _, _, _)
ArmLoop(s, parts, head, from) ==
  LET pattern == IF head.k = "match" THEN parse_pattern(s) ELSE Parse("catch_types", s)
      guarded == Kind(pattern.s) = "if"
      guard == IF guarded THEN parse_expr(Tail(pattern.s)) ELSE Got(pattern.e, pattern.s)
      body == Parse("arm_body", Expect(guard.s, "=>"))
      arm == Tree("arm", "", <<pattern.e>> \o (IF guarded THEN <<guard.e>> ELSE <<>>) \o <<body.e>>,
                  Len(s), body.s)
  IN  IF Kind(s) = "end" THEN Tree(head.k, head.x, parts, from, Tail(s))
      ELSE IF At(s, {"eof", "error"}) THEN Failed
      ELSE ArmLoop(SkipSeps(arm.s), Append(parts, arm.e), head, from)

-----------------------------------------------------------------------------
(* Expressions.                                                              *)

parse_primary(s) ==
  LET rest == Tail(s)
      inner == parse_expr(rest)
      list(k, closer, what) == LET l == parse_list(rest, closer, what)
                               IN  Tree(k, "", l.e, Len(s), l.s)
  IN  CASE Kind(s) \in {"literal", "name", "self", "unit"} -> Leaf(Kind(s), Head(s), s)
        [] Kind(s) = "type" -> parse_type_ident(s, "", Len(s))
        [] Kind(s) = "(" /\ Kind(inner.s) # "," -> Got(inner.e, Expect(inner.s, ")"))
        [] Kind(s) = "(" /\ Kind(inner.s) = "," -> list("tuple", ")", "expr")
        [] Kind(s) = "[" -> list("vector", "]", "expr")
        [] Kind(s) = "{" -> list("map", "}", "entry")
        [] Kind(s) = "do" -> parse_do(s)
        [] Kind(s) \in {"|", "||"} ->
             LET params == lambda_params(s)
                 body == parse_expr(params.s)
             IN  Tree("lambda", Len(params.e), Append(params.e, body.e), Len(s), body.s)
        [] Kind(s) = "if" -> IfTail(Got(<<inner.e>>, inner.s), Kind(inner.s) = "then", Len(s))
        [] Kind(s) = "match" -> ArmLoop(SkipSeps(inner.s), <<inner.e>>, [k |-> "match", x |-> ""], Len(s))
        [] OTHER -> Failed

\* A parenthesized list, or a trailing do-block, or both.
parse_call_args(s) ==
  LET listed == IF Kind(s) = "(" THEN parse_list(Tail(s), ")", "expr") ELSE Got(<<>>, s)
      block == parse_do(listed.s)
  IN  IF Kind(listed.s) = "do" THEN Got(Append(listed.e, block.e), block.s) ELSE listed

RECURSIVE PostfixLoop(_, _)
PostfixLoop(l, from) ==
  LET s == Continued(l.s)
      bare == l.e.k = "name"
      again(r) == PostfixLoop(r, from)
      args(t) == parse_call_args(t)
      member == Expect(Tail(s), "name")
      index == parse_expr(Tail(s))
      field == Tree("field", Head(Tail(s)), <<l.e>>, from, member).e
  IN  CASE Kind(s) = "(" \/ (Kind(s) = "do" /\ bare) ->
             again(LET given == args(s) IN Tree("call", "", <<l.e>> \o given.e, from, given.s))
        [] Kind(s) = "[" -> again(Tree("index", "", <<l.e, index.e>>, from, Expect(index.s, "]")))
        [] Kind(s) = "." /\ bare /\ At(Tail(s), {"type"}) ->
             again(parse_type_ident(Tail(s), l.e.x, from))
        [] Kind(s) = "." /\ ~(bare /\ At(Tail(s), {"type"})) ->
             IF At(member, {"(", "do"})
             THEN again(LET given == args(member) IN Tree("call", "", <<field>> \o given.e, from, given.s))
             ELSE again(Got(field, member))
        [] Kind(s) = "?." ->
             IF At(member, {"(", "do"})
             THEN again(LET given == args(member)
                        IN  Tree("safe_call", Head(Tail(s)), <<l.e>> \o given.e, from, given.s))
             ELSE again(Tree("safe", Head(Tail(s)), <<l.e>>, from, member))
        [] Kind(s) \in {"catch", "catch!"} ->
             LET binding == Expect(Tail(s), "(")
                 arms == SkipSeps(Expect(Expect(binding, "name"), ")"))
             IN  again(ArmLoop(arms, <<l.e>>, [k |-> Kind(s), x |-> Head(binding)], from))
        [] OTHER -> Got(l.e, s)

RECURSIVE parse_bp(_, _), BpLoop(_, _, _, _)
parse_unary(s) ==
  LET operand == parse_bp(Tail(s), UNARY_BP)
  IN  IF At(s, {"-", "!"}) THEN Tree("unary", Kind(s), <<operand.e>>, Len(s), operand.s)
      ELSE parse_postfix(s)

\* Ranges do not associate: their right operand stops at another one, which
\* is then an error.
BpLoop(l, min_bp, from, just_built_range) ==
  LET s == Continued(l.s)
      op == Kind(s)
      r == parse_bp(Tail(s), IF op = ".." THEN binding_power[op][2] + 1 ELSE binding_power[op][2])
  IN  IF op \notin DOMAIN binding_power THEN Got(l.e, s)
      ELSE IF binding_power[op][1] < min_bp THEN Got(l.e, s)
      ELSE IF op = ".." /\ just_built_range THEN Failed
      ELSE BpLoop(Tree(BuiltBy(op), op, <<l.e, r.e>>, from, r.s), min_bp, from, op = "..")

parse_bp(s, min_bp) == BpLoop(parse_unary(s), min_bp, Len(s), FALSE)

RECURSIVE PipeLoop(_, _)
PipeLoop(l, from) ==
  LET s == Continued(l.s)
      target == parse_postfix(Tail(s))
  IN  IF Kind(s) # "|>" THEN Got(l.e, s)
      ELSE PipeLoop(Tree("pipe", "", <<l.e, target.e>>, from, target.s), from)

parse_pipe(s) == PipeLoop(parse_bp(s, 0), Len(s))

-----------------------------------------------------------------------------
parse_pattern_inner(s) ==
  LET rest == Tail(s)
      elements == parse_list(rest, ")", "pattern")
      ctor(module, name) ==
        LET after == Tail(name)
            args == IF Kind(after) = "(" THEN parse_list(Tail(after), ")", "pattern") ELSE Got(<<>>, after)
        IN  Tree("ctor", <<module, Head(name)>>, args.e, Len(s), args.s)
      qualified == Kind(s) = "name" /\ Kind(rest) = "." /\ Kind(Tail(rest)) = "type"
  IN  CASE qualified -> ctor(Head(s), Tail(rest))
        [] ~qualified /\ Kind(s) \in {"_", "literal", "name"} -> Leaf(Kind(s), Head(s), s)
        [] Kind(s) = "type" -> ctor("", s)
        [] Kind(s) = "(" -> Tree("tuple", "", elements.e, Len(s), elements.s)
        [] OTHER -> Failed

\* A name, or a path to a type of a module, with its arguments; a tuple of
\* types, or what a function takes and gives.
parse_type_inner(s) ==
  LET qualified == Kind(s) = "name" /\ Kind(Tail(s)) = "."
      member == IF qualified THEN Tail(Tail(s)) ELSE s
      after == Tail(member)
      args == IF Kind(after) = "<" THEN parse_list(Tail(after), ">", "type") ELSE Got(<<>>, after)
      listed == parse_list(Tail(s), ")", "type")
      given == parse_type(Tail(listed.s))
  IN  CASE At(s, {"name", "type", "unit"}) ->
             IF ~At(member, {"name", "type", "unit"}) THEN Failed
             ELSE Tree("type", <<IF qualified THEN Head(s) ELSE "", Head(member)>>, args.e, Len(s), args.s)
        [] Kind(s) = "(" ->
             IF Kind(listed.s) = "->" THEN Tree("fn_type", "", Append(listed.e, given.e), Len(s), given.s)
             ELSE Tree("tuple_type", "", listed.e, Len(s), listed.s)
        [] OTHER -> Failed

\* let and let mut; the type, if there is one, is between pattern and value.
parse_let(s) ==
  LET mutable == Kind(Tail(s)) = "mut"
      at == IF mutable THEN Tail(Tail(s)) ELSE Tail(s)
      pattern == CASE Kind(at) = "name" /\ mutable -> Leaf("name", Head(at), at)
                   [] At(at, {"(", "_", "type", "name"}) /\ ~mutable -> parse_pattern(at)
                   [] OTHER -> Failed
      typed == Kind(pattern.s) = ":"
      type == parse_type(Tail(pattern.s))
      value == parse_expr(Expect(IF typed THEN type.s ELSE pattern.s, "="))
  IN  Tree("let", IF mutable THEN "mut" ELSE "",
           <<pattern.e>> \o (IF typed THEN <<type.e>> ELSE <<>>) \o <<value.e>>, Len(s), value.s)

statement(s) ==
  LET rest == Tail(s)
      value == parse_expr(rest)
      bare == At(rest, {"nl", "eof", "end", "elsif", "else"})
      pattern == IF At(rest, {"(", "_", "type", "name"}) THEN parse_pattern(rest) ELSE Failed
      target == maybe_apply_command_call(parse_expr(s), Len(s))
      loop(head, cond) ==
        LET body == parse_block(cond.s, {"end"})
        IN  Tree(Kind(s), "", head \o <<cond.e, body.e>>, Len(s), Expect(body.s, "end"))
  IN  CASE Kind(s) = "let" -> parse_let(s)
        [] Kind(s) = "return" /\ bare -> Tree("return", "", <<>>, Len(s), rest)
        [] Kind(s) = "throw" \/ (Kind(s) = "return" /\ ~bare) ->
             Tree(Kind(s), "", <<value.e>>, Len(s), value.s)
        [] Kind(s) \in {"break", "continue"} -> Leaf(Kind(s), "", s)
        [] Kind(s) = "if" -> IfTail(Got(<<value.e>>, value.s), Kind(value.s) = "then", Len(s))
        [] Kind(s) = "while" -> loop(<<>>, value)
        [] Kind(s) = "for" -> loop(<<pattern.e>>, parse_expr(Expect(pattern.s, "in")))
        [] OTHER ->
             IF At(target.s, {"=", "+="})
             THEN LET assigned == parse_expr(Tail(target.s))
                  IN  Tree("assign", Kind(target.s), <<target.e, assigned.e>>, Len(s), assigned.s)
             ELSE target

-----------------------------------------------------------------------------
(* Items.  A statement that is one is its node.                              *)

ITEM_STARTS == {"import", "def", "struct", "enum", "interface", "pub", "let"}

\* name: type, for a field or a parameter.
typed(k, s) ==
  LET type == parse_type(Expect(Expect(s, "name"), ":"))
  IN  Tree(k, Head(s), <<type.e>>, Len(s), type.s)

parse_generics(s) == IF Kind(s) = "<" THEN parse_list(Tail(s), ">", "generic") ELSE Got(<<>>, s)

\* A generic parameter, with the interface or the members it must have.
parse_generic(s) ==
  LET name == Expect(s, "type")
      named == Leaf("constraint", Head(Tail(name)), Tail(name))
      constraint == CASE Kind(name) # ":" -> Got(<<>>, name)
                      [] Kind(name) = ":" /\ Kind(Tail(name)) = "{" ->
                           parse_list(Tail(Tail(name)), "}", "member")
                      [] Kind(name) = ":" /\ Kind(Tail(name)) = "type" -> Got(<<named.e>>, named.s)
                      [] OTHER -> Got(<<>>, Stuck)
  IN  Tree("generic", Head(s), constraint.e, Len(s), constraint.s)

RECURSIVE ThrowsTypes(_, _)
ThrowsTypes(s, types) ==
  LET one == parse_qualified_type_name(s, <<>>)
      got == Append(types, Tree("throws", one.e, <<>>, Len(s), one.s).e)
  IN  IF Kind(one.s) = "|" THEN ThrowsTypes(Tail(one.s), got) ELSE Got(got, one.s)

parse_throws(s) ==
  CASE Kind(s) # "throws" -> Got(<<>>, s)
    [] Kind(s) = "throws" /\ Kind(Tail(s)) = "never" ->
         LET never == Leaf("never", "", Tail(s)) IN Got(<<never.e>>, never.s)
    [] OTHER -> ThrowsTypes(Tail(s), <<>>)

\* parse_params, parse_ret and parse_throws.
signature(s) ==
  LET params == parse_list(Expect(s, "("), ")", "declared_param")
      ret == IF Kind(params.s) = ":" THEN parse_type(Tail(params.s)) ELSE params
      throws == parse_throws(ret.s)
  IN  Got(params.e \o (IF Kind(params.s) = ":" THEN <<ret.e>> ELSE <<>>) \o throws.e, throws.s)

named(s, public) == [name |-> Head(s), public |-> public]

parse_func_def(s, public, from) ==
  LET generics == parse_generics(Expect(Tail(s), "name"))
      given == Parse("signature", generics.s)
      body == parse_block(given.s, {"end"})
  IN  Tree("func", named(Tail(s), public), generics.e \o given.e \o <<body.e>>, from, Expect(body.s, "end"))

parse_member(s) ==
  LET given == Parse("signature", Expect(Expect(s, "def"), "name"))
  IN  Tree("member", Head(Tail(s)), given.e, Len(s), given.s)

parse_variant(s) ==
  LET name == Expect(s, "type")
      fields == IF Kind(name) = "(" THEN parse_list(Tail(name), ")", "typed") ELSE Got(<<>>, name)
  IN  Tree("variant", Head(s), fields.e, Len(s), fields.s)

struct_member(s) ==
  LET public == Kind(s) = "pub" /\ Kind(Tail(s)) = "def"
      at == IF public THEN Tail(s) ELSE s
  IN  IF Kind(at) = "def" THEN parse_func_def(at, public, Len(at)) ELSE typed("field", s)

\* The members of a struct, an enum or an interface; only a struct may have
\* none.
RECURSIVE Members(_, _, _)
Members(s, parts, kind) ==
  LET one == Parse(kind, s)
  IN  CASE Kind(s) = "end" -> IF parts = <<>> /\ kind # "struct_def" THEN Got(<<>>, Stuck)
                              ELSE Got(parts, Tail(s))
        [] At(s, {"eof", "error"}) -> Got(<<>>, Stuck)
        [] OTHER -> Members(SkipSeps(one.s), Append(parts, one.e), kind)

definition(kind, s, public, from) ==
  LET generics == parse_generics(Expect(Tail(s), "type"))
      members == Members(SkipSeps(generics.s), <<>>, kind)
  IN  Tree(kind, named(Tail(s), public), generics.e \o members.e, from, members.s)

\* The path of an import: a file, or segments.
RECURSIVE Segments(_, _)
Segments(s, got) ==
  IF Kind(s) # "name" THEN Got(got, Stuck)
  ELSE IF Kind(Tail(s)) = "::" THEN Segments(Tail(Tail(s)), Append(got, Head(s)))
  ELSE Got(Append(got, Head(s)), Tail(s))

parse_import(s) ==
  LET path == CASE Kind(s) = "literal" -> Got(<<Head(s)>>, Tail(s))
                [] Kind(Tail(s)) = "::" -> Segments(s, <<>>)
                [] OTHER -> Got(<<>>, Stuck)
  IN  Tree("import", path.e, <<>>, Len(s) + 1, path.s)

parse_item(s) ==
  LET public == Kind(s) = "pub"
      t == IF public THEN Tail(s) ELSE s
      bound == parse_let(t)
      body == parse_block(Expect(Tail(t), "literal"), {"end"})
  IN  CASE Kind(t) = "import" /\ ~public -> parse_import(Tail(t))
        [] Kind(t) = "def" -> parse_func_def(t, public, Len(s))
        [] Kind(t) = "struct" -> definition("struct_def", t, public, Len(s))
        [] Kind(t) \in {"enum", "interface"} -> definition(Kind(t), t, public, Len(s))
        [] Kind(t) = "let" ->
             Tree("top_let", [mutable |-> bound.e.x, public |-> public], bound.e.c, Len(s), bound.s)
        [] Kind(t) = "test" /\ ~public -> Tree("test", Head(Tail(t)), <<body.e>>, Len(s), Expect(body.s, "end"))
        [] OTHER -> IF public THEN Failed ELSE parse_stmt(s)

\* parse_program: items, each at the end of a line or followed by another.
RECURSIVE ProgramItems(_, _, _)
ProgramItems(s, items, from) ==
  LET one == Parse("item", s)
  IN  CASE Kind(s) = "eof" -> Tree("file", "", items, from, s)
        [] Kind(s) = "error" \/ ~At(one.s, {"nl", "eof"} \cup ITEM_STARTS) -> Failed
        [] OTHER -> ProgramItems(SkipSeps(one.s), Append(items, one.e), from)

-----------------------------------------------------------------------------
Parse(what, s) ==
  CASE what = "expr" -> parse_pipe(s)
    [] what = "stmt" -> statement(s)
    [] what = "pattern" -> parse_pattern_inner(s)
    [] what = "type" -> parse_type_inner(s)
    [] what = "postfix" -> PostfixLoop(parse_primary(s), Len(s))
    [] what = "do" -> do_lambda(s)
    [] what = "catch_types" -> CatchTypes(s, <<>>, Len(s))
    [] what = "arm_body" -> parse_arm_body(s)
    [] what \in {"entry", "field"} -> paired(s, what)
    [] what = "param" -> lambda_param(s)
    [] what = "generic" -> parse_generic(s)
    [] what = "typed" -> typed("field", s)
    [] what = "declared_param" -> IF Kind(s) = "self" THEN Leaf("self_param", "self", s) ELSE typed("param", s)
    [] what = "struct_def" -> struct_member(s)
    [] what = "enum" -> parse_variant(s)
    [] what \in {"interface", "member"} -> parse_member(s)
    [] what = "signature" -> signature(s)
    [] what = "item" -> parse_item(s)
    [] what = "file" -> ProgramItems(SkipSeps(s), <<>>, Len(s))

\* parse: the file's items, and whether it was read to its end.
ReadTo(file) == [tree |-> file.e, ok |-> Kind(file.s) = "eof"]
parse(tokens) == ReadTo(Parse("file", Significant(tokens)))

ITEMS == {"import", "func", "struct_def", "enum", "interface", "top_let", "test"}

\* The statements that a node holds.
Statements(n) ==
  CASE n.k \in {"block", "file"} -> n.c
    [] n.k = "do" -> SubSeq(n.c, n.x + 1, Len(n.c))
    [] OTHER -> <<>>

\* dump: the tree without its spans, and without the patterns of parameters.
IsPatternParam(e, i) == e.k \in {"lambda", "do"} /\ i \in 1 .. e.x /\ e.c[i].k = "tuple"
RECURSIVE dump(_)
dump(e) ==
  <<e.k, e.x, [i \in DOMAIN e.c |->
                 IF IsPatternParam(e, i) THEN <<"pattern", "", <<>>>> ELSE dump(e.c[i])]>>
=============================================================================
