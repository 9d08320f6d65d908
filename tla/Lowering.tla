------------------------------ MODULE Lowering ------------------------------
(***************************************************************************)
(* The lowering of a tree (brasa_hir): the one place where sugar           *)
(* disappears.                                                             *)
(*                                                                         *)
(* A lowered tree is made of the same nodes.  What is put in for sugar has *)
(* the span of the sugar; a match put in for it says of which in x.  A     *)
(* fresh name is made of the span it is for, and starts with a $, as no    *)
(* name in a source does.  The interpolation of strings is left out.       *)
(***************************************************************************)
EXTENDS Syntax

Node(k, x, c, span) == [k |-> k, x |-> x, c |-> c, at |-> span]
NameAt(x, span) == Node("name", x, <<>>, span)
fresh_temp(span, i) == "$tmp" \o ToString(<<span, i>>)

MatchOn(origin, scrutinee, branches, span) == Node("match", origin, <<scrutinee>> \o branches, span)
Arm(pattern, body, span) == Node("arm", "", <<pattern, body>>, span)
Ctor(name, args, span) == Node("ctor", <<"", name>>, args, span)

\* pattern_binding_names
RECURSIVE pattern_binding_names(_)
pattern_binding_names(p) ==
  IF p.k = "name" THEN <<p.x>>
  ELSE FlattenSeq([i \in DOMAIN p.c |-> pattern_binding_names(p.c[i])])

RECURSIVE lower_expr(_)
lower_all(es) == [i \in DOMAIN es |-> lower_expr(es[i])]

\* a |> f(b) is f(a, b); any other target is called with a.
lower_pipe(e) ==
  LET target == lower_expr(e.c[2])
      args == <<lower_expr(e.c[1])>>
  IN  IF e.c[2].k = "call" THEN Node("call", "", <<target.c[1]>> \o args \o Tail(target.c), e.at)
      ELSE Node("call", "", <<target>> \o args, e.at)

\* match a { Some(t) => some, None => none }
OnOption(origin, e, some, none) ==
  LET temp == NameAt(fresh_temp(e.at, 1), e.at)
  IN  MatchOn(origin, lower_expr(e.c[1]),
              <<Arm(Ctor("Some", <<temp>>, e.at), some, e.at), Arm(Ctor("None", <<>>, e.at), none, e.at)>>, e.at)

lower_coalesce(e) ==
  OnOption("coalesce", e, NameAt(fresh_temp(e.at, 1), e.at), lower_expr(e.c[2]))

lower_safe_nav(e) ==
  LET member == Node("field", e.x, <<NameAt(fresh_temp(e.at, 1), e.at)>>, e.at)
      accessed == IF e.k = "safe" THEN member
                  ELSE Node("call", "", <<member>> \o lower_all(Tail(e.c)), e.at)
  IN  OnOption("safe_nav", e, Node("wrap", "", <<accessed>>, e.at), Ctor("None", <<>>, e.at))

\* A parameter that is a pattern becomes a name, matched around the body; the
\* last is innermost.
lower_lambda(e) ==
  LET params == SubSeq(e.c, 1, e.x)
      body == IF e.k = "lambda" THEN lower_expr(Last(e.c))
              ELSE lower_expr(Node("block", "", SubSeq(e.c, e.x + 1, Len(e.c)), e.at))
      IsPattern(p) == p.k = "tuple"
      temp(p) == NameAt(fresh_temp(p.at, 1), p.at)
      around(p, inner) ==
        IF IsPattern(p) THEN MatchOn("lambda_param", temp(p), <<Arm(p, inner, p.at)>>, p.at) ELSE inner
  IN  Node("lambda", e.x,
           Append([i \in DOMAIN params |-> IF IsPattern(params[i]) THEN temp(params[i]) ELSE params[i]],
                  FoldRight(around, params, body)), e.at)

\* let_pattern_matches: the value is bound once, and then each name of the
\* pattern by a match of its own; without names the match stands alone.
lower_let_pattern(e, hidden, shown) ==
  LET pattern == e.c[1]
      temp == NameAt(fresh_temp(e.at, 1), e.at)
      names == pattern_binding_names(pattern)
      matched(body) == MatchOn("let_pattern", temp, <<Arm(pattern, body, e.at)>>, e.at)
      bind(x) == Node(e.k, shown, <<NameAt(x, e.at), matched(NameAt(x, e.at))>>, e.at)
  IN  <<Node(e.k, hidden, <<temp>> \o lower_all(Tail(e.c)), e.at)>>
        \o (IF names = <<>> THEN <<matched(Node("unit", "", <<>>, e.at))>>
            ELSE [i \in DOMAIN names |-> bind(names[i])])

\* Faulty variant: the target of a compound assignment is lowered twice,
\* whatever it is.
lower_assign_TargetTwice(e) ==
  <<Node("assign", "=", <<lower_expr(e.c[1]), Node("binary", "+", lower_all(e.c), e.at)>>, e.at)>>

\* p.x += e evaluates p once, into a name of its own; so does v[i] += e with
\* v and i.
lower_assign(e) ==
  LET target == e.c[1]
      temp(i) == NameAt(fresh_temp(e.at, i), e.at)
      once == target.k \in {"field", "index"}
      lvalue == IF once THEN Node(target.k, target.x, [i \in DOMAIN target.c |-> temp(i)], e.at)
                ELSE lower_expr(target)
      bound == [i \in DOMAIN target.c |-> Node("let", "", <<temp(i), lower_expr(target.c[i])>>, e.at)]
  IN  (IF once THEN bound ELSE <<>>)
        \o <<Node("assign", "=", <<lvalue, Node("binary", "+", <<lvalue, lower_expr(e.c[2])>>, e.at)>>, e.at)>>

IsPatternLet(e) == e.k \in {"let", "top_let"} /\ e.c[1].k # "name"

lower_stmt(e) ==
  CASE IsPatternLet(e) -> lower_let_pattern(e, "", "")
    [] e.k = "assign" /\ e.x # "=" -> lower_assign(e)
    [] OTHER -> <<lower_expr(e)>>

\* A statement that is an item is a block of its own.
lower_item(e) ==
  CASE IsPatternLet(e) ->
         LET items == lower_let_pattern(e, [mutable |-> "", public |-> FALSE],
                                        [mutable |-> "", public |-> e.x.public])
         IN  IF Last(items).k = "top_let" THEN items
             ELSE Append(Front(items), Node("stmts", "", <<Last(items)>>, e.at))
    [] e.k \in ITEMS /\ ~IsPatternLet(e) -> <<lower_expr(e)>>
    [] e.k \notin ITEMS -> <<Node("stmts", "", lower_stmt(e), e.at)>>

lower_expr(e) ==
  CASE e.k = "pipe" -> lower_pipe(e)
    [] e.k = "coalesce" -> lower_coalesce(e)
    [] e.k \in {"safe", "safe_call"} -> lower_safe_nav(e)
    [] e.k \in {"lambda", "do"} -> lower_lambda(e)
    [] e.k = "block" -> [e EXCEPT !.c = FlattenSeq([i \in DOMAIN e.c |-> lower_stmt(e.c[i])])]
    [] e.k = "file" -> [e EXCEPT !.c = FlattenSeq([i \in DOMAIN e.c |-> lower_item(e.c[i])])]
    [] OTHER -> [e EXCEPT !.c = lower_all(e.c)]
=============================================================================
