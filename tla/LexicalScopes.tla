---------------------------- MODULE LexicalScopes ----------------------------
(***************************************************************************)
(* What a name should denote, read off the text of a file.                 *)
(*                                                                         *)
(* A binder is in force in a region of the file, from a point to another,  *)
(* as counts of the tokens left there.  A name denotes the binder of the   *)
(* innermost region around it, and of two in one region the later one (of  *)
(* two generics the first); otherwise what the file declares, or the       *)
(* prelude.  Nothing here knows of lowering, of scopes that are pushed and *)
(* popped, or of an order of declaration.                                  *)
(***************************************************************************)
EXTENDS Resolver

RECURSIVE Leaves(_)
Leaves(pattern) ==
  IF pattern.k \in {"name", "_"} /\ pattern.c = <<>> THEN {pattern}
  ELSE UNION {Leaves(pattern.c[i]) : i \in DOMAIN pattern.c}
Names_(pattern) == {leaf \in Leaves(pattern) : leaf.k = "name"}

\* What is not a pattern, and every node of it, as a sequence.
Inside(n) ==
  CASE n.k \in {"let", "top_let", "for", "arm"} -> Tail(n.c)
    [] n.k \in {"lambda", "do"} -> SubSeq(n.c, n.x + 1, Len(n.c))
    [] OTHER -> n.c
RECURSIVE Nodes(_)
Nodes(n) == <<n>> \o FlattenSeq([i \in DOMAIN Inside(n) |-> Nodes(Inside(n)[i])])

Binder(space, scope, from, to, leaf, def) ==
  [space |-> space, scope |-> scope, from |-> from, to |-> to, at |-> leaf.at, def |-> def]

\* The binders that a node brings, with where they are in force.
BindersOf(m, n) ==
  LET locals(leaves, from, to) ==
        {Binder("value", <<n.k, n.at>>, from, to, leaf, Definition("local", m, leaf, leaf.x)) : leaf \in leaves}
      lets == Range(SelectSeq(Statements(n), LAMBDA s : s.k = "let"))
      generics == Range(PartsOf(n, {"generic"}))
      self(whose) == Binder("type", <<"self", whose.at>>, whose.at[1], whose.at[2], whose, Definition("self_type", m, n, "Self"))
  IN  UNION {{Binder("value", <<"block", n.at>>, s.at[2], n.at[2], leaf, Definition("local", m, s, leaf.x)) :
                leaf \in Names_(s.c[1])} : s \in lets}
      \cup (CASE n.k = "func" -> locals(Range(PartsOf(n, {"param"})), Last(n.c).at[1], n.at[2])
              [] n.k \in {"lambda", "do"} ->
                   IF n.x = 0 THEN {}
                   ELSE locals(UNION {Leaves(n.c[i]) : i \in {j \in 1 .. n.x : n.c[j].k # "tuple"}}
                                 \cup UNION {Names_(n.c[i]) : i \in 1 .. n.x}, n.c[n.x].at[2], n.at[2])
              [] n.k = "for" -> locals(Names_(n.c[1]), n.c[3].at[1], n.at[2])
              [] n.k = "arm" -> locals(Names_(n.c[1]), n.c[1].at[2], n.at[2])
              [] n.k \in {"catch", "catch!"} ->
                   {Binder("value", <<n.k, n.at>>, n.c[1].at[2], n.at[2], n, Definition("local", m, n, n.x))}
              [] OTHER -> {})
      \cup {Binder("type", <<"generics", n.at>>, n.at[1], n.at[2], g, Definition("generic", m, g, g.x)) : g \in generics}
      \cup (IF n.k = "interface" THEN {self(n)} ELSE {})
      \cup {self(g) : g \in {h \in generics : h.c # <<>> /\ h.c[1].k = "member"}}

\* What a file declares.
Declared(m, file) ==
  LET of(n) ==
        LET one(space, kind, name) ==
              {Binder(space, <<"file">>, n.at[1], n.at[2], n, Definition(kind, m, n, name))}
        IN  CASE n.k = "import" -> one("value", "module", Last(n.x))
              [] n.k = "func" -> one("value", "item", n.x.name)
              [] n.k \in {"struct_def", "enum", "interface"} -> one("type", n.k, n.x.name)
              [] n.k = "top_let" ->
                   {Binder("value", <<"file">>, n.at[1], n.at[2], leaf, Definition("top_let", m, n, leaf.x)) :
                      leaf \in Names_(n.c[1])}
              [] OTHER -> {}
  IN  UNION {of(file.c[i]) : i \in DOMAIN file.c}

Covers(n, span) == n.at[1] >= span[1] /\ span[2] >= n.at[2]
InForce(binders, space, name, span) ==
  {b \in binders : b.space = space /\ b.def.name = name /\ b.from >= span[1] /\ span[1] > b.to}
Innermost(binders) ==
  CHOOSE b \in binders : \A o \in binders :
    \/ b.from < o.from
    \/ b.from = o.from /\ IF b.space = "type" THEN b.at[1] >= o.at[1] ELSE b.at[1] <= o.at[1]
Earliest(binders) == CHOOSE b \in binders : \A o \in binders : b.at[1] >= o.at[1]

\* A use of a name in file m: what it denotes, or the code of its error.  Code
\* that runs where it stands sees the top-level lets before it; a function or
\* a test sees them all.
Denotes(own, nodes, locals, space, name, span) ==
  LET around == InForce(locals, space, name, span)
      declared == {b \in own : b.space = space /\ b.def.name = name}
      later == \E i \in DOMAIN nodes : nodes[i].k \in {"func", "test"} /\ Covers(nodes[i], span)
      first == Earliest(declared)
      prelude == IF space = "value" THEN PreludeValues ELSE PreludeTypes
      unknown == IF space = "value" THEN "unknown_name" ELSE "unknown_type"
  IN  CASE around # {} -> [def |-> Innermost(around).def, code |-> ""]
        [] around = {} /\ declared # {} ->
             IF first.def.kind = "top_let" /\ ~later /\ first.to < span[1]
             THEN [def |-> None, code |-> "use_before_def"] ELSE [def |-> first.def, code |-> ""]
        [] OTHER -> IF name \in prelude THEN [def |-> Prelude(name), code |-> ""]
                    ELSE [def |-> None, code |-> unknown]

\* self is that of the function around it, which must take it.
SelfIsAllowed(nodes, span) ==
  LET around == Range(SelectSeq(nodes, LAMBDA n : n.k = "func" /\ Covers(n, span)))
      inner == CHOOSE n \in around : \A o \in around : Covers(o, n.at)
  IN  around # {} /\ PartsOf(inner, {"self_param"}) # <<>>

\* The names that two members of one type share, or two fields of a variant.
MemberClashes(n) ==
  LET parts == PartsOf(n, CASE n.k \in {"struct_def", "variant"} -> {"field", "func"}
                            [] n.k = "enum" -> {"variant"}
                            [] n.k \in {"interface", "generic"} -> {"member"}
                            [] OTHER -> {})
  IN  {NameOf(parts[i]) : i \in {j \in DOMAIN parts : \E k \in 1 .. j - 1 : NameOf(parts[k]) = NameOf(parts[j])}}

\* The names that two binders of one scope share.
Clashes(binders) ==
  {b.def.name : b \in {c \in binders : \E o \in binders :
                         c.at # o.at /\ c.scope = o.scope /\ c.space = o.space /\ c.def.name = o.def.name}}

\* A lambda that names something twice, once in a pattern: what lowering makes
\* of it are two scopes.
RepeatsInPattern(n) ==
  /\ n.k \in {"lambda", "do"}
  /\ \E i, j \in 1 .. n.x : /\ i # j /\ n.c[i].k = "tuple"
                            /\ \E p \in Leaves(n.c[i]), q \in Leaves(n.c[j]) : p.x = q.x

\* All of it, for one file of a program.
Expected(m, file) ==
  LET nodes == Nodes(file)
      locals == UNION {BindersOf(m, nodes[i]) : i \in DOMAIN nodes}
      own == Declared(m, file)
      looked(n) ==
        CASE n.k = "name" -> Denotes(own, nodes, locals, "value", n.x, n.at)
          [] n.k = "type" -> Denotes(own, nodes, locals, "type", n.x[2], n.at)
          [] OTHER -> IF SelfIsAllowed(nodes, n.at) THEN [def |-> SelfParam, code |-> ""]
                      ELSE [def |-> None, code |-> "self_outside_method"]
      uses == SelectSeq(nodes, LAMBDA n : n.k \in {"name", "self"} \/ (n.k = "type" /\ n.x[1] = ""))
      answers == [i \in DOMAIN uses |-> looked(uses[i])]
      good == {i \in DOMAIN uses : answers[i].code = ""}
      space(n) == IF n.k = "type" THEN "type" ELSE "value"
  IN  [refs |-> {[m |-> m, at |-> uses[i].at, space |-> space(uses[i]), to |-> answers[i].def] : i \in good},
       errors |-> {<<m, uses[i].at, answers[i].code>> : i \in DOMAIN uses \ good},
       uses |-> {uses[i].at : i \in DOMAIN uses},
       clashes |-> Clashes(locals \cup own) \cup UNION {MemberClashes(nodes[i]) : i \in DOMAIN nodes},
       strange |-> \E i \in DOMAIN nodes : RepeatsInPattern(nodes[i])]

\* What another file can reach of a file: what it exports, and the variants of
\* the enums it exports.
Exported(m, file) ==
  LET public == Range(SelectSeq(file.c, LAMBDA n : n.k \in {"func", "struct_def", "enum", "interface", "top_let"} /\ n.x.public))
      enums == {n \in public : n.k = "enum"}
  IN  {b.def : b \in {d \in Declared(m, file) : \E n \in public : n.at = d.def.at}}
        \cup UNION {{Definition("variant", m, v, v.x) : v \in Range(PartsOf(e, {"variant"}))} : e \in enums}

\* Lowering evaluates what is written once: a name stands in the lowered file
\* as often as in the text, and once more as the target of x += e, which reads
\* what it sets.
EvaluatedOnce(file, lowered) ==
  LET names(nodes) == SelectSeq(nodes, LAMBDA n : n.k = "name")
      written == names(Nodes(file))
      spans == {n.at : n \in Range(written)}
      kept == SelectSeq(names(Nodes(lowered)), LAMBDA n : n.at \in spans)
      compound == SelectSeq(Nodes(file), LAMBDA n : n.k = "assign" /\ n.x # "=" /\ n.c[1].k = "name")
  IN  /\ {n.at : n \in Range(kept)} = spans
      /\ Len(kept) = Len(written) + Len(compound)

\* Names denote what the text says, in every file: no lowering of sugar, no
\* order of declarations and no use from another file changes it, and none is
\* evaluated twice.  A lambda that repeats a name in a pattern is left out.
NamesAreLexical ==
  resolution.stage = "collected" /\ resolution.todo = <<>> =>
    \A m \in DOMAIN resolution.trees :
      LET e == Expected(m, resolution.trees[m].tree)
          found == {r \in resolution.found.refs : r.m = m}
          errors == {x \in resolution.found.errors : x.m = m}
      IN  /\ EvaluatedOnce(resolution.trees[m].tree, resolution.files[m])
          /\ ~e.strange =>
               /\ {r \in found : r.at \in e.uses /\ r.space \in {"value", "type"}} = e.refs
               /\ {<<x.m, x.at, x.code>> : x \in {y \in errors : y.code \in {"unknown_name", "use_before_def", "self_outside_method"}
                                                                   \/ (y.code = "unknown_type" /\ y.at \in e.uses)}} = e.errors
               /\ {x.name : x \in {y \in errors : y.code = "duplicate"}} = e.clashes
          /\ \A r \in found : r.to.m \notin {0, m} => r.to \in Exported(r.to.m, resolution.trees[r.to.m].tree)
=============================================================================
