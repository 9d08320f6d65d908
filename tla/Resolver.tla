------------------------------ MODULE Resolver ------------------------------
(***************************************************************************)
(* Name resolution (brasa_resolver): what every name of a program denotes. *)
(*                                                                         *)
(* A program is a sequence of lowered files.  Each declares its names, and *)
(* then every body is walked, in order, with a stack of scopes.  A         *)
(* definition is [kind, m, at, name], the node that makes it in file m; a  *)
(* reference says what a node denotes.  The wording and the labels of the  *)
(* errors are left out.                                                    *)
(***************************************************************************)
EXTENDS Lowering

CONSTANTS
  Programs,                                          \* sequences of files
  PreludeValues, PreludeTypes, PreludeInterfaces,    \* what needs no import
  STD_MODULES, PANIC_UNION, NATIVE_ERRORS,           \* names of std, as sequences
  ImportTargets                      \* the file that a path imports, if it was loaded

Stem(path) == Last(path)
None == [kind |-> "none", m |-> 0, at |-> <<0, 0>>, name |-> ""]
Definition(kind, m, n, name) == [kind |-> kind, m |-> m, at |-> n.at, name |-> name]
Prelude(name) == [None EXCEPT !.kind = "builtin", !.name = name]
SelfParam == [None EXCEPT !.kind = "self"]

Error(code, m, span, name) == [code |-> code, m |-> m, at |-> span, name |-> name]
WithError(st, code, m, span, name) == [st EXCEPT !.errors = @ \cup {Error(code, m, span, name)}]

-----------------------------------------------------------------------------
(* Pass 1: what each file declares.                                          *)

NameOf(part) == IF part.k = "func" THEN part.x.name ELSE part.x
PartsOf(n, kinds) == SelectSeq(n.c, LAMBDA part : part.k \in kinds)

\* check_duplicate_fields and its siblings: of two parts with one name, the
\* one written later is reported.
Repeated(m, parts) ==
  {Error("duplicate", m, parts[j].at, NameOf(parts[j])) :
     j \in {i \in DOMAIN parts : \E o \in DOMAIN parts : NameOf(parts[o]) = NameOf(parts[i])
                                                          /\ parts[o].at[1] > parts[i].at[1]}}

\* check_struct_hygiene: a method is compared with the first field of its name
\* or, if none has it, with the first method; the later of the two is reported.
RepeatedMethods(m, fields, methods) ==
  LET among(parts, name) == SelectSeq(parts, LAMBDA p : NameOf(p) = name)
      first(name) == Head(among(fields, name) \o among(methods, name))
      later(p, q) == IF p.at[1] > q.at[1] THEN q ELSE p
      reported(method) == later(first(NameOf(method)), method)
  IN  {Error("duplicate", m, reported(method).at, NameOf(method)) :
         method \in {n \in Range(methods) : first(NameOf(n)).at # n.at}}

\* check_struct_hygiene, check_enum_hygiene and check_member_hygiene.
Hygiene(m, n) ==
  CASE n.k = "struct_def" ->
         Repeated(m, PartsOf(n, {"field"})) \cup RepeatedMethods(m, PartsOf(n, {"field"}), PartsOf(n, {"func"}))
    [] n.k = "enum" ->
         LET variants == PartsOf(n, {"variant"})
         IN  Repeated(m, variants) \cup UNION {Repeated(m, variants[i].c) : i \in DOMAIN variants}
    [] n.k = "interface" -> Repeated(m, PartsOf(n, {"member"}))

\* check_import: of the std modules only; the loader reports the others.
check_import(m, n) ==
  IF Len(n.x) > 1 /\ Head(n.x) = "std" /\ ~(Len(n.x) = 2 /\ n.x[2] \in STD_MODULES)
  THEN {Error("unknown_std_module", m, n.at, Last(n.x))} ELSE {}

\* The first definition of a name stays.
declare(scope, space, name, binding) ==
  IF name \in DOMAIN scope[space]
  THEN WithError(scope, "duplicate", binding.def.m, binding.def.at, name)
  ELSE [scope EXCEPT ![space] = (name :> binding) @@ @]

\* order: of a top-level let, how many are before it.
collect_module(m, file) ==
  LET item(scope, n) ==
        LET bound(kind, name, public) ==
              [def |-> Definition(kind, m, n, name), order |-> scope.lets, exported |-> public,
               to |-> IF kind = "module" /\ n.x \in DOMAIN ImportTargets THEN ImportTargets[n.x] ELSE 0]
            with(errors) == [scope EXCEPT !.errors = @ \cup errors]
        IN  CASE n.k = "import" -> declare(with(check_import(m, n)), "values", Stem(n.x), bound("module", Stem(n.x), FALSE))
              [] n.k = "func" -> declare(scope, "values", n.x.name, bound("item", n.x.name, n.x.public))
              [] n.k = "top_let" ->
                   declare([scope EXCEPT !.lets = @ + 1], "values", n.c[1].x, bound("top_let", n.c[1].x, n.x.public))
              [] n.k \in {"struct_def", "enum", "interface"} ->
                   [declare(with(Hygiene(m, n)), "types", n.x.name, bound(n.k, n.x.name, n.x.public))
                     EXCEPT !.enums = IF n.k = "enum" THEN Append(@, n) ELSE @]
              [] OTHER -> scope
  IN  FoldLeft(item, [values |-> <<>>, types |-> <<>>, enums |-> <<>>, lets |-> 0, errors |-> {}], file.c)

-----------------------------------------------------------------------------
(* Pass 2.  cx is what does not change: the file, m, and the scopes of all.  *)
(* st is the walk's state: the local scopes and the frames of generics,      *)
(* innermost last, whether self is allowed, how many top-level lets there    *)
(* are yet (all, in a function), and what was found.                         *)

AllLets == -1
Start == [values |-> <<<<>>>>, types |-> <<>>, self |-> FALSE, top_let_watermark |-> AllLets,
          refs |-> {}, errors |-> {}]

opened(st) == [st EXCEPT !.values = Append(@, <<>>)]
closed(st) == [st EXCEPT !.values = Front(@)]
framed(st, frame) == [st EXCEPT !.types = Append(@, frame)]
unframed(st) == [st EXCEPT !.types = Front(@)]

Refer(cx, st, n, space, def) ==
  [st EXCEPT !.refs = @ \cup {[m |-> cx.m, at |-> n.at, space |-> space, to |-> def]}]
Say(cx, st, code, n, name) == WithError(st, code, cx.m, n.at, name)

\* Of two in one scope the later one is found from then on.
declare_local(cx, st, n, name) ==
  LET top == Len(st.values)
      said == IF name \in DOMAIN st.values[top] THEN Say(cx, st, "duplicate", n, name) ELSE st
  IN  [said EXCEPT !.values[top] = (name :> Definition("local", cx.m, n, name)) @@ @]

\* Faulty variant: the outermost scope is searched first.
lookup_local_OutermostFirst(scopes, name) ==
  LET holding == {i \in DOMAIN scopes : name \in DOMAIN scopes[i]}
  IN  IF holding = {} THEN None ELSE scopes[CHOOSE i \in holding : \A j \in holding : i <= j][name]

\* The innermost scope that has the name.
lookup_local(scopes, name) ==
  LET holding == {i \in DOMAIN scopes : name \in DOMAIN scopes[i]}
  IN  IF holding = {} THEN None ELSE scopes[CHOOSE i \in holding : \A j \in holding : i >= j][name]

\* lookup_value: a code too, when it is none.
lookup_value(cx, st, name) ==
  LET local == lookup_local(st.values, name)
      module == cx.scopes[cx.m].values
      early == /\ module[name].def.kind = "top_let" /\ st.top_let_watermark # AllLets
               /\ module[name].order >= st.top_let_watermark
  IN  CASE local # None -> [def |-> local, code |-> ""]
        [] local = None /\ name \in DOMAIN module ->
             IF early THEN [def |-> None, code |-> "use_before_def"]
             ELSE [def |-> module[name].def, code |-> ""]
        [] local = None /\ name \notin DOMAIN module ->
             IF name \in PreludeValues THEN [def |-> Prelude(name), code |-> ""]
             ELSE [def |-> None, code |-> "unknown_name"]

lookup_type(cx, st, name) ==
  LET framed_ == lookup_local(st.types, name)
      module == cx.scopes[cx.m].types
  IN  CASE framed_ # None -> framed_
        [] framed_ = None /\ name \in DOMAIN module -> module[name].def
        [] OTHER -> IF name \in PreludeTypes THEN Prelude(name) ELSE None

\* file_module_index: the file that a stem binds in this file, or 0.
file_module_index(cx, stem) ==
  LET values == cx.scopes[cx.m].values
  IN  IF stem \in DOMAIN values /\ values[stem].def.kind = "module" THEN values[stem].to ELSE 0

\* Only what is exported is found from another file.
exported(cx, target, space, name) ==
  LET names == cx.scopes[target][space]
  IN  IF name \in DOMAIN names /\ names[name].exported THEN names[name].def ELSE None

Found(cx, st, n, space, def, code, name) ==
  IF def = None THEN Say(cx, st, code, n, name) ELSE Refer(cx, st, n, space, def)

\* resolve_module_member: of stem.name, when stem denotes a file's module.
resolve_module_member(cx, st, n) ==
  LET stems == {r \in st.refs : r.m = cx.m /\ r.at = n.c[1].at /\ r.to.kind = "module"}
      target == IF stems = {} THEN 0 ELSE file_module_index(cx, (CHOOSE r \in stems : TRUE).to.name)
  IN  IF target = 0 THEN st
      ELSE Found(cx, st, n, "value", exported(cx, target, "values", n.x), "unknown_module_member", n.x)

\* type_path: a path is one only if its stem is a file's module.
type_path(cx, st, n, path) ==
  LET target == file_module_index(cx, path[1])
  IN  CASE target # 0 -> Found(cx, st, n, "type", exported(cx, target, "types", path[2]), "unknown_module_member", path[2])
        [] target = 0 /\ path[1] = "" -> Found(cx, st, n, "type", lookup_type(cx, st, path[2]), "unknown_type", path[2])
        [] OTHER -> Say(cx, st, "unknown_type", n, path[2])

\* The rules that a throws clause and the types of a catch arm share; only
\* the latter may name a panic.
resolve_error_name(cx, st, n, segments, in_arm) ==
  LET target == file_module_index(cx, segments[1])
      checked(known, code) == IF segments \in known THEN st ELSE Say(cx, st, code, n, Last(segments))
  IN  CASE segments = <<"_">> -> st
        [] segments # <<"_">> /\ Len(segments) = 1 ->
             Found(cx, st, n, "type", lookup_type(cx, st, segments[1]), "unknown_type", segments[1])
        [] Len(segments) > 1 /\ segments[1] = "panics" ->
             IF in_arm THEN checked(PANIC_UNION, "unknown_panic") ELSE st
        [] Len(segments) > 1 /\ segments[1] # "panics" /\ target # 0 ->
             Found(cx, st, n, "type", IF Len(segments) = 2 THEN exported(cx, target, "types", segments[2]) ELSE None,
                   "unknown_module_member", Last(segments))
        [] OTHER -> IF \E e \in NATIVE_ERRORS : e[1] = segments[1]
                    THEN checked(NATIVE_ERRORS, "unknown_native_error") ELSE st

\* resolve_ctor and resolve_qualified_ctor: one variant must have the name, of
\* the enums of this file or of those another exports.
resolve_ctor(cx, st, n, in_pattern) ==
  LET target == file_module_index(cx, n.x[1])
      name == n.x[2]
      enums == IF target # 0 THEN SelectSeq(cx.scopes[target].enums, LAMBDA e : e.x.public)
               ELSE cx.scopes[cx.m].enums
      from == IF target # 0 THEN target ELSE cx.m
      variants == UNION {{Definition("variant", from, v, name) :
                            v \in {w \in Range(PartsOf(enums[i], {"variant"})) : w.x = name}} : i \in DOMAIN enums}
      builtin == IF target = 0 /\ (name \in {"Some", "None"} \/ (name = "Set" /\ ~in_pattern))
                 THEN {Prelude(name)} ELSE {}
      candidates == IF target = 0 /\ n.x[1] # "" THEN {} ELSE variants \cup builtin
      missing == IF target # 0 THEN "unknown_module_member" ELSE "unknown_constructor"
  IN  CASE candidates = {} -> Say(cx, st, missing, n, name)
        [] Cardinality(candidates) = 1 -> Refer(cx, st, n, "ctor", CHOOSE d \in candidates : TRUE)
        [] OTHER -> Say(cx, st, "ambiguous_constructor", n, name)

RECURSIVE resolve(_, _, _), all(_, _, _)
all(cx, st, ns) == IF ns = <<>> THEN st ELSE all(cx, resolve(cx, st, Head(ns)), Tail(ns))

RECURSIVE resolve_pattern(_, _, _)
resolve_pattern(cx, st, p) ==
  LET args(from) == FoldLeft(LAMBDA acc, a : resolve_pattern(cx, acc, a), from, p.c)
  IN  CASE p.k = "name" -> declare_local(cx, st, p, p.x)
        [] p.k = "ctor" -> args(resolve_ctor(cx, st, p, TRUE))
        [] OTHER -> args(st)

\* resolve_iface_member: the types of a signature, and then what it throws.
resolve_signature(cx, st, n) ==
  LET params == PartsOf(n, {"param"})
      types == FlattenSeq([i \in DOMAIN params |-> params[i].c]) \o PartsOf(n, {"type", "tuple_type", "fn_type"})
      throws(acc, t) == resolve_error_name(cx, acc, t, t.x, FALSE)
  IN  FoldLeft(throws, all(cx, st, types), PartsOf(n, {"throws"}))

SelfType(cx, n) == "Self" :> Definition("self_type", cx.m, n, "Self")
resolve_members(cx, st, n, members) ==
  LET within == [framed(st, SelfType(cx, n)) EXCEPT !.errors = @ \cup Repeated(cx.m, members)]
  IN  unframed(FoldLeft(LAMBDA acc, member : resolve_signature(cx, acc, member), within, members))

is_interface(def) == def.kind = "interface" \/ (def.kind = "builtin" /\ def.name \in PreludeInterfaces)

\* push_generic_frame: all the parameters, and then their constraints.
push_generic_frame(cx, st, n, self_type) ==
  LET generics == PartsOf(n, {"generic"})
      frame == [name \in {g.x : g \in Range(generics)} |->
                  LET g == CHOOSE g \in Range(generics) :
                             g.x = name /\ \A h \in Range(generics) : h.x = name => h.at[1] <= g.at[1]
                  IN  Definition("generic", cx.m, g, name)]
      constraint(acc, g) ==
        CASE g.c = <<>> -> acc
          [] g.c # <<>> /\ g.c[1].k = "constraint" ->
               LET def == lookup_type(cx, acc, g.c[1].x)
               IN  IF def = None THEN Say(cx, acc, "unknown_type", g, g.c[1].x)
                   ELSE IF is_interface(def) THEN Refer(cx, acc, g.c[1], "type", def)
                   ELSE Say(cx, acc, "not_an_interface", g, g.c[1].x)
          [] OTHER -> resolve_members(cx, acc, n, g.c)
      pushed == framed([st EXCEPT !.errors = @ \cup Repeated(cx.m, generics)], self_type @@ frame)
  IN  FoldLeft(constraint, pushed, generics)

resolve_func(cx, st, n) ==
  LET declared == PartsOf(n, {"param"})
      signed == resolve_signature(cx, push_generic_frame(cx, st, n, <<>>), n)
      inside == opened([signed EXCEPT !.self = PartsOf(n, {"self_param"}) # <<>>])
      bound == FoldLeft(LAMBDA acc, p : declare_local(cx, acc, p, p.x), inside, declared)
  IN  [unframed(closed(resolve(cx, bound, Last(n.c)))) EXCEPT !.self = st.self]

resolve_arm(cx, st, n) ==
  closed(all(cx, resolve_pattern(cx, opened(st), n.c[1]), Tail(n.c)))

resolve_catch_arm(cx, st, n) ==
  LET types == n.c[1]
  IN  all(cx, FoldLeft(LAMBDA acc, t : resolve_error_name(cx, acc, types, t, TRUE), st, types.x), Tail(n.c))

\* An item.  Code at the top level sees the lets before it.
resolve_item(cx, st, n) ==
  LET at_top(from, ns) == [all(cx, [from EXCEPT !.top_let_watermark = cx.lets_before], ns)
                            EXCEPT !.top_let_watermark = AllLets]
      with_generics(self_type, step(_, _), parts) ==
        unframed(FoldLeft(step, push_generic_frame(cx, st, n, self_type), parts))
      fields_first == PartsOf(n, {"field", "variant"}) \o PartsOf(n, {"func"})
  IN  CASE n.k = "func" -> resolve_func(cx, st, n)
        [] n.k \in {"struct_def", "enum"} ->
             with_generics(<<>>, LAMBDA acc, part : resolve(cx, acc, part), fields_first)
        [] n.k = "interface" ->
             with_generics(SelfType(cx, n), LAMBDA acc, member : resolve_signature(cx, acc, member), PartsOf(n, {"member"}))
        [] n.k = "top_let" -> at_top(st, Tail(n.c))
        [] n.k = "test" -> closed(all(cx, opened(st), n.c))
        [] n.k = "stmts" -> closed(at_top(opened(st), n.c))
        [] OTHER -> st

resolve(cx, st, n) ==
  LET looked == lookup_value(cx, st, n.x)
      within(params, rest) ==
        closed(all(cx, FoldLeft(LAMBDA acc, p : declare_local(cx, acc, p, p.x), opened(st), params), rest))
  IN  CASE n.k = "name" -> Found(cx, st, n, "value", looked.def, looked.code, n.x)
        [] n.k = "self" -> Found(cx, st, n, "value", IF st.self THEN SelfParam ELSE None, "self_outside_method", "self")
        [] n.k = "field" -> resolve_module_member(cx, all(cx, st, n.c), n)
        [] n.k \in ITEMS \cup {"stmts"} -> resolve_item(cx, st, n)
        [] n.k = "block" -> closed(all(cx, opened(st), n.c))
        [] n.k = "let" -> declare_local(cx, all(cx, st, Tail(n.c)), n, n.c[1].x)
        [] n.k = "lambda" -> within(Front(n.c), <<Last(n.c)>>)
        [] n.k = "for" ->
             closed(resolve(cx, resolve_pattern(cx, opened(resolve(cx, st, n.c[2])), n.c[1]), n.c[3]))
        [] n.k \in {"catch", "catch!"} ->
             closed(all(cx, declare_local(cx, opened(resolve(cx, st, n.c[1])), n, n.x), Tail(n.c)))
        [] n.k = "arm" -> IF n.c[1].k = "types" THEN resolve_catch_arm(cx, st, n) ELSE resolve_arm(cx, st, n)
        [] n.k \in {"type", "struct"} -> all(cx, type_path(cx, st, n, n.x), n.c)
        [] n.k = "ctor" -> all(cx, resolve_ctor(cx, st, n, FALSE), n.c)
        [] OTHER -> all(cx, st, n.c)

-----------------------------------------------------------------------------
(* A program, from its sources to what its names denote.  trees are those of *)
(* the parser, files the lowered ones, todo the items still to walk: none    *)
(* before every file has declared its names.                                 *)

VARIABLE resolution

ResolverInit ==
  \E sources \in Programs :
    resolution = [stage |-> "read", sources |-> sources, trees |-> <<>>, files |-> <<>>, scopes |-> <<>>,
                  todo |-> <<>>, found |-> Start]

ParseFiles ==
  /\ resolution.stage = "read"
  /\ resolution' = [resolution EXCEPT !.stage = "parsed",
                      !.trees = [m \in DOMAIN resolution.sources |-> parse(resolution.sources[m])]]

LowerFiles ==
  /\ resolution.stage = "parsed"
  /\ \A m \in DOMAIN resolution.trees : resolution.trees[m].ok
  /\ resolution' = [resolution EXCEPT !.stage = "lowered", !.files = [m \in DOMAIN resolution.trees |-> lower_expr(resolution.trees[m].tree)]]

CollectModules ==
  /\ resolution.stage = "lowered"
  /\ LET files == resolution.files
         scopes == [m \in DOMAIN files |-> collect_module(m, files[m])]
     IN  resolution' = [resolution EXCEPT !.stage = "collected", !.scopes = scopes,
                         !.todo = FlattenSeq([m \in DOMAIN files |-> [i \in DOMAIN files[m].c |-> <<m, i>>]]),
                         !.found.errors = UNION {scopes[m].errors : m \in DOMAIN files}]

ResolveItem ==
  /\ resolution.todo # <<>>
  /\ LET m == Head(resolution.todo)[1]
         i == Head(resolution.todo)[2]
         items == resolution.files[m].c
         lets_before == Len(SelectSeq(SubSeq(items, 1, i - 1), LAMBDA n : n.k = "top_let"))
     IN  resolution' = [resolution EXCEPT !.todo = Tail(@),
                         !.found = resolve([m |-> m, scopes |-> resolution.scopes, lets_before |-> lets_before], @, items[i])]

ResolverNext == ParseFiles \/ LowerFiles \/ CollectModules \/ ResolveItem
=============================================================================
