----------------------------- MODULE ErrorSets -----------------------------
(***************************************************************************)
(* Error-set inference and the checks that read it (brasa_errorset): which *)
(* errors a function may let out.  A set is open when it holds more than   *)
(* can be known, after a call of a function held in a variable.            *)
(***************************************************************************)
EXTENDS Hir

NoErrors == [tags |-> {}, open |-> FALSE]
OPEN == [tags |-> {}, open |-> TRUE]
UNKNOWN == "unknown"    \* the tag of a throw whose type the checker deferred

UnionOf(contributions) ==
  LET all == Sequence(contributions)
  IN  [tags |-> UNION {all[i].tags : i \in DOMAIN all},
       open |-> \E i \in DOMAIN all : all[i].open]

\* arm_tag: panics are not errors, and _ names none.
ArmTags(arm) == ToSet(arm.tags) \ (PANICS \cup {ANY})
Unguarded(arms) == {i \in DOMAIN arms : arms[i].guard = <<>>}
HasWildcard(arms) == \E i \in Unguarded(arms) : ANY \in ToSet(arms[i].tags)
NamedBy(arms) == UNION {ArmTags(arms[i]) : i \in Unguarded(arms)}

\* Faulty variant: an arm counts although its guard may be false.
Uncaught_GuardedToo(set, arms) ==
  LET all == [i \in DOMAIN arms |-> [arms[i] EXCEPT !.guard = <<>>]]
  IN  IF HasWildcard(all) THEN NoErrors ELSE [set EXCEPT !.tags = @ \ NamedBy(all)]

\* What a catch lets through of its subject's errors.
Uncaught(set, arms) ==
  IF HasWildcard(arms) THEN NoErrors ELSE [set EXCEPT !.tags = @ \ NamedBy(arms)]

MethodSet(struct, name, sets, functions) ==
  LET f == struct_method(struct, name, functions) IN IF f = 0 THEN OPEN ELSE sets[f]

\* Faulty variant: a member is taken to throw nothing.
constraint_member_throws_Silent(generic, name, functions) == NoErrors

\* What the constraint of a type parameter says of a member: an interface's
\* clause, and otherwise nothing.
constraint_member_throws(generic, name, functions) ==
  LET constraint == ConstraintOf(generic, functions)
      members == SelectSeq(ConstraintMembers(constraint), LAMBDA m : m.name = name)
  IN  IF constraint = <<>> \/ members = <<>> THEN OPEN
      ELSE IF constraint[1] # "interface" \/ members[1].throws = <<>> THEN OPEN
      ELSE [tags |-> members[1].throws[1], open |-> FALSE]

\* What the call of a method adds to its receiver and its arguments.
MethodThrows(on, name, sets, functions) ==
  CASE Is(on, "struct") -> MethodSet(on.con[2], name, sets, functions)
    [] Is(on, "generic") -> constraint_member_throws(on, name, functions)
    [] Is(on, "common") ->
         UnionOf([i \in DOMAIN on.con[2] |->
           IF Is(on.con[2][i], "struct") THEN MethodSet(on.con[2][i].con[2], name, sets, functions)
           ELSE [tags |-> method_throws(on.con[2][i], name), open |-> FALSE]])
    [] IsFn(on) \/ Flexible(on) -> OPEN
    [] OTHER -> [tags |-> method_throws(on, name), open |-> FALSE]

RECURSIVE Contribution(_, _, _)
Contribution(n, sets, functions) ==
  LET of(m) == Contribution(m, sets, functions)
      all(ns) == UnionOf([i \in DOMAIN ns |-> of(ns[i])])
      below == all(Parts(n, functions))
  IN  CASE n.node = "lambda" -> NoErrors
        [] n.node = "throw" ->
             UnionOf(<<below, IF n.tag = UNKNOWN THEN OPEN
                              ELSE [tags |-> {n.tag}, open |-> FALSE]>>)
        [] n.node = "method_call" ->
             UnionOf(<<below, MethodThrows(n.on, n.name, sets, functions)>>)
        [] n.node = "call" -> UnionOf(<<below, sets[n.f]>>)
        [] n.node \in {"call_value", "apply"} ->
             UnionOf(<<below, IF n.callee.node = "lambda" THEN all(functions[n.callee.f].body)
                              ELSE OPEN>>)
        [] n.node = "catch" ->
             UnionOf(<<Uncaught(of(n.subject), n.arms)>>
               \o [i \in DOMAIN n.arms |-> all(n.arms[i].guard \o n.arms[i].body)])
        [] OTHER -> below

BodySet(f, sets, functions) ==
  UnionOf([i \in DOMAIN functions[f].body |->
             Contribution(functions[f].body[i], sets, functions)])

\* infer: from nothing, again and again until nothing changes.
RECURSIVE Inferred(_, _)
Inferred(sets, functions) ==
  LET next == Sequence([f \in DOMAIN functions |-> BodySet(f, sets, functions)])
  IN  IF next = sets THEN sets ELSE Inferred(next, functions)
ErrorSetsOf(functions) == Inferred(Sequence([f \in DOMAIN functions |-> NoErrors]), functions)

-----------------------------------------------------------------------------
\* catch_expr: what is reported at a catch, from its subject's set.
CatchReports(n, subject) ==
  LET remaining == subject.tags \ NamedBy(n.arms)
  IN  (IF ~subject.open /\ \E i \in DOMAIN n.arms : ~(ArmTags(n.arms[i]) \subseteq subject.tags)
       THEN {"E_UNREACHABLE_ARM"} ELSE {})
        \cup CASE ~n.exhaustive -> {}
               [] subject.open -> {"E_UNVERIFIABLE_EXHAUSTIVENESS"}
               [] remaining = {} ->
                    IF \E i \in DOMAIN n.arms : ANY \in ToSet(n.arms[i].tags)
                    THEN {"E_UNREACHABLE_ARM"} ELSE {}
               [] OTHER -> IF HasWildcard(n.arms) THEN {} ELSE {"E_CATCH_ALL_NOT_EXHAUSTIVE"}

RECURSIVE Reports(_, _, _)
Reports(n, sets, functions) ==
  LET parts == Parts(n, functions)
  IN  (IF n.node = "catch" THEN CatchReports(n, Contribution(n.subject, sets, functions)) ELSE {})
        \cup UNION {Reports(parts[i], sets, functions) : i \in DOMAIN parts}

\* An error set within a throws clause, which is never open and names no panic.
Within(set, throws) == throws # <<>> => ~set.open /\ set.tags \subseteq throws[1]
throws_contract(f, sets, functions) ==
  /\ Within(sets[f], functions[f].throws)
  /\ functions[f].throws # <<>> => functions[f].throws[1] \cap PANICS = {}
render_contract(f, sets, functions) ==
  (functions[f].method # <<>> /\ functions[f].method[2] = "toString") => sets[f] = NoErrors

\* The methods of a struct that is taken for an interface throw no more than
\* its members declare.
iface_throws_contracts(uses, sets, functions) ==
  \A use \in uses : \A i \in DOMAIN Interfaces[use[2]] :
    LET member == Interfaces[use[2]][i]
        f == struct_method(use[1], member.name, functions)
    IN  f # 0 => Within(sets[f], member.throws)

\* A program goes on to code generation when nothing is reported.
AcceptedErrors(functions, sets, uses) ==
  /\ \A f \in DOMAIN functions :
       /\ functions[f].kind # "lambda" => throws_contract(f, sets, functions) /\ render_contract(f, sets, functions)
       /\ \A i \in DOMAIN functions[f].body : Reports(functions[f].body[i], sets, functions) = {}
  /\ iface_throws_contracts(uses, sets, functions)
=============================================================================
