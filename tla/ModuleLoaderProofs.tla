------------------------- MODULE ModuleLoaderProofs -------------------------
(***************************************************************************)
(* The module loader, for any files, links, aliases and search path: what  *)
(* a load leaves is exactly what the files say, and a program packed into  *)
(* a bundle comes back as it was.                                          *)
(***************************************************************************)
EXTENDS ModuleLoader, FiniteSetTheorems, SequenceTheorems, WellFoundedInduction, TLAPS

-----------------------------------------------------------------------------
(* The files, and what an import stands for.                                 *)

FilesOK ==
  /\ disk \in Disks /\ editor \in BOOLEAN
  /\ overlay \in Overlays \cup {<<>>}

\* What is read is a source.
LEMMA SourcesAreWritten ==
  ASSUME FilesOK, NEW p, Readable(p)
  PROVE  Written(Source(p))
<1>1. CASE p \in DOMAIN overlay
  <2>1. overlay \in Overlays
    BY <1>1 DEF FilesOK
  <2> QED BY <1>1, <2>1, LoaderAssumption DEF Source
<1>2. CASE p \notin DOMAIN overlay
  BY <1>2, LoaderAssumption DEF Source, FilesOK, Readable
<1> QED BY <1>1, <1>2

\* The items of a file that is loaded are numbered, and its imports are some.
LEMMA ItemsAreNumbers ==
  ASSUME FilesOK, NEW p
  PROVE  /\ \E n \in Nat : Items(p) \subseteq 1 .. n
         /\ \A i \in Items(p) :
              LET item == Source(p).items[i]
              IN  \/ item[1] = "relative"
                  \/ item[1] = "search" /\ item[2] \in Seq(STRING) \ {<<>>}
<1>1. CASE Sound(p)
  <2>1. Written(Source(p))
    BY <1>1, SourcesAreWritten DEF Sound
  <2> QED BY <1>1, <2>1 DEF Written, Items, file_import_roots
<1>2. CASE ~Sound(p)
  BY <1>2 DEF Items
<1> QED BY <1>1, <1>2

\* The first of the imports to follow is one of them.
LEMMA FirstOfSome ==
  ASSUME NEW todo \in SUBSET Nat, todo # {}
  PROVE  First(todo) \in todo /\ \A j \in todo : First(todo) =< j
<1> DEFINE less == OpToRel(<, Nat)
<1>1. \A i, j \in Nat : i < j => <<i, j>> \in less
  BY DEF OpToRel
<1>2. IsWellFoundedOn(less, Nat)
  BY NatLessThanWellFounded
<1> HIDE DEF less
<1>3. PICK i \in todo : \A j \in todo : <<j, i>> \notin less
  BY <1>2, WFMin
<1>4. ASSUME NEW j \in todo PROVE i =< j
  <2>1. ~(j < i)
    BY <1>1, <1>3
  <2>2. i \in Nat /\ j \in Nat
    OBVIOUS
  <2> QED BY <2>1, <2>2
<1> QED BY <1>4 DEF First

\* The import followed next is the least of those left.
LEMMA FirstIsLeast ==
  ASSUME NEW n \in Nat, NEW todo \in SUBSET (1 .. n), todo # {}
  PROVE  First(todo) \in todo /\ \A j \in todo : First(todo) =< j
<1>1. todo \in SUBSET Nat
  OBVIOUS
<1> QED BY <1>1, FirstOfSome

\* What an import names: the file it stands for, or a file that is not there.
LEMMA NamedStands ==
  ASSUME FilesOK, NEW p, NEW i \in Items(p), NEW q
  PROVE  q \in Named(p, Source(p).items[i]) <=> StandsFor(p, Source(p).items[i], q)
<1> DEFINE item == Source(p).items[i]
<1>1. \/ item[1] = "relative"
      \/ item[1] = "search" /\ item[2] \in Seq(STRING) \ {<<>>}
  BY ItemsAreNumbers
<1> HIDE DEF item
<1> SUFFICES q \in Named(p, item) <=> StandsFor(p, item, q)
  BY DEF item
<1> DEFINE segments == item[2]
           places == Places(p, item)
<1>2. SearchPath \in Seq(STRING) /\ KnownAliases = IF editor THEN {} ELSE DOMAIN Aliases
  BY LoaderAssumption DEF KnownAliases
<1>3. q \in Named(p, item) <=>
        \E n \in DOMAIN places : Chosen(item, places, n) /\ q = canonicalize(places[n])
  BY Zenon DEF Named
<1>4. CASE item[1] = "relative"
  <2>1. places = <<Path(p[1], segments)>>
    BY <1>4 DEF Places
  <2>2. StandsFor(p, item, q) <=> q = canonicalize(Path(p[1], segments))
    BY <1>4 DEF StandsFor
  <2> HIDE DEF places, segments
  <2> QED BY <1>3, <1>4, <2>1, <2>2 DEF Chosen
<1>5. CASE item[1] = "search" /\ segments \in Seq(STRING) \ {<<>>}
  <2>1. Head(segments) = segments[1] /\ (Tail(segments) = <<>> <=> ~(Len(segments) > 1))
    BY <1>5
  <2>2. CASE segments[1] \in KnownAliases
    <3> DEFINE path == Path(Aliases[segments[1]], Tail(segments))
    <3>1. places = IF Len(segments) > 1 THEN <<path>> ELSE <<>>
      BY <1>5, <2>1, <2>2 DEF Places
    <3>2. StandsFor(p, item, q) <=> Len(segments) > 1 /\ IsFile(path) /\ q = canonicalize(path)
      BY <1>2, <1>5, <2>2 DEF StandsFor
    <3> HIDE DEF places, segments, path
    <3>3. CASE Len(segments) > 1
      BY <1>3, <1>5, <3>1, <3>2, <3>3 DEF Chosen
    <3>4. CASE ~(Len(segments) > 1)
      BY <1>3, <1>5, <3>1, <3>2, <3>4 DEF Chosen
    <3> QED BY <3>3, <3>4
  <2>3. CASE segments[1] \notin KnownAliases
    <3>1. places = [n \in DOMAIN SearchPath |-> Path(SearchPath[n], segments)]
      BY <1>5, <2>1, <2>3 DEF Places
    <3>2. \A n \in DOMAIN SearchPath : \A k \in 1 .. n - 1 : k \in DOMAIN SearchPath
      BY <1>2
    <3>3. StandsFor(p, item, q) <=>
            \E n \in DOMAIN SearchPath :
              /\ IsFile(Path(SearchPath[n], segments)) /\ q = canonicalize(Path(SearchPath[n], segments))
              /\ \A k \in 1 .. n - 1 : ~IsFile(Path(SearchPath[k], segments))
      BY <1>2, <1>5, <2>3 DEF StandsFor
    <3> HIDE DEF places, segments
    <3> QED BY <1>3, <1>5, <3>1, <3>2, <3>3 DEF Chosen
  <2> QED BY <2>2, <2>3
<1> QED BY <1>1, <1>4, <1>5

\* An import names one file at most.
LEMMA NamedIsOne ==
  ASSUME FilesOK, NEW p, NEW i \in Items(p),
         NEW q \in Named(p, Source(p).items[i]), NEW r \in Named(p, Source(p).items[i])
  PROVE  q = r
<1> DEFINE item == Source(p).items[i]
           places == Places(p, item)
<1>1. \/ item[1] = "relative"
      \/ item[1] = "search" /\ item[2] \in Seq(STRING) \ {<<>>}
  BY ItemsAreNumbers
<1>2. \A n \in DOMAIN places : n \in Nat \ {0}
  <2>1. SearchPath \in Seq(STRING)
    BY LoaderAssumption
  <2> QED BY <2>1 DEF Places
<1>3. PICK n \in DOMAIN places : Chosen(item, places, n) /\ q = canonicalize(places[n])
  BY Zenon DEF Named
<1>4. PICK m \in DOMAIN places : Chosen(item, places, m) /\ r = canonicalize(places[m])
  BY Zenon DEF Named
<1>5. CASE item[1] = "relative"
  <2>1. DOMAIN places = {1}
    BY <1>5 DEF Places
  <2> QED BY <1>3, <1>4, <2>1
<1>6. CASE item[1] # "relative"
  <2>1. ~(n < m) /\ ~(m < n)
    BY <1>2, <1>3, <1>4, <1>6 DEF Chosen
  <2> QED BY <1>2, <1>3, <1>4, <2>1
<1> QED BY <1>5, <1>6

\* The file an import stands for is the one it names, if anything is known of it.
LEMMA TargetIsNamed ==
  ASSUME FilesOK, NEW p, NEW i \in Items(p)
  PROVE  /\ Target(p, i) = Named(p, Source(p).items[i]) \cap Known
         /\ \A q \in Named(p, Source(p).items[i]) :
              /\ Named(p, Source(p).items[i]) = {q}
              /\ Readable(q) => Target(p, i) = {q}
<1>1. Target(p, i) = Named(p, Source(p).items[i]) \cap Known
  BY NamedStands DEF Target
<1>2. \A q \in Named(p, Source(p).items[i]) : Named(p, Source(p).items[i]) = {q}
  BY NamedIsOne
<1>3. \A q : Readable(q) => q \in Known
  BY DEF Readable, Known
<1> QED BY <1>1, <1>2, <1>3

-----------------------------------------------------------------------------
(* The invariant of a load.                                                  *)

Paths == Known \cup {main_path}
Edges == UNION {[S -> Nat] : S \in SUBSET Nat}
ItemLists == {Source(p).items : p \in Paths} \cup {<<>>}
Frames == [path : Paths, todo : SUBSET Nat, imports : Edges]
Mods == [path : Paths, items : ItemLists, imports : Edges]

LoadTypeOK ==
  /\ FilesOK
  /\ loading \in Seq(Frames) /\ modules \in Seq(Mods) /\ entry \in Nat

\* The files met: modules, and those being loaded.
Met == {modules[i].path : i \in DOMAIN modules} \cup {loading[k].path : k \in DOMAIN loading}

\* A file whose imports were followed in order, except those in todo: each one is
\* bound to the module it stands for, or something was reported and, unless the
\* chain was too long, no file that could be loaded is missing for it.
Explored(p, todo, f) ==
  /\ todo \subseteq Items(p) /\ DOMAIN f \subseteq Items(p) \ todo
  /\ \A r \in Items(p) \ todo, s \in todo : r < s
  /\ \A r \in DOMAIN f : f[r] \in DOMAIN modules /\ Target(p, r) = {modules[f[r]].path}
  /\ \A r \in Items(p) \ todo :
       /\ r \notin DOMAIN f => diagnostics # {}
       /\ ~Cut => \A q \in Target(p, r) : Sound(q) => q \in Met

\* The files being loaded: the entry, and each one imported by the one before.
StackOK ==
  /\ loading # <<>> => loading[1].path = main_path /\ entry = 0
  /\ Len(loading) =< MAX_IMPORT_DEPTH + 1
  /\ \A k \in DOMAIN loading :
       /\ Sound(loading[k].path) /\ loading[k].path \in Reach(main_path)
       /\ Explored(loading[k].path, loading[k].todo, loading[k].imports)
  /\ \A k \in 1 .. Len(loading) - 1 :
       /\ loading[k].todo # {}
       /\ Target(loading[k].path, First(loading[k].todo)) = {loading[k + 1].path}

NoneTwice ==
  /\ \A i, j \in DOMAIN modules : modules[i].path = modules[j].path => i = j
  /\ \A k, l \in DOMAIN loading : loading[k].path = loading[l].path => k = l
  /\ \A i \in DOMAIN modules, k \in DOMAIN loading : modules[i].path # loading[k].path

ModulesOK ==
  \A i \in DOMAIN modules :
    LET m == modules[i]
    IN  /\ m.path \in Reach(main_path)
        /\ \A r \in DOMAIN m.imports : m.imports[r] < i
        /\ IF Sound(m.path)
           THEN m.items = Source(m.path).items /\ Explored(m.path, {}, m.imports)
           ELSE m.path = main_path /\ m.imports = NoImports

EntryOK ==
  /\ entry # 0 => loading = <<>> /\ entry = Len(modules) /\ modules[entry].path = main_path
  /\ entry = 0 /\ loading = <<>> => modules = <<>> /\ diagnostics = {}

ReportsOK ==
  /\ Cut => TooLong
  /\ (\E d \in diagnostics : d[1] # "too deep") => Flawed
  /\ \A p \in Met : Readable(p) /\ ~Source(p).parses => diagnostics # {}

LoadInv == LoadTypeOK /\ StackOK /\ NoneTwice /\ ModulesOK /\ EntryOK /\ ReportsOK

\* Nothing a load does changes the files, nor what follows from them.
LEMMA FilesStay ==
  ASSUME UNCHANGED files
  PROVE  /\ Known' = Known /\ main_path' = main_path /\ Paths' = Paths
         /\ FilesOK => FilesOK'
         /\ \A p : /\ Source(p)' = Source(p) /\ (Readable(p)' <=> Readable(p))
                   /\ (Sound(p)' <=> Sound(p)) /\ Items(p)' = Items(p)
<1>1. disk' = disk /\ overlay' = overlay /\ editor' = editor
  BY DEF files
<1>2. Known' = Known /\ main_path' = main_path
  BY <1>1 DEF Known, main_path, canonicalize
<1>3. FilesOK => FilesOK'
  BY <1>1 DEF FilesOK
<1>4. ASSUME NEW p
      PROVE  /\ Source(p)' = Source(p) /\ (Readable(p)' <=> Readable(p))
             /\ (Sound(p)' <=> Sound(p)) /\ Items(p)' = Items(p)
  <2>1. Source(p)' = Source(p) /\ (Readable(p)' <=> Readable(p))
    BY <1>1 DEF Source, Readable
  <2>2. Sound(p)' <=> Sound(p)
    BY <1>1, <2>1 DEF Sound
  <2> QED BY <2>1, <2>2 DEF Items
<1> QED BY <1>2, <1>3, <1>4 DEF Paths

\* While the files stay, an import stands for what it stood for.
LEMMA TargetsStay ==
  ASSUME UNCHANGED files
  PROVE  \A p : Targets(p)' = Targets(p) /\ \A i : Target(p, i)' = Target(p, i)
<1>1. disk' = disk /\ overlay' = overlay /\ editor' = editor
  BY DEF files
<1>2. ASSUME NEW p, NEW i PROVE Target(p, i)' = Target(p, i)
  <2>1. \A q : canonicalize(q)' = canonicalize(q) /\ (IsFile(q)' <=> IsFile(q))
    BY <1>1 DEF canonicalize, IsFile
  <2>2. \A q : \A item : StandsFor(p, item, q)' <=> StandsFor(p, item, q)
    BY <1>1, <2>1 DEF StandsFor
  <2>3. Source(p)' = Source(p) /\ Known' = Known
    BY FilesStay
  <2> QED BY <2>2, <2>3 DEF Target
<1>3. ASSUME NEW p PROVE Targets(p)' = Targets(p)
  <2>1. Items(p)' = Items(p) /\ \A i : Target(p, i)' = Target(p, i)
    BY <1>2, FilesStay
  <2> QED BY <2>1 DEF Targets
<1> QED BY <1>2, <1>3

\* While the files stay, so do the files reached, and what is wrong with them.
LEMMA ReachStays ==
  ASSUME UNCHANGED files
  PROVE  /\ \A p : Reach(p)' = Reach(p)
         /\ TooLong' <=> TooLong
         /\ Flawed' <=> Flawed
<1>1. Known' = Known /\ main_path' = main_path
  BY FilesStay
<1>2. \A p : /\ Source(p)' = Source(p) /\ (Readable(p)' <=> Readable(p))
             /\ (Sound(p)' <=> Sound(p)) /\ Items(p)' = Items(p)
  BY FilesStay
<1>3. \A p : Targets(p)' = Targets(p) /\ \A i : Target(p, i)' = Target(p, i)
  BY TargetsStay
<1>4. \A p : Reach(p)' = Reach(p)
  BY <1>1, <1>3 DEF Reach
<1>5. TooLong' <=> TooLong
  BY <1>1, <1>2, <1>3 DEF TooLong
<1>6. Flawed' <=> Flawed
  BY <1>1, <1>2, <1>3, <1>4 DEF Flawed
<1> QED BY <1>4, <1>5, <1>6

\* What is reached from p: p, and what is imported by what is reached; no more
\* than is in a set closed under that.
LEMMA ReachIsClosed ==
  ASSUME NEW p \in Paths
  PROVE  /\ p \in Reach(p) /\ Reach(p) \subseteq Paths
         /\ \A q \in Reach(p) : Targets(q) \subseteq Reach(p)
<1>1. \A q : Targets(q) \subseteq Known
  BY DEF Targets, Target
<1>2. ASSUME NEW q \in Reach(p), NEW r \in Targets(q) PROVE r \in Reach(p)
  BY <1>1 DEF Reach
<1> QED BY <1>2 DEF Reach, Paths

\* What has the file and the imports of what it has, has all that is reached.
LEMMA ReachIsLeast ==
  ASSUME NEW p, NEW S \in SUBSET Paths, p \in S, \A q \in S : Targets(q) \subseteq S
  PROVE  Reach(p) \subseteq S
BY DEF Reach, Paths

-----------------------------------------------------------------------------
(* The frames of the two walks.                                              *)

\* A frame with one field changed is a frame.
LEMMA FrameChanged ==
  ASSUME NEW P, NEW T, NEW I, NEW r \in [path : P, todo : T, imports : I], NEW new
  PROVE  /\ [r EXCEPT !.todo = new] = [path |-> r.path, todo |-> new, imports |-> r.imports]
         /\ [r EXCEPT !.imports = new] = [path |-> r.path, todo |-> r.todo, imports |-> new]
         /\ r.path \in P /\ r.todo \in T /\ r.imports \in I
OBVIOUS

\* Replacing the last element leaves the others where they were.
LEMMA TopReplaced ==
  ASSUME NEW S, NEW stack \in Seq(S), stack # <<>>
  PROVE  /\ Len(stack) \in 1 .. Len(stack) /\ Len(stack) \in Nat /\ DOMAIN stack = 1 .. Len(stack)
         /\ Last(stack) = stack[Len(stack)] /\ Last(stack) \in S
         /\ \A x \in S :
              LET new == [stack EXCEPT ![Len(stack)] = x]
              IN  /\ new \in Seq(S) /\ Len(new) = Len(stack) /\ new[Len(stack)] = x
                  /\ \A k \in 1 .. Len(stack) - 1 : new[k] = stack[k]
<1>1. Len(stack) \in 1 .. Len(stack) /\ Len(stack) \in Nat /\ DOMAIN stack = 1 .. Len(stack)
  OBVIOUS
<1>2. Last(stack) = stack[Len(stack)] /\ Last(stack) \in S
  <2>1. Last(stack) = stack[Len(stack)]
    BY ONLY DEF Last
  <2> QED BY ONLY stack \in Seq(S), <1>1, <2>1, ElementOfSeq
<1>3. ASSUME NEW x \in S
      PROVE  LET new == [stack EXCEPT ![Len(stack)] = x]
             IN  /\ new \in Seq(S) /\ Len(new) = Len(stack) /\ new[Len(stack)] = x
                 /\ \A k \in 1 .. Len(stack) - 1 : new[k] = stack[k]
  <2> DEFINE new == [stack EXCEPT ![Len(stack)] = x]
  <2>1. new \in Seq(S) /\ Len(new) = Len(stack)
    BY <1>1, ExceptSeq
  <2>2. \A k \in 1 .. Len(stack) : new[k] = IF k = Len(stack) THEN x ELSE stack[k]
    BY <1>1, ExceptSeq
  <2> HIDE DEF new
  <2>3. new[Len(stack)] = x
    BY <1>1, <2>2
  <2>4. \A n \in Nat : \A k \in 1 .. n - 1 : k \in 1 .. n /\ k # n
    OBVIOUS
  <2>5. \A k \in 1 .. Len(stack) - 1 : new[k] = stack[k]
    BY <1>1, <2>2, <2>4
  <2> QED BY <2>1, <2>3, <2>5 DEF new
<1> QED BY <1>1, <1>2, <1>3

\* An import was given up: it is no longer among those to follow.
LEMMA FramesSkipped ==
  ASSUME NEW stack \in Seq(Frames), stack # <<>>
  PROVE  /\ Skipped(stack) \in Seq(Frames) /\ Len(Skipped(stack)) = Len(stack)
         /\ \A k \in 1 .. Len(stack) - 1 : Skipped(stack)[k] = stack[k]
         /\ LET top == Last(stack)
            IN  Skipped(stack)[Len(stack)] =
                  [path |-> top.path, todo |-> top.todo \ {First(top.todo)}, imports |-> top.imports]
<1> DEFINE top == Last(stack)
           new == [path |-> top.path, todo |-> top.todo \ {First(top.todo)}, imports |-> top.imports]
<1>1. top \in Frames
  BY TopReplaced
<1>2. new \in Frames /\ [top EXCEPT !.todo = top.todo \ {First(top.todo)}] = new
  <2> HIDE DEF top
  <2> DEFINE todo == top.todo \ {First(top.todo)}
  <2>0. top \in [path : Paths, todo : SUBSET Nat, imports : Edges]
    BY <1>1 DEF Frames
  <2>1. /\ [top EXCEPT !.todo = todo] = [path |-> top.path, todo |-> todo, imports |-> top.imports]
        /\ top.path \in Paths /\ top.todo \in SUBSET Nat /\ top.imports \in Edges
    <3> HIDE DEF todo
    <3> QED BY <2>0, FrameChanged
  <2>2. new \in Frames
    BY <2>1 DEF Frames
  <2> QED BY <2>1, <2>2
<1>3. Skipped(stack) = [stack EXCEPT ![Len(stack)] = new]
  <2> HIDE DEF new
  <2> QED BY <1>2 DEF Skipped
<1> HIDE DEF new
<1> QED BY <1>2, <1>3, TopReplaced DEF new

AlsoBound(f, root, ix) == [r \in DOMAIN f \cup {root} |-> IF r = root THEN ix ELSE f[r]]

\* An import was followed: it is bound to its module.
LEMMA FramesBound ==
  ASSUME NEW stack \in Seq(Frames), stack # <<>>, NEW root \in Nat, NEW ix \in Nat,
         NEW f, f = Last(stack).imports,
         NEW g, g = AlsoBound(f, root, ix),
         NEW bound, bound = Bound(stack, root, ix)
  PROVE  /\ bound \in Seq(Frames) /\ Len(bound) = Len(stack)
         /\ \A k \in 1 .. Len(stack) - 1 : bound[k] = stack[k]
         /\ bound[Len(stack)].path = Last(stack).path
         /\ bound[Len(stack)].todo = Last(stack).todo \ {First(Last(stack).todo)}
         /\ bound[Len(stack)].imports = g
<1> DEFINE left == Skipped(stack)
           top == Last(left)
           new == [path |-> top.path, todo |-> top.todo, imports |-> g]
           old == Last(stack)
<1>1. /\ left \in Seq(Frames) /\ Len(left) = Len(stack)
      /\ \A k \in 1 .. Len(stack) - 1 : left[k] = stack[k]
      /\ left[Len(stack)] = [path |-> old.path, todo |-> old.todo \ {First(old.todo)}, imports |-> old.imports]
  BY FramesSkipped
<1>3. left # <<>>
  <2>1. Len(stack) > 0
    BY TopReplaced
  <2> HIDE DEF left
  <2> QED BY <1>1, <2>1
<1>4. top \in Frames /\ top = left[Len(stack)]
  <2> HIDE DEF left
  <2> QED BY <1>1, <1>3, TopReplaced
<1>5. top.path = old.path /\ top.todo = old.todo \ {First(old.todo)} /\ top.imports = old.imports
  <2> HIDE DEF left, top, old
  <2> QED BY <1>1, <1>4
<1>2. bound = [left EXCEPT ![Len(left)] = [top EXCEPT !.imports = g]]
  BY <1>1, <1>5 DEF Bound, AlsoBound
<1> HIDE DEF left, old, top
<1>6. g \in Edges
  <2>1. PICK D \in SUBSET Nat : top.imports \in [D -> Nat]
    BY <1>4 DEF Frames, Edges
  <2>3. f = top.imports
    BY <1>5 DEF old
  <2>2. g \in [D \cup {root} -> Nat]
    BY <2>1, <2>3 DEF AlsoBound
  <2> QED BY <2>2 DEF Edges
<1>7. new \in Frames /\ [top EXCEPT !.imports = g] = new
  <2>1. /\ [top EXCEPT !.imports = g] = new
        /\ top.path \in Paths /\ top.todo \in SUBSET Nat
    BY <1>4, FrameChanged DEF Frames
  <2>2. new \in Frames
    BY <1>6, <2>1 DEF Frames
  <2> QED BY <2>1, <2>2
<1>8. bound = [left EXCEPT ![Len(left)] = new]
  <2> HIDE DEF new
  <2> QED BY <1>2, <1>7
<1>9. /\ bound \in Seq(Frames) /\ Len(bound) = Len(left)
      /\ \A k \in 1 .. Len(left) - 1 : bound[k] = left[k]
      /\ bound[Len(left)] = new
  <2> HIDE DEF new
  <2> QED BY <1>3, <1>1, <1>7, <1>8, TopReplaced
<1>10. new.path = old.path /\ new.todo = old.todo \ {First(old.todo)} /\ new.imports = g
  BY <1>5
<1> HIDE DEF new
<1> QED BY <1>1, <1>9, <1>10 DEF old

\* The sequence without its last element.
LEMMA FrontIs ==
  ASSUME NEW S, NEW stack \in Seq(S), stack # <<>>
  PROVE  /\ Front(stack) \in Seq(S) /\ Len(Front(stack)) = Len(stack) - 1
         /\ \A k \in 1 .. Len(stack) - 1 : Front(stack)[k] = stack[k]
         /\ Front(stack) = <<>> <=> Len(stack) = 1
<1> DEFINE n == Len(stack)
<1>1. n \in Nat /\ n > 0 /\ n - 1 \in Int /\ 1 \in Int
  BY TopReplaced
<1>2. \A k \in 1 .. n - 1 : stack[k] \in S
  BY <1>1
<1>3. Front(stack) = SubSeq(stack, 1, n - 1)
  BY DEF Front
<1> HIDE DEF n
<1>4. /\ Front(stack) \in Seq(S) /\ Len(Front(stack)) = IF 1 =< n - 1 THEN n - 1 - 1 + 1 ELSE 0
      /\ \A k \in 1 .. n - 1 - 1 + 1 : Front(stack)[k] = stack[1 + k - 1]
  BY <1>1, <1>2, <1>3, SubSeqProperties
<1>5. /\ Front(stack) \in Seq(S) /\ Len(Front(stack)) = n - 1
      /\ \A k \in 1 .. n - 1 : Front(stack)[k] = stack[k]
  <2>1. n - 1 - 1 + 1 = n - 1 /\ \A k \in 1 .. n - 1 : 1 + k - 1 = k
    BY <1>1
  <2>2. (IF 1 =< n - 1 THEN n - 1 - 1 + 1 ELSE 0) = n - 1
    BY <1>1
  <2> QED BY <1>4, <2>1, <2>2
<1>6. Front(stack) = <<>> <=> Len(Front(stack)) = 0
  BY <1>5, EmptySeq
<1> QED BY <1>1, <1>5, <1>6 DEF n

-----------------------------------------------------------------------------
(* Following one import more.                                                *)

\* What is true of the imports followed stays so while modules are added, more is
\* reported and more files are met.
LEMMA ExploredStays ==
  ASSUME UNCHANGED files, diagnostics \subseteq diagnostics', Met \subseteq Met',
         \A i \in DOMAIN modules : i \in DOMAIN modules' /\ modules'[i].path = modules[i].path,
         NEW p, NEW todo, NEW f, Explored(p, todo, f)
  PROVE  Explored(p, todo, f)'
<1>1. /\ Items(p)' = Items(p) /\ \A q : Sound(q)' <=> Sound(q)
      /\ \A r : Target(p, r)' = Target(p, r)
  BY FilesStay, TargetsStay
<1>2. Cut => Cut'
  BY DEF Cut
<1>3. /\ todo \subseteq Items(p) /\ DOMAIN f \subseteq Items(p) \ todo
      /\ \A r \in Items(p) \ todo, s \in todo : r < s
  BY DEF Explored
<1>4. ASSUME NEW r \in DOMAIN f
      PROVE  f[r] \in DOMAIN modules' /\ Target(p, r) = {modules'[f[r]].path}
  BY DEF Explored
<1>5. ASSUME NEW r \in Items(p) \ todo
      PROVE  /\ r \notin DOMAIN f => diagnostics' # {}
             /\ ~Cut' => \A q \in Target(p, r) : Sound(q) => q \in Met'
  BY <1>2 DEF Explored
<1> QED BY <1>1, <1>3, <1>4, <1>5 DEF Explored

\* The next import followed, to no module.
LEMMA ExploredSkipping ==
  ASSUME FilesOK, UNCHANGED files, NEW p, NEW todo, NEW f, Explored(p, todo, f)', todo # {},
         diagnostics' # {},
         ~Cut' => \A q \in Target(p, First(todo)) : Sound(q) => q \in Met'
  PROVE  Explored(p, todo \ {First(todo)}, f)'
<1> DEFINE root == First(todo)
<1>1. /\ Items(p)' = Items(p) /\ \A q : Sound(q)' <=> Sound(q)
      /\ \A r : Target(p, r)' = Target(p, r)
  BY FilesStay, TargetsStay
<1>2. /\ todo \subseteq Items(p) /\ DOMAIN f \subseteq Items(p) \ todo
      /\ \A r \in Items(p) \ todo, s \in todo : r < s
  BY <1>1 DEF Explored
<1>3. PICK n \in Nat : Items(p) \subseteq 1 .. n
  BY ItemsAreNumbers
<1>4. root \in todo /\ \A s \in todo : root =< s
  BY <1>2, <1>3, FirstIsLeast
<1>5. \A r \in Items(p) \ (todo \ {root}), s \in todo \ {root} : r < s
  <2>1. \A s \in todo \ {root} : root < s
    BY <1>2, <1>3, <1>4
  <2> QED BY <1>2, <2>1
<1>6. \A r \in DOMAIN f : f[r] \in DOMAIN modules' /\ Target(p, r) = {modules'[f[r]].path}
  BY <1>1 DEF Explored
<1>7. ASSUME NEW r \in Items(p) \ (todo \ {root})
      PROVE  /\ r \notin DOMAIN f => diagnostics' # {}
             /\ ~Cut' => \A q \in Target(p, r) : Sound(q) => q \in Met'
  <2>1. CASE r = root
    BY <2>1
  <2>2. CASE r # root
    BY <1>1, <2>2 DEF Explored
  <2> QED BY <2>1, <2>2
<1> HIDE DEF root
<1> QED BY <1>1, <1>2, <1>5, <1>6, <1>7 DEF Explored, root

\* The next import followed, to a module.
LEMMA ExploredBinding ==
  ASSUME FilesOK, UNCHANGED files, NEW p, NEW todo, NEW f, Explored(p, todo, f)', todo # {},
         NEW ix \in DOMAIN modules', Target(p, First(todo)) = {modules'[ix].path},
         NEW root, root = First(todo),
         NEW g, g = AlsoBound(f, root, ix)
  PROVE  Explored(p, todo \ {root}, g)'
<1>1. /\ Items(p)' = Items(p) /\ \A q : Sound(q)' <=> Sound(q)
      /\ \A r : Target(p, r)' = Target(p, r)
  BY FilesStay, TargetsStay
<1>2. /\ todo \subseteq Items(p) /\ DOMAIN f \subseteq Items(p) \ todo
      /\ \A r \in Items(p) \ todo, s \in todo : r < s
  BY <1>1 DEF Explored
<1>3. PICK n \in Nat : Items(p) \subseteq 1 .. n
  BY ItemsAreNumbers
<1>4. root \in todo /\ \A s \in todo : root =< s
  BY <1>2, <1>3, FirstIsLeast
<1>5. \A r \in Items(p) \ (todo \ {root}), s \in todo \ {root} : r < s
  <2>1. \A s \in todo \ {root} : root < s
    BY <1>2, <1>3, <1>4
  <2> QED BY <1>2, <2>1
<1>0. DOMAIN g = DOMAIN f \cup {root} /\ \A r \in DOMAIN g : g[r] = IF r = root THEN ix ELSE f[r]
  BY DEF AlsoBound
<1>6. DOMAIN g \subseteq Items(p) \ (todo \ {root})
  BY <1>0, <1>2, <1>4
<1>7. ASSUME NEW r \in DOMAIN g
      PROVE  g[r] \in DOMAIN modules' /\ Target(p, r) = {modules'[g[r]].path}
  <2>1. CASE r = root
    BY <1>0, <2>1
  <2>2. CASE r # root
    <3>1. r \in DOMAIN f /\ g[r] = f[r]
      BY <1>0, <2>2
    <3> QED BY <1>1, <3>1 DEF Explored
  <2> QED BY <2>1, <2>2
<1>8. modules'[ix].path \in Met'
  BY DEF Met
<1>9. ASSUME NEW r \in Items(p) \ (todo \ {root})
      PROVE  /\ r \notin DOMAIN g => diagnostics' # {}
             /\ ~Cut' => \A q \in Target(p, r) : Sound(q) => q \in Met'
  <2>1. CASE r = root
    BY <1>0, <1>8, <2>1
  <2>2. CASE r # root
    BY <1>0, <1>1, <2>2 DEF Explored
  <2> QED BY <2>1, <2>2
<1> QED BY <1>1, <1>2, <1>5, <1>6, <1>7, <1>9 DEF Explored

-----------------------------------------------------------------------------
(* The files being loaded.                                                   *)

\* The files being loaded and the modules are numbered from 1, and of their types.
LEMMA Elements ==
  ASSUME LoadTypeOK
  PROVE  /\ Len(loading) \in Nat /\ DOMAIN loading = 1 .. Len(loading)
         /\ \A k \in DOMAIN loading :
              loading[k] \in Frames /\ loading[k].path \in Paths /\ loading[k].imports \in Edges
         /\ Len(modules) \in Nat /\ DOMAIN modules = 1 .. Len(modules)
         /\ \A i \in DOMAIN modules :
              modules[i] \in Mods /\ modules[i].path \in Paths /\ modules[i].imports \in Edges
<1>1. /\ Len(loading) \in Nat /\ DOMAIN loading = 1 .. Len(loading)
      /\ Len(modules) \in Nat /\ DOMAIN modules = 1 .. Len(modules)
  BY DEF LoadTypeOK
<1>2. \A k \in DOMAIN loading : loading[k] \in Frames
  BY DEF LoadTypeOK
<1>3. \A i \in DOMAIN modules : modules[i] \in Mods
  BY DEF LoadTypeOK
<1>4. \A frame \in Frames : frame.path \in Paths /\ frame.imports \in Edges
  BY DEF Frames
<1>5. \A m \in Mods : m.path \in Paths /\ m.imports \in Edges
  BY DEF Mods
<1> QED BY <1>1, <1>2, <1>3, <1>4, <1>5

\* The import a file being loaded has come to is one of its own.
LEMMA RootIsImport ==
  ASSUME LoadTypeOK, StackOK, NEW k \in DOMAIN loading, loading[k].todo # {}
  PROVE  First(loading[k].todo) \in loading[k].todo /\ First(loading[k].todo) \in Items(loading[k].path)
<1>1. loading[k].todo \subseteq Items(loading[k].path)
  BY DEF StackOK, Explored
<1>2. PICK n \in Nat : Items(loading[k].path) \subseteq 1 .. n
  BY ItemsAreNumbers DEF LoadTypeOK
<1>3. First(loading[k].todo) \in loading[k].todo
  BY <1>1, <1>2, FirstIsLeast
<1> QED BY <1>1, <1>3

\* A file being loaded is one that the file before it imports.
LEMMA StackTargets ==
  ASSUME LoadTypeOK, StackOK, NEW k \in 1 .. Len(loading) - 1
  PROVE  k \in DOMAIN loading /\ loading[k + 1].path \in Targets(loading[k].path)
<1>1. k \in DOMAIN loading
  BY DEF LoadTypeOK
<1>2. loading[k].todo # {} /\ Target(loading[k].path, First(loading[k].todo)) = {loading[k + 1].path}
  BY DEF StackOK
<1>3. First(loading[k].todo) \in Items(loading[k].path)
  BY <1>1, <1>2, RootIsImport
<1> QED BY <1>1, <1>2, <1>3 DEF Targets

\* Each file being loaded is reached from those before it.
LEMMA ChainReaches ==
  ASSUME LoadTypeOK, StackOK, NEW i \in DOMAIN loading, NEW k \in i .. Len(loading)
  PROVE  loading[k].path \in Reach(loading[i].path)
<1> DEFINE R == Reach(loading[i].path)
           n == Len(loading)
           out == {j \in i .. n : loading[j].path \notin R}
<1>1. n \in Nat /\ i \in 1 .. n /\ loading[i].path \in Paths
  BY Elements
<1>2. loading[i].path \in R /\ \A q \in R : Targets(q) \subseteq R
  BY <1>1, ReachIsClosed
<1> SUFFICES ASSUME out # {} PROVE FALSE
  OBVIOUS
<1>3. out \in SUBSET (1 .. n)
  BY <1>1
<1> DEFINE j == First(out)
<1>4. j \in out /\ \A l \in out : j =< l
  <2> HIDE DEF out, n
  <2> QED BY <1>1, <1>3, FirstIsLeast
<1> HIDE DEF j, R
<1>5. j # i /\ j \in i .. n
  BY <1>2, <1>4
<1>6. j - 1 \in 1 .. n - 1 /\ j - 1 \in i .. n /\ j - 1 + 1 = j /\ ~(j =< j - 1)
  BY <1>1, <1>5
<1>7. loading[j - 1].path \in R
  BY <1>4, <1>6
<1>8. loading[j - 1 + 1].path \in Targets(loading[j - 1].path)
  BY <1>6, StackTargets
<1> QED BY <1>2, <1>4, <1>6, <1>7, <1>8

\* A chain of files being loaded as long as it may be.
LEMMA ChainIsTooLong ==
  ASSUME LoadTypeOK, StackOK, NoneTwice, Len(loading) > MAX_IMPORT_DEPTH, Last(loading).todo # {}
  PROVE  TooLong
<1> DEFINE n == Len(loading)
           chain == [k \in 1 .. n |-> loading[k].path]
<1>1. n = MAX_IMPORT_DEPTH + 1 /\ MAX_IMPORT_DEPTH \in Nat /\ n \in DOMAIN loading /\ 1 \in DOMAIN loading
  <2>1. n \in Nat /\ MAX_IMPORT_DEPTH \in Nat /\ n =< MAX_IMPORT_DEPTH + 1 /\ n > MAX_IMPORT_DEPTH
    BY LoaderAssumption DEF LoadTypeOK, StackOK
  <2> QED BY <2>1 DEF LoadTypeOK
<1>2. chain \in [1 .. MAX_IMPORT_DEPTH + 1 -> Known \cup {main_path}]
  <2>1. \A k \in 1 .. n : loading[k].path \in Paths
    BY Elements
  <2> QED BY <1>1, <2>1 DEF Paths
<1>3. chain[1] = main_path
  BY <1>1 DEF StackOK
<1>4. Items(chain[MAX_IMPORT_DEPTH + 1]) # {}
  <2>1. Last(loading) = loading[n]
    BY DEF Last
  <2> QED BY <1>1, <2>1, RootIsImport
<1>5. \A k \in 1 .. MAX_IMPORT_DEPTH : chain[k + 1] \in Targets(chain[k])
  <2>1. \A k \in 1 .. MAX_IMPORT_DEPTH : k \in 1 .. n - 1 /\ k \in 1 .. n /\ k + 1 \in 1 .. n
    BY <1>1
  <2> QED BY <2>1, StackTargets
<1>6. \A j, k \in DOMAIN chain : chain[j] = chain[k] => j = k
  BY DEF NoneTwice, LoadTypeOK
<1> HIDE DEF chain
<1> QED BY <1>1, <1>2, <1>3, <1>4, <1>5, <1>6 DEF TooLong

\* The innermost file, and the import it has come to: reached, readable, and
\* whatever it imports is reached too.
LEMMA InnermostIs ==
  ASSUME LoadTypeOK, StackOK, loading # <<>>, Last(loading).todo # {}
  PROVE  LET p == Last(loading).path
             root == First(Last(loading).todo)
         IN  /\ Last(loading) = loading[Len(loading)] /\ Len(loading) \in DOMAIN loading
             /\ root \in Items(p) /\ root \in Nat /\ p \in Reach(main_path)
             /\ \A q \in Target(p, root) : q \in Targets(p) /\ q \in Reach(main_path)
             /\ main_path = loading[1].path /\ Sound(main_path) /\ 1 \in DOMAIN loading
<1>1. Last(loading) = loading[Len(loading)] /\ Len(loading) \in DOMAIN loading /\ 1 \in DOMAIN loading
  <2>1. Last(loading) = loading[Len(loading)] /\ Len(loading) \in 1 .. Len(loading) /\ DOMAIN loading = 1 .. Len(loading)
    BY TopReplaced DEF LoadTypeOK
  <2> QED BY <2>1
<1> DEFINE p == Last(loading).path
           root == First(Last(loading).todo)
<1>2. root \in Items(p)
  BY <1>1, RootIsImport
<1>3. root \in Nat
  BY <1>2, ItemsAreNumbers DEF LoadTypeOK
<1>4. p \in Reach(main_path)
  BY <1>1 DEF StackOK
<1>5. \A q \in Target(p, root) : q \in Targets(p)
  BY <1>2 DEF Targets
<1>6. \A q \in Targets(p) : q \in Reach(main_path)
  BY <1>4, ReachIsClosed DEF Paths
<1>7. main_path = loading[1].path /\ Sound(main_path)
  BY <1>1 DEF StackOK
<1> QED BY <1>1, <1>2, <1>3, <1>4, <1>5, <1>6, <1>7

-----------------------------------------------------------------------------
(* What each step of a load keeps.                                           *)

\* The modules stay as they are while more files are met and more is reported.
LEMMA ModulesStay ==
  ASSUME LoadInv, UNCHANGED <<files, modules>>, diagnostics \subseteq diagnostics', Met \subseteq Met'
  PROVE  ModulesOK'
<1>1. /\ \A p : Source(p)' = Source(p) /\ (Sound(p)' <=> Sound(p))
      /\ main_path' = main_path /\ Reach(main_path)' = Reach(main_path)
  BY FilesStay, ReachStays
<1>2. ASSUME NEW i \in DOMAIN modules
      PROVE  LET m == modules[i]
             IN  /\ m.path \in Reach(main_path)
                 /\ \A r \in DOMAIN m.imports : m.imports[r] < i
                 /\ IF Sound(m.path)
                    THEN m.items = Source(m.path).items /\ Explored(m.path, {}, m.imports)'
                    ELSE m.path = main_path /\ m.imports = NoImports
  <2> DEFINE m == modules[i]
  <2>1. /\ m.path \in Reach(main_path)
        /\ \A r \in DOMAIN m.imports : m.imports[r] < i
        /\ IF Sound(m.path)
           THEN m.items = Source(m.path).items /\ Explored(m.path, {}, m.imports)
           ELSE m.path = main_path /\ m.imports = NoImports
    BY DEF LoadInv, ModulesOK
  <2>2. Explored(m.path, {}, m.imports) => Explored(m.path, {}, m.imports)'
    BY ExploredStays
  <2> HIDE DEF m
  <2> QED BY <2>1, <2>2 DEF m
<1> QED BY <1>1, <1>2 DEF ModulesOK

\* The numbers up to n are those before n, and n.
LEMMA RangeSplit ==
  ASSUME NEW n \in Nat, n \in 1 .. n
  PROVE  /\ n # 0 /\ 1 \in 1 .. n
         /\ \A k \in 1 .. n : k = n \/ k \in 1 .. n - 1
         /\ \A k \in 1 .. n - 1 : k \in 1 .. n /\ k + 1 \in 1 .. n
<1>1. n # 0 /\ 1 \in 1 .. n
  OBVIOUS
<1>2. ASSUME NEW k \in 1 .. n PROVE k = n \/ k \in 1 .. n - 1
  OBVIOUS
<1>3. ASSUME NEW k \in 1 .. n - 1 PROVE k \in 1 .. n /\ k + 1 \in 1 .. n
  <2>1. k \in Nat /\ 1 =< k /\ k =< n - 1
    OBVIOUS
  <2>2. k =< n /\ 1 =< k + 1 /\ k + 1 =< n
    BY ONLY n \in Nat, <2>1
  <2> QED BY ONLY n \in Nat, <2>1, <2>2
<1> QED BY ONLY <1>1, <1>2, <1>3

\* The innermost file has followed an import more, and is as top.
Reported ==
  /\ diagnostics \subseteq diagnostics'
  /\ Cut' => TooLong
  /\ (\E d \in diagnostics' : d[1] # "too deep") => Flawed
TopIs(top) ==
  /\ loading # <<>> /\ top.path = loading[Len(loading)].path
  /\ loading' \in Seq(Frames) /\ Len(loading') = Len(loading) /\ loading'[Len(loading)] = top
  /\ \A k \in 1 .. Len(loading) - 1 : loading'[k] = loading[k]

\* With another innermost frame the files being loaded are the same.
LEMMA SamePaths ==
  ASSUME LoadTypeOK, NEW top, TopIs(top)
  PROVE  LET n == Len(loading)
         IN  /\ n \in Nat /\ n \in 1 .. n /\ n # 0 /\ loading' # <<>>
             /\ DOMAIN loading = 1 .. n /\ DOMAIN loading' = 1 .. n
             /\ \A k \in 1 .. n : k = n \/ (k # n /\ k \in 1 .. n - 1 /\ loading'[k] = loading[k])
             /\ \A k \in 1 .. n : loading'[k].path = loading[k].path
<1> DEFINE n == Len(loading)
<1>1. n \in Nat /\ n \in 1 .. n /\ DOMAIN loading = 1 .. n
  BY TopReplaced DEF LoadTypeOK, TopIs
<1>2. DOMAIN loading' = 1 .. n /\ Len(loading') = n
  BY LenProperties DEF TopIs
<1>3. loading'[n] = top /\ top.path = loading[n].path /\ \A k \in 1 .. n - 1 : loading'[k] = loading[k]
  BY DEF TopIs
<1> HIDE DEF n
<1>4. n # 0 /\ \A k \in 1 .. n : k = n \/ k \in 1 .. n - 1
  BY <1>1, RangeSplit
<1>5. loading' # <<>>
  BY <1>2, <1>4, EmptySeq
<1>6. \A k \in 1 .. n : loading'[k].path = loading[k].path
  BY <1>3, <1>4
<1>7. \A k \in 1 .. n : k = n \/ (k # n /\ k \in 1 .. n - 1 /\ loading'[k] = loading[k])
  BY ONLY <1>3, <1>4
<1> QED BY ONLY <1>1, <1>2, <1>4, <1>5, <1>6, <1>7 DEF n

\* Following an import keeps the invariant if what is left explored is.
LEMMA FollowedKeeps ==
  ASSUME LoadInv, UNCHANGED <<files, modules, entry>>, Reported, NEW top, TopIs(top),
         NEW at, NEW todo, NEW f, at = top.path, todo = top.todo, f = top.imports,
         Met' = Met => Explored(at, todo, f)'
  PROVE  LoadInv'
<1> DEFINE n == Len(loading)
<1>0. modules' = modules /\ entry' = entry /\ diagnostics \subseteq diagnostics' /\ LoadTypeOK
  BY DEF Reported, LoadInv
<1>1. /\ Paths' = Paths /\ main_path' = main_path /\ Reach(main_path)' = Reach(main_path)
      /\ \A p : /\ Source(p)' = Source(p) /\ (Readable(p)' <=> Readable(p))
                /\ (Sound(p)' <=> Sound(p)) /\ \A i : Target(p, i)' = Target(p, i)
      /\ (TooLong' <=> TooLong) /\ (Flawed' <=> Flawed)
  BY FilesStay, TargetsStay, ReachStays
<1>2. LoadTypeOK'
  <2>1. FilesOK'
    BY <1>0, FilesStay DEF LoadTypeOK
  <2>2. Frames' = Frames /\ Mods' = Mods
    BY <1>1 DEF Frames, Mods, ItemLists
  <2>3. loading' \in Seq(Frames) /\ modules \in Seq(Mods) /\ entry \in Nat
    BY <1>0 DEF TopIs, LoadTypeOK
  <2> QED BY <1>0, <2>1, <2>2, <2>3 DEF LoadTypeOK
<1>3. /\ n \in Nat /\ n \in 1 .. n /\ n # 0 /\ loading' # <<>>
      /\ DOMAIN loading = 1 .. n /\ DOMAIN loading' = 1 .. n
      /\ \A k \in 1 .. n : k = n \/ (k # n /\ k \in 1 .. n - 1 /\ loading'[k] = loading[k])
      /\ \A k \in 1 .. n : loading'[k].path = loading[k].path
  BY <1>0, SamePaths
<1>4. loading'[n] = top /\ Len(loading') = n /\ loading # <<>>
  BY DEF TopIs
<1>5. StackOK /\ NoneTwice /\ EntryOK /\ ReportsOK
  BY DEF LoadInv
<1> HIDE DEF n
<1>6. Met' = Met
  BY <1>0, <1>3 DEF Met
<1>7. ASSUME NEW k \in 1 .. n, NEW frame, frame = loading'[k]
      PROVE  Explored(frame.path, frame.todo, frame.imports)'
  <2>1. CASE k = n
    BY <1>4, <1>6, <1>7, <2>1
  <2>2. CASE k # n
    <3>1. frame = loading[k]
      BY <1>3, <1>7, <2>2
    <3>2. Explored(frame.path, frame.todo, frame.imports)
      BY <1>3, <1>5, <3>1 DEF StackOK
    <3>3. \A i \in DOMAIN modules : i \in DOMAIN modules' /\ modules'[i].path = modules[i].path
      BY <1>0
    <3> QED BY <1>0, <1>6, <3>2, <3>3, ExploredStays
  <2> QED BY <2>1, <2>2
<1>8. StackOK'
  <2>1. loading'[1].path = main_path /\ entry' = 0
    <3>1. loading[1].path = main_path /\ entry = 0
      BY <1>4, <1>5 DEF StackOK
    <3>2. 1 \in 1 .. n
      BY <1>3, RangeSplit
    <3> QED BY <1>0, <1>3, <3>1, <3>2
  <2>2. Len(loading') =< MAX_IMPORT_DEPTH + 1
    <3>1. Len(loading) =< MAX_IMPORT_DEPTH + 1
      BY <1>5 DEF StackOK
    <3> QED BY <1>4, <3>1 DEF n
  <2>3. \A k \in 1 .. n : Sound(loading'[k].path) /\ loading'[k].path \in Reach(main_path)
    BY <1>3, <1>5 DEF StackOK
  <2>4. ASSUME NEW k \in 1 .. n - 1
        PROVE  /\ loading'[k].todo # {}
               /\ Target(loading'[k].path, First(loading'[k].todo)) = {loading'[k + 1].path}
    <3>1. /\ loading[k].todo # {}
          /\ Target(loading[k].path, First(loading[k].todo)) = {loading[k + 1].path}
      BY <1>5 DEF StackOK, n
    <3>2. loading'[k] = loading[k]
      BY DEF TopIs, n
    <3>3. k + 1 \in 1 .. n
      BY <1>3, RangeSplit
    <3> QED BY <1>3, <3>1, <3>2, <3>3
  <2>5. \A k \in 1 .. n : Explored(loading[k].path, loading[k].todo, loading[k].imports)'
    BY <1>7
  <2>6. \A k \in DOMAIN loading' :
          /\ Sound(loading[k].path)' /\ loading'[k].path \in Reach(main_path)'
          /\ Explored(loading[k].path, loading[k].todo, loading[k].imports)'
    BY <1>1, <1>3, <2>3, <2>5
  <2>7. \A k \in 1 .. Len(loading') - 1 :
          /\ loading'[k].todo # {}
          /\ Target(loading[k].path, First(loading[k].todo))' = {loading'[k + 1].path}
    BY <1>1, <1>4, <2>4
  <2> QED BY <1>1, <2>1, <2>2, <2>6, <2>7 DEF StackOK
<1>9. NoneTwice'
  <2>1. \A i, j \in DOMAIN modules : modules[i].path = modules[j].path => i = j
    BY <1>5 DEF NoneTwice
  <2>2. ASSUME NEW k \in 1 .. n, NEW l \in 1 .. n, loading'[k].path = loading'[l].path PROVE k = l
    <3>1. loading[k].path = loading[l].path
      BY <1>3, <2>2
    <3> QED BY <1>3, <1>5, <3>1 DEF NoneTwice
  <2>3. ASSUME NEW i \in DOMAIN modules, NEW k \in 1 .. n PROVE modules[i].path # loading'[k].path
    <3>1. modules[i].path # loading[k].path
      BY <1>3, <1>5 DEF NoneTwice
    <3> QED BY <1>3, <3>1
  <2> QED BY <1>0, <1>3, <2>1, <2>2, <2>3 DEF NoneTwice
<1>10. ModulesOK'
  BY <1>0, <1>6, ModulesStay
<1>11. EntryOK'
  <2>1. entry = 0
    BY <1>4, <1>5 DEF StackOK
  <2> QED BY <1>0, <1>3, <2>1 DEF EntryOK
<1>12. ReportsOK'
  <2>1. \A p \in Met : Readable(p) /\ ~Source(p).parses => diagnostics' # {}
    BY <1>0, <1>5 DEF ReportsOK
  <2>2. (Cut' => TooLong) /\ ((\E d \in diagnostics' : d[1] # "too deep") => Flawed)
    BY DEF Reported
  <2> QED BY <1>1, <1>6, <2>1, <2>2 DEF ReportsOK
<1> QED BY <1>2, <1>8, <1>9, <1>10, <1>11, <1>12 DEF LoadInv

\* One import more followed, to no module.
LEMMA SkippingKeeps ==
  ASSUME LoadInv, UNCHANGED <<files, modules, entry>>, Reported, loading # <<>>, Last(loading).todo # {},
         loading' = Skipped(loading), diagnostics' # {},
         ~Cut' => \A q \in Target(Last(loading).path, First(Last(loading).todo)) : Sound(q) => q \in Met
  PROVE  LoadInv'
<1> SUFFICES ASSUME NEW p, NEW todo, NEW f, NEW top,
                    p = Last(loading).path, todo = Last(loading).todo, f = Last(loading).imports,
                    top = loading'[Len(loading)]
             PROVE  LoadInv'
  BY Zenon
<1>1. LoadTypeOK /\ StackOK /\ loading \in Seq(Frames)
  BY DEF LoadInv, LoadTypeOK
<1>2. TopIs(top) /\ top.path = p /\ top.todo = todo \ {First(todo)} /\ top.imports = f
  <2>1. /\ Skipped(loading) \in Seq(Frames) /\ Len(Skipped(loading)) = Len(loading)
        /\ \A k \in 1 .. Len(loading) - 1 : Skipped(loading)[k] = loading[k]
        /\ Skipped(loading)[Len(loading)] = [path |-> p, todo |-> todo \ {First(todo)}, imports |-> f]
    BY <1>1, FramesSkipped
  <2>2. p = loading[Len(loading)].path
    BY <1>1, TopReplaced
  <2>3. top.path = p /\ top.todo = todo \ {First(todo)} /\ top.imports = f
    BY <2>1
  <2> QED BY <2>1, <2>2, <2>3 DEF TopIs
<1>3. Explored(p, todo, f)
  <2>1. Last(loading) = loading[Len(loading)] /\ Len(loading) \in DOMAIN loading
    BY <1>1, InnermostIs
  <2> QED BY <1>1, <2>1 DEF StackOK
<1>4. ASSUME Met' = Met PROVE Explored(p, todo \ {First(todo)}, f)'
  <2>1. \A i \in DOMAIN modules : i \in DOMAIN modules' /\ modules'[i].path = modules[i].path
    OBVIOUS
  <2>2. Explored(p, todo, f)'
    BY <1>3, <1>4, <2>1, ExploredStays DEF Reported
  <2>3. ~Cut' => \A q \in Target(p, First(todo)) : Sound(q) => q \in Met'
    BY <1>4
  <2>4. FilesOK /\ UNCHANGED files /\ todo # {}
    BY <1>1 DEF LoadTypeOK
  <2> QED BY <2>2, <2>3, <2>4, ExploredSkipping
<1> QED BY <1>2, <1>4, FollowedKeeps

\* One import more followed, to the module of its file.
LEMMA BindingKeeps ==
  ASSUME LoadInv, UNCHANGED <<files, modules, entry, diagnostics>>, loading # <<>>, Last(loading).todo # {},
         NEW ix \in DOMAIN modules,
         Target(Last(loading).path, First(Last(loading).todo)) = {modules[ix].path},
         loading' = Bound(loading, First(Last(loading).todo), ix)
  PROVE  LoadInv'
<1> SUFFICES ASSUME NEW p, NEW todo, NEW f, NEW root, NEW g, NEW top,
                    p = Last(loading).path, todo = Last(loading).todo, f = Last(loading).imports,
                    root = First(todo), g = AlsoBound(f, root, ix),
                    top = loading'[Len(loading)]
             PROVE  LoadInv'
  BY Zenon
<1>1. LoadTypeOK /\ StackOK /\ loading \in Seq(Frames)
  BY DEF LoadInv, LoadTypeOK
<1>2. TopIs(top) /\ top.path = p /\ top.todo = todo \ {root} /\ top.imports = g
  <2>1. ix \in Nat /\ root \in Nat
    BY <1>1, InnermostIs, Elements
  <2> SUFFICES ASSUME NEW bound, bound = Bound(loading, root, ix)
               PROVE  TopIs(top) /\ top.path = p /\ top.todo = todo \ {root} /\ top.imports = g
    BY Zenon
  <2>2. /\ bound \in Seq(Frames) /\ Len(bound) = Len(loading)
        /\ \A k \in 1 .. Len(loading) - 1 : bound[k] = loading[k]
        /\ bound[Len(loading)].path = p /\ bound[Len(loading)].todo = todo \ {root}
        /\ bound[Len(loading)].imports = g
    BY <1>1, <2>1, FramesBound
  <2>3. p = loading[Len(loading)].path
    BY <1>1, TopReplaced
  <2>4. loading' = bound
    OBVIOUS
  <2> QED BY <2>2, <2>3, <2>4 DEF TopIs
<1>3. Explored(p, todo, f)
  <2>1. Last(loading) = loading[Len(loading)] /\ Len(loading) \in DOMAIN loading
    BY <1>1, InnermostIs
  <2> QED BY <1>1, <2>1 DEF StackOK
<1>4. ASSUME Met' = Met PROVE Explored(p, todo \ {root}, g)'
  <2>1. \A i \in DOMAIN modules : i \in DOMAIN modules' /\ modules'[i].path = modules[i].path
    OBVIOUS
  <2>2. Explored(p, todo, f)'
    BY <1>3, <1>4, <2>1, ExploredStays
  <2>3. ix \in DOMAIN modules' /\ Target(p, First(todo)) = {modules'[ix].path}
    OBVIOUS
  <2>4. FilesOK /\ UNCHANGED files /\ todo # {}
    BY <1>1 DEF LoadTypeOK
  <2> QED BY <2>2, <2>3, <2>4, ExploredBinding
<1>5. Reported
  BY DEF Reported, LoadInv, ReportsOK, Cut
<1> QED BY <1>2, <1>4, <1>5, FollowedKeeps

\* The file the next import names.
LEMMA WhatIsNamed ==
  ASSUME LoadTypeOK, StackOK, loading # <<>>, Last(loading).todo # {},
         NEW p, p = Last(loading).path, NEW root, root = First(Last(loading).todo),
         NEW named, named = Named(p, Source(p).items[root])
  PROVE  /\ named = {} => Target(p, root) = {} /\ Flawed
         /\ \A q \in named :
              /\ Target(p, root) \subseteq {q}
              /\ Readable(q) => Target(p, root) = {q} /\ q \in Paths /\ q \in Reach(main_path)
              /\ ~Readable(q) => Flawed
              /\ Readable(q) /\ ~Source(q).parses => Flawed
              /\ BeingLoaded(q) => Readable(q) /\ Flawed
<1>1. /\ Last(loading) = loading[Len(loading)] /\ Len(loading) \in DOMAIN loading /\ Sound(main_path)
      /\ root \in Items(p) /\ p \in Reach(main_path)
      /\ \A q \in Target(p, root) : q \in Targets(p) /\ q \in Reach(main_path)
  BY InnermostIs
<1>2. FilesOK
  BY DEF LoadTypeOK
<1>3. /\ Target(p, root) = named \cap Known
      /\ \A q \in named : named = {q} /\ (Readable(q) => Target(p, root) = {q})
  BY <1>1, <1>2, TargetIsNamed
<1>4. Target(p, root) = {} => Flawed
  BY <1>1 DEF Flawed
<1>5. ASSUME NEW q \in named
      PROVE  /\ Target(p, root) \subseteq {q}
             /\ Readable(q) => Target(p, root) = {q} /\ q \in Paths /\ q \in Reach(main_path)
             /\ ~Readable(q) => Flawed
             /\ Readable(q) /\ ~Source(q).parses => Flawed
             /\ BeingLoaded(q) => Readable(q) /\ Flawed
  <2>1. Target(p, root) \subseteq {q}
    BY <1>3
  <2>2. ASSUME Readable(q) PROVE Target(p, root) = {q} /\ q \in Paths /\ q \in Reach(main_path)
    BY <1>1, <1>3, <2>2 DEF Paths
  <2>3. ASSUME ~Readable(q) PROVE Flawed
    <3>1. CASE q \in Target(p, root)
      <4>1. q \in Reach(main_path) /\ q # main_path
        BY <1>1, <2>3, <3>1 DEF Sound
      <4> QED BY <2>3, <4>1 DEF Flawed
    <3>2. CASE q \notin Target(p, root)
      BY <1>4, <2>1, <3>2
    <3> QED BY <3>1, <3>2
  <2>4. ASSUME Readable(q), ~Source(q).parses PROVE Flawed
    BY <2>2, <2>4 DEF Flawed
  <2>5. ASSUME BeingLoaded(q) PROVE Readable(q) /\ Flawed
    <3>1. PICK i \in DOMAIN loading : loading[i].path = q
      BY <2>5 DEF BeingLoaded
    <3>2. Readable(q)
      BY <3>1 DEF StackOK, Sound
    <3>3. q \in Targets(p)
      BY <1>1, <2>2, <3>2
    <3>4. Len(loading) \in i .. Len(loading)
      BY <3>1, Elements
    <3>5. p \in Reach(q)
      BY <1>1, <3>1, <3>4, ChainReaches
    <3> QED BY <1>1, <3>2, <3>3, <3>5 DEF Flawed
  <2> QED BY <2>1, <2>2, <2>3, <2>4, <2>5
<1> QED BY <1>3, <1>4, <1>5

\* A file just come to has followed none of its imports.
LEMMA FrameIs ==
  ASSUME FilesOK, NEW q \in Paths, Sound(q), NEW frame, frame = Frame(q)
  PROVE  /\ frame \in Frames
         /\ frame.path = q /\ frame.todo = Items(q) /\ frame.imports = NoImports
<1>1. frame.path = q /\ frame.todo = Items(q) /\ frame.imports = NoImports
  BY DEF Frame, Items
<1>2. Items(q) \in SUBSET Nat
  <2>1. PICK n \in Nat : Items(q) \subseteq 1 .. n
    BY ItemsAreNumbers
  <2> QED BY <2>1
<1>3. NoImports \in [{} -> Nat]
  BY DEF NoImports
<1>4. NoImports \in Edges
  BY <1>3 DEF Edges
<1>5. frame = [path |-> q, todo |-> Items(q), imports |-> NoImports]
  BY DEF Frame, Items
<1> HIDE DEF NoImports
<1> QED BY <1>1, <1>2, <1>4, <1>5 DEF Frames

\* A file whose imports are all to be followed is explored so far.
LEMMA ExploredNone ==
  ASSUME UNCHANGED files, NEW q, NEW todo, todo = Items(q), NEW f, f = NoImports
  PROVE  Explored(q, todo, f)'
<1>1. Items(q)' = Items(q)
  BY FilesStay
<1>2. DOMAIN f = {}
  BY DEF NoImports
<1> QED BY <1>1, <1>2 DEF Explored

\* A file more is being loaded, the one the innermost file imports next.
LEMMA PushingKeeps ==
  ASSUME LoadInv, UNCHANGED <<files, modules, entry>>, Reported, loading # <<>>, Last(loading).todo # {},
         Len(loading) =< MAX_IMPORT_DEPTH,
         NEW q \in Paths, q \in Reach(main_path), Sound(q), ~BeingLoaded(q), ~Loaded(q),
         Target(Last(loading).path, First(Last(loading).todo)) = {q},
         ~Source(q).parses => diagnostics' # {},
         NEW frame, frame = Frame(q), loading' = Append(loading, frame)
  PROVE  LoadInv'
<1> DEFINE n == Len(loading)
<1>0. modules' = modules /\ entry' = entry /\ diagnostics \subseteq diagnostics' /\ LoadTypeOK
  BY DEF Reported, LoadInv
<1>1. /\ Paths' = Paths /\ main_path' = main_path /\ Reach(main_path)' = Reach(main_path)
      /\ \A p : /\ Source(p)' = Source(p) /\ (Readable(p)' <=> Readable(p))
                /\ (Sound(p)' <=> Sound(p)) /\ \A i : Target(p, i)' = Target(p, i)
      /\ (TooLong' <=> TooLong) /\ (Flawed' <=> Flawed)
  BY FilesStay, TargetsStay, ReachStays
<1>2. FilesOK /\ frame \in Frames /\ frame.path = q /\ frame.todo = Items(q) /\ frame.imports = NoImports
  BY <1>0, FrameIs DEF LoadTypeOK
<1>3. /\ loading' \in Seq(Frames) /\ n \in Nat /\ n # 0 /\ Len(loading') = n + 1
      /\ DOMAIN loading = 1 .. n /\ DOMAIN loading' = 1 .. n + 1 /\ loading' # <<>>
      /\ loading'[n + 1] = frame /\ \A k \in 1 .. n : loading'[k] = loading[k]
  <2>1. loading \in Seq(Frames)
    BY <1>0 DEF LoadTypeOK
  <2>2. n \in Nat /\ n # 0
    BY <2>1, EmptySeq
  <2>3. /\ loading' \in Seq(Frames) /\ Len(loading') = n + 1
        /\ \A k \in 1 .. n : loading'[k] = loading[k] /\ loading'[n + 1] = frame
    BY <1>2, <2>1, AppendProperties
  <2>4. DOMAIN loading = 1 .. n /\ DOMAIN loading' = 1 .. n + 1 /\ loading' # <<>>
    BY <2>1, <2>2, <2>3, LenProperties, EmptySeq
  <2>5. loading'[n + 1] = frame
    BY <1>2, <2>1, AppendProperties
  <2> QED BY <2>2, <2>3, <2>4, <2>5
<1>4. LoadTypeOK'
  <2>1. FilesOK'
    BY <1>2, FilesStay
  <2>2. Frames' = Frames /\ Mods' = Mods
    BY <1>1 DEF Frames, Mods, ItemLists
  <2>3. modules \in Seq(Mods) /\ entry \in Nat
    BY <1>0 DEF LoadTypeOK
  <2> QED BY <1>0, <1>3, <2>1, <2>2, <2>3 DEF LoadTypeOK
<1>5. StackOK /\ NoneTwice /\ ReportsOK
  BY DEF LoadInv
<1> HIDE DEF n
<1>6. \A k \in 1 .. n + 1 : k = n + 1 \/ (k # n + 1 /\ k \in 1 .. n)
  BY <1>3
<1>7. Met' = Met \cup {q}
  <2>1. \A k \in 1 .. n : loading'[k].path = loading[k].path
    BY <1>3
  <2>2. {loading'[k].path : k \in 1 .. n + 1} = {loading'[k].path : k \in 1 .. n} \cup {loading'[n + 1].path}
    <3>1. 1 .. n + 1 = 1 .. n \cup {n + 1}
      BY <1>3
    <3> QED BY <3>1
  <2> QED BY <1>0, <1>2, <1>3, <2>1, <2>2 DEF Met
<1>8. ASSUME NEW k \in 1 .. n + 1, NEW top, top = loading'[k], NEW p, p = top.path,
             NEW todo, todo = top.todo, NEW f, f = top.imports
      PROVE  Sound(p) /\ p \in Reach(main_path) /\ Explored(p, todo, f)'
  <2>1. CASE k = n + 1
    <3>1. p = q /\ todo = Items(q) /\ f = NoImports
      BY <1>2, <1>3, <1>8, <2>1
    <3> QED BY <3>1, ExploredNone
  <2>2. CASE k # n + 1
    <3>1. k \in DOMAIN loading /\ top = loading[k]
      BY <1>3, <1>6, <1>8, <2>2
    <3>2. Sound(p) /\ p \in Reach(main_path) /\ Explored(p, todo, f)
      BY <1>5, <1>8, <3>1 DEF StackOK
    <3>3. \A i \in DOMAIN modules : i \in DOMAIN modules' /\ modules'[i].path = modules[i].path
      BY <1>0
    <3> QED BY <1>0, <1>7, <3>2, <3>3, ExploredStays
  <2> QED BY <2>1, <2>2
<1>9. ASSUME NEW k \in 1 .. n
      PROVE  /\ loading'[k].todo # {}
             /\ Target(loading'[k].path, First(loading'[k].todo)) = {loading'[k + 1].path}
  <2>1. loading'[k] = loading[k]
    BY <1>3
  <2>2. CASE k = n
    <3>1. Last(loading) = loading[n]
      BY DEF Last, n
    <3> QED BY <1>2, <1>3, <2>1, <2>2, <3>1
  <2>3. CASE k # n
    <3>1. k \in 1 .. n - 1 /\ k + 1 \in 1 .. n
      BY <1>3, <2>3
    <3>2. /\ loading[k].todo # {}
          /\ Target(loading[k].path, First(loading[k].todo)) = {loading[k + 1].path}
      BY <1>5, <3>1 DEF StackOK, n
    <3>3. loading'[k + 1] = loading[k + 1]
      BY <1>3, <3>1
    <3> QED BY <2>1, <3>2, <3>3
  <2> QED BY <2>2, <2>3
<1>10. StackOK'
  <2>1. loading'[1].path = main_path /\ entry' = 0
    <3>1. loading[1].path = main_path /\ entry = 0
      BY <1>5 DEF StackOK
    <3>2. 1 \in 1 .. n
      BY <1>3
    <3> QED BY <1>0, <1>3, <3>1, <3>2
  <2>2. Len(loading') =< MAX_IMPORT_DEPTH + 1
    <3>1. n =< MAX_IMPORT_DEPTH /\ MAX_IMPORT_DEPTH \in Nat
      BY LoaderAssumption DEF n
    <3> QED BY <1>3, <3>1
  <2>3. ASSUME NEW k \in 1 .. n + 1
        PROVE  /\ Sound(loading[k].path)' /\ loading'[k].path \in Reach(main_path)
               /\ Explored(loading[k].path, loading[k].todo, loading[k].imports)'
    BY <1>1, <1>8
  <2>4. \A k \in 1 .. n :
          /\ loading'[k].todo # {}
          /\ Target(loading[k].path, First(loading[k].todo))' = {loading'[k + 1].path}
    BY <1>1, <1>9
  <2>5. Len(loading') - 1 = n
    BY <1>3
  <2>6. \A k \in DOMAIN loading' :
          /\ Sound(loading[k].path)' /\ loading'[k].path \in Reach(main_path)'
          /\ Explored(loading[k].path, loading[k].todo, loading[k].imports)'
    BY <1>1, <1>3, <2>3
  <2> QED BY <1>1, <2>1, <2>2, <2>4, <2>5, <2>6 DEF StackOK
<1>11. NoneTwice'
  <2>1. \A i, j \in DOMAIN modules : modules[i].path = modules[j].path => i = j
    BY <1>5 DEF NoneTwice
  <2>2. \A k \in 1 .. n : loading[k].path # q
    BY <1>3 DEF BeingLoaded
  <2>3. ASSUME NEW k \in 1 .. n + 1, NEW l \in 1 .. n + 1, loading'[k].path = loading'[l].path PROVE k = l
    <3>1. CASE k \in 1 .. n /\ l \in 1 .. n
      <4>1. loading[k].path = loading[l].path
        BY <1>3, <2>3, <3>1
      <4> QED BY <1>3, <1>5, <3>1, <4>1 DEF NoneTwice
    <3>2. CASE ~(k \in 1 .. n /\ l \in 1 .. n)
      BY <1>2, <1>3, <1>6, <2>2, <2>3, <3>2
    <3> QED BY <3>1, <3>2
  <2>4. ASSUME NEW i \in DOMAIN modules, NEW k \in 1 .. n + 1 PROVE modules[i].path # loading'[k].path
    <3>1. CASE k = n + 1
      BY <1>2, <1>3, <3>1 DEF Loaded
    <3>2. CASE k # n + 1
      <4>1. k \in DOMAIN loading /\ loading'[k] = loading[k]
        BY <1>3, <1>6, <3>2
      <4> QED BY <1>5, <4>1 DEF NoneTwice
    <3> QED BY <3>1, <3>2
  <2> QED BY <1>0, <1>3, <2>1, <2>3, <2>4 DEF NoneTwice
<1>12. ModulesOK'
  BY <1>0, <1>7, ModulesStay
<1>13. EntryOK'
  <2>1. entry = 0
    BY <1>5 DEF StackOK
  <2> QED BY <1>0, <1>3, <2>1 DEF EntryOK
<1>14. ReportsOK'
  <2>1. \A p \in Met \cup {q} : Readable(p) /\ ~Source(p).parses => diagnostics' # {}
    BY <1>0, <1>5 DEF ReportsOK
  <2>2. (Cut' => TooLong) /\ ((\E d \in diagnostics' : d[1] # "too deep") => Flawed)
    BY DEF Reported
  <2> QED BY <1>1, <1>7, <2>1, <2>2 DEF ReportsOK
<1> QED BY <1>4, <1>10, <1>11, <1>12, <1>13, <1>14 DEF LoadInv

\* What is reported is true.
LEMMA AlsoReported ==
  ASSUME LoadInv, NEW D, diagnostics' = diagnostics \cup D,
         \A d \in D : IF d[1] = "too deep" THEN TooLong ELSE Flawed
  PROVE  Reported
<1>1. (Cut => TooLong) /\ ((\E d \in diagnostics : d[1] # "too deep") => Flawed)
  BY DEF LoadInv, ReportsOK
<1> QED BY <1>1 DEF Reported, Cut

\* What is reported of a file is that it cannot be read or does not parse, and it is.
LEMMA ReportsAre ==
  ASSUME NEW p, NEW asked
  PROVE  /\ \A d \in Reports(p, asked) : d[1] # "too deep"
         /\ Reports(p, asked) # {} => IF Readable(p) THEN ~Source(p).parses ELSE asked # {}
         /\ Readable(p) /\ ~Source(p).parses => Reports(p, asked) # {}
         /\ ~Readable(p) /\ asked # {} => Reports(p, asked) # {}
<1>1. CASE Readable(p)
  <2>1. {<<"unreadable", by>> : by \in {}} = {}
    OBVIOUS
  <2>2. Reports(p, asked) = IF Source(p).parses THEN {} ELSE {<<"parse", p>>}
    BY <1>1, <2>1 DEF Reports
  <2>3. <<"parse", p>>[1] # "too deep"
    OBVIOUS
  <2>4. CASE Source(p).parses
    BY <1>1, <2>2, <2>4
  <2>5. CASE ~Source(p).parses
    <3>1. Reports(p, asked) = {<<"parse", p>>}
      BY <2>2, <2>5
    <3> QED BY <1>1, <2>3, <2>5, <3>1
  <2> QED BY <2>4, <2>5
<1>2. CASE ~Readable(p)
  <2>1. Reports(p, asked) = {<<"unreadable", by>> : by \in asked}
    BY <1>2 DEF Reports
  <2>2. \A by : <<"unreadable", by>>[1] # "too deep"
    OBVIOUS
  <2>3. asked # {} <=> {<<"unreadable", by>> : by \in asked} # {}
    OBVIOUS
  <2>4. \A d \in {<<"unreadable", by>> : by \in asked} : d[1] # "too deep"
    BY <2>2
  <2> QED BY <1>2, <2>1, <2>3, <2>4
<1> QED BY <1>1, <1>2

\* An import followed keeps the invariant of a load.
LEMMA FollowImportKeeps ==
  ASSUME LoadInv, FollowImport
  PROVE  LoadInv'
<1> SUFFICES ASSUME NEW p, p = Last(loading).path, NEW root, root = First(Last(loading).todo),
                    NEW named, named = Named(p, Source(p).items[root])
             PROVE  LoadInv'
  BY Zenon
<1> DEFINE refused(code) ==
             /\ diagnostics' = diagnostics \cup {<<code, p, root>>}
             /\ loading' = Skipped(loading)
<1>1. /\ loading # <<>> /\ Last(loading).todo # {} /\ UNCHANGED <<files, modules, entry>>
      /\ IF Len(loading) > MAX_IMPORT_DEPTH THEN refused("too deep")
         ELSE IF named = {} THEN refused("not found")
         ELSE \E target \in named :
                IF BeingLoaded(target) THEN refused("cycle")
                ELSE IF Loaded(target)
                THEN loading' = Bound(loading, root, IndexOf(target)) /\ UNCHANGED diagnostics
                ELSE /\ diagnostics' = diagnostics \cup Reports(target, {<<p, root>>})
                     /\ loading' = IF Sound(target) THEN Append(loading, Frame(target)) ELSE Skipped(loading)
  BY Zenon DEF FollowImport
<1>2. LoadTypeOK /\ StackOK /\ NoneTwice
  BY DEF LoadInv
<1>3. /\ named = {} => Target(p, root) = {} /\ Flawed
      /\ \A q \in named :
           /\ Target(p, root) \subseteq {q}
           /\ Readable(q) => Target(p, root) = {q} /\ q \in Paths /\ q \in Reach(main_path)
           /\ ~Readable(q) => Flawed
           /\ Readable(q) /\ ~Source(q).parses => Flawed
           /\ BeingLoaded(q) => Readable(q) /\ Flawed
  <2>1. loading # <<>> /\ Last(loading).todo # {}
    BY <1>1
  <2> QED BY <1>2, <2>1, WhatIsNamed
<1>4. ASSUME NEW code, refused(code), code = "too deep" => TooLong, code # "too deep" => Flawed,
             code # "too deep" => \A q \in Target(p, root) : Sound(q) => q \in Met
      PROVE  LoadInv'
  <2>1. \A d \in {<<code, p, root>>} : IF d[1] = "too deep" THEN TooLong ELSE Flawed
    <3>1. <<code, p, root>>[1] = code
      OBVIOUS
    <3> QED BY <1>4, <3>1
  <2>2. Reported
    BY <1>4, <2>1, AlsoReported
  <2>3. diagnostics' # {}
    BY <1>4
  <2>4. ~Cut' => \A q \in Target(p, root) : Sound(q) => q \in Met
    <3>1. CASE code = "too deep"
      <4>1. <<code, p, root>> \in diagnostics' /\ <<code, p, root>>[1] = "too deep"
        BY <1>4, <3>1
      <4> QED BY <4>1 DEF Cut
    <3>2. CASE code # "too deep"
      BY <1>4, <3>2
    <3> QED BY <3>1, <3>2
  <2> QED BY <1>1, <1>4, <2>2, <2>3, <2>4, SkippingKeeps
<1>5. CASE Len(loading) > MAX_IMPORT_DEPTH
  <2>1. TooLong
    BY <1>1, <1>2, <1>5, ChainIsTooLong
  <2>2. refused("too deep")
    BY <1>1, <1>5
  <2> HIDE DEF refused
  <2> QED BY <1>4, <2>1, <2>2
<1>6. CASE ~(Len(loading) > MAX_IMPORT_DEPTH) /\ named = {}
  <2>1. refused("not found")
    BY <1>1, <1>6
  <2>2. "not found" # "too deep"
    OBVIOUS
  <2> HIDE DEF refused
  <2> QED BY <1>3, <1>4, <1>6, <2>1, <2>2
<1>7. ASSUME ~(Len(loading) > MAX_IMPORT_DEPTH), NEW target \in named, BeingLoaded(target), refused("cycle")
      PROVE  LoadInv'
  <2>1. Flawed /\ \A q \in Target(p, root) : Sound(q) => q \in Met
    <3>1. target \in Met
      BY <1>7 DEF BeingLoaded, Met
    <3> QED BY <1>3, <1>7, <3>1
  <2>2. "cycle" # "too deep"
    OBVIOUS
  <2> HIDE DEF refused
  <2> QED BY <1>4, <1>7, <2>1, <2>2
<1>8. ASSUME ~(Len(loading) > MAX_IMPORT_DEPTH), NEW target \in named, ~BeingLoaded(target), Loaded(target),
             loading' = Bound(loading, root, IndexOf(target)), UNCHANGED diagnostics
      PROVE  LoadInv'
  <2>1. PICK ix \in DOMAIN modules : ix = IndexOf(target) /\ modules[ix].path = target
    BY <1>8 DEF Loaded, IndexOf
  <2>2. Readable(target)
    <3>1. target # main_path
      BY <1>1, <1>2, <1>8, InnermostIs DEF BeingLoaded
    <3>2. Sound(target)
      BY <2>1, <3>1 DEF LoadInv, ModulesOK
    <3> QED BY <3>2 DEF Sound
  <2>3. Target(p, root) = {modules[ix].path}
    BY <1>3, <2>1, <2>2
  <2> QED BY <1>1, <1>8, <2>1, <2>3, BindingKeeps
<1>9. ASSUME ~(Len(loading) > MAX_IMPORT_DEPTH), NEW target \in named, ~BeingLoaded(target), ~Loaded(target),
             diagnostics' = diagnostics \cup Reports(target, {<<p, root>>}),
             loading' = IF Sound(target) THEN Append(loading, Frame(target)) ELSE Skipped(loading)
      PROVE  LoadInv'
  <2>1. \A d \in Reports(target, {<<p, root>>}) : IF d[1] = "too deep" THEN TooLong ELSE Flawed
    <3>1. \A d \in Reports(target, {<<p, root>>}) : d[1] # "too deep"
      BY ONLY ReportsAre
    <3>2. ASSUME Reports(target, {<<p, root>>}) # {} PROVE Flawed
      <4>1. IF Readable(target) THEN ~Source(target).parses ELSE TRUE
        BY ONLY <3>2, ReportsAre
      <4>2. /\ ~Readable(target) => Flawed
            /\ Readable(target) /\ ~Source(target).parses => Flawed
        BY ONLY <1>3, target \in named
      <4> QED BY ONLY <4>1, <4>2
    <3> QED BY ONLY <3>1, <3>2
  <2>2. Reported
    BY <1>9, <2>1, AlsoReported
  <2>3. CASE Sound(target)
    <3>1. Readable(target) /\ Target(p, root) = {target} /\ target \in Paths /\ target \in Reach(main_path)
      BY <1>3, <2>3 DEF Sound
    <3>2. ASSUME ~Source(target).parses PROVE diagnostics' # {}
      <4>1. Reports(target, {<<p, root>>}) # {}
        BY <3>1, <3>2, ReportsAre
      <4> QED BY <1>9, <4>1
    <3>3. Len(loading) =< MAX_IMPORT_DEPTH
      <4>1. Len(loading) \in Nat /\ MAX_IMPORT_DEPTH \in Nat
        BY <1>2, LoaderAssumption, Elements
      <4> QED BY <1>9, <4>1
    <3>4. loading' = Append(loading, Frame(target))
      BY <1>9, <2>3
    <3> QED BY <1>1, <1>9, <2>2, <2>3, <3>1, <3>2, <3>3, <3>4, PushingKeeps
  <2>4. CASE ~Sound(target)
    <3>1. diagnostics' # {}
      <4>1. Readable(target) => ~Source(target).parses
        BY <2>4 DEF Sound
      <4>2. {<<p, root>>} # {}
        OBVIOUS
      <4>3. Reports(target, {<<p, root>>}) # {}
        BY <4>1, <4>2, ReportsAre
      <4> QED BY <1>9, <4>3
    <3>2. \A q \in Target(p, root) : Sound(q) => q \in Met
      BY <1>3, <2>4
    <3>3. loading' = Skipped(loading)
      BY <1>9, <2>4
    <3> QED BY <1>1, <2>2, <3>1, <3>2, <3>3, SkippingKeeps
  <2> QED BY <2>3, <2>4
<1>10. CASE ~(Len(loading) > MAX_IMPORT_DEPTH) /\ named # {}
  <2> HIDE DEF refused
  <2>1. PICK target \in named :
          IF BeingLoaded(target) THEN refused("cycle")
          ELSE IF Loaded(target)
          THEN loading' = Bound(loading, root, IndexOf(target)) /\ UNCHANGED diagnostics
          ELSE /\ diagnostics' = diagnostics \cup Reports(target, {<<p, root>>})
               /\ loading' = IF Sound(target) THEN Append(loading, Frame(target)) ELSE Skipped(loading)
    BY <1>1, <1>10
  <2> QED BY <1>7, <1>8, <1>9, <1>10, <2>1
<1> QED BY <1>5, <1>6, <1>10

\* A sequence of one element.
LEMMA OneElement ==
  ASSUME NEW S, NEW x \in S, NEW seq, seq = <<x>>
  PROVE  seq \in Seq(S) /\ Len(seq) = 1 /\ DOMAIN seq = {1} /\ seq[1] = x /\ seq # <<>>
OBVIOUS

\* The entry come to.
LEMMA LoadEntryKeeps ==
  ASSUME LoadInv, LoadEntry
  PROVE  LoadInv'
<1> SUFFICES ASSUME NEW p, p = main_path PROVE LoadInv'
  OBVIOUS
<1>1. /\ loading = <<>> /\ entry = 0 /\ UNCHANGED files
      /\ diagnostics' = diagnostics \cup Reports(p, {})
      /\ IF Sound(p)
         THEN loading' = <<Frame(p)>> /\ UNCHANGED <<modules, entry>>
         ELSE modules' = <<Module(p, <<>>, NoImports)>> /\ entry' = 1 /\ UNCHANGED loading
  BY DEF LoadEntry, main_path
<1>2. LoadTypeOK /\ FilesOK /\ modules = <<>> /\ diagnostics = {}
  BY <1>1 DEF LoadInv, LoadTypeOK, EntryOK
<1>3. /\ Paths' = Paths /\ main_path' = p /\ Reach(main_path)' = Reach(main_path)
      /\ \A q : /\ Source(q)' = Source(q) /\ (Readable(q)' <=> Readable(q))
                /\ (Sound(q)' <=> Sound(q)) /\ \A i : Target(q, i)' = Target(q, i)
      /\ (TooLong' <=> TooLong) /\ (Flawed' <=> Flawed)
  BY <1>1, FilesStay, TargetsStay, ReachStays
<1>4. FilesOK' /\ Frames' = Frames /\ Mods' = Mods
  BY <1>1, <1>2, <1>3, FilesStay DEF Frames, Mods, ItemLists
<1>5. p \in Paths /\ p \in Reach(main_path)
  BY ReachIsClosed DEF Paths
<1>6. /\ ~Cut' /\ ((\E d \in diagnostics' : d[1] # "too deep") => Flawed)
      /\ Readable(p) /\ ~Source(p).parses => diagnostics' # {}
  <2>1. diagnostics' = Reports(p, {})
    BY <1>1, <1>2
  <2>2. ASSUME Reports(p, {}) # {} PROVE Flawed
    <3>1. Readable(p) /\ ~Source(p).parses
      BY <2>2, ReportsAre
    <3> QED BY <1>5, <3>1 DEF Flawed
  <2>3. \A d \in Reports(p, {}) : d[1] # "too deep"
    BY ReportsAre
  <2>4. ~Cut'
    BY <2>1, <2>3 DEF Cut
  <2>5. Readable(p) /\ ~Source(p).parses => Reports(p, {}) # {}
    BY ReportsAre
  <2> QED BY <2>1, <2>2, <2>4, <2>5
<1>7. CASE Sound(p)
  <2> SUFFICES ASSUME NEW frame, frame = Frame(p), NEW todo, todo = frame.todo, NEW f, f = frame.imports
               PROVE  LoadInv'
    BY Zenon
  <2>1. frame \in Frames /\ frame.path = p /\ todo = Items(p) /\ f = NoImports
    BY <1>2, <1>5, <1>7, FrameIs
  <2>2. loading' = <<frame>>
    BY <1>1, <1>7
  <2>3. /\ loading' \in Seq(Frames) /\ Len(loading') = 1 /\ DOMAIN loading' = {1}
        /\ loading'[1] = frame /\ loading' # <<>>
    BY <2>1, <2>2, OneElement
  <2>4. modules' = <<>> /\ entry' = 0 /\ DOMAIN modules' = {}
    BY <1>1, <1>2, <1>7
  <2>5. LoadTypeOK'
    BY <1>4, <2>3, <2>4 DEF LoadTypeOK
  <2>6. Explored(p, todo, f)'
    BY <1>1, <2>1, ExploredNone
  <2>7. StackOK'
    <3>1. Len(loading') =< MAX_IMPORT_DEPTH + 1 /\ 1 .. Len(loading') - 1 = {}
      BY <2>3, LoaderAssumption
    <3>2. loading'[1].path = p /\ loading'[1].todo = todo /\ loading'[1].imports = f
      BY <2>1, <2>3
    <3>3. /\ Sound(loading[1].path)' /\ loading'[1].path \in Reach(main_path)'
          /\ Explored(loading[1].path, loading[1].todo, loading[1].imports)'
      BY <1>3, <1>5, <1>7, <2>6, <3>2
    <3> QED BY <1>3, <2>3, <2>4, <3>1, <3>2, <3>3 DEF StackOK
  <2>8. NoneTwice' /\ ModulesOK'
    BY <2>3, <2>4 DEF NoneTwice, ModulesOK
  <2>9. EntryOK'
    BY <2>3, <2>4 DEF EntryOK
  <2>10. Met' = {p}
    <3>1. loading'[1].path = p
      BY <2>1, <2>3
    <3>2. {loading'[k].path : k \in {1}} = {p}
      BY <3>1
    <3> QED BY <2>3, <2>4, <3>2 DEF Met
  <2>11. ReportsOK'
    BY <1>3, <1>6, <2>10 DEF ReportsOK
  <2> QED BY <2>5, <2>7, <2>8, <2>9, <2>11 DEF LoadInv
<1>8. CASE ~Sound(p)
  <2> SUFFICES ASSUME NEW m, m = Module(p, <<>>, NoImports) PROVE LoadInv'
    BY Zenon
  <2>1. m.path = p /\ m.items = <<>> /\ m.imports = NoImports /\ m \in Mods
    <3>1. m = [path |-> p, items |-> <<>>, imports |-> NoImports]
      BY DEF Module
    <3>2. NoImports \in [{} -> Nat]
      BY DEF NoImports
    <3>3. NoImports \in Edges /\ <<>> \in ItemLists
      BY <3>2 DEF Edges, ItemLists
    <3> QED BY <1>5, <3>1, <3>3 DEF Mods
  <2>2. modules' = <<m>> /\ entry' = 1 /\ loading' = <<>> /\ DOMAIN loading' = {}
    BY <1>1, <1>8
  <2>3. modules' \in Seq(Mods) /\ Len(modules') = 1 /\ DOMAIN modules' = {1} /\ modules'[1] = m
    BY <2>1, <2>2, OneElement
  <2>4. LoadTypeOK'
    BY <1>4, <2>2, <2>3 DEF LoadTypeOK
  <2>5. StackOK'
    <3>1. Len(loading') =< MAX_IMPORT_DEPTH + 1 /\ 1 .. Len(loading') - 1 = {}
      BY <2>2, LoaderAssumption
    <3> QED BY <2>2, <3>1 DEF StackOK
  <2>6. NoneTwice'
    BY <2>2, <2>3 DEF NoneTwice
  <2>7. ModulesOK'
    <3>1. DOMAIN NoImports = {}
      BY DEF NoImports
    <3>2. LET x == modules'[1]
          IN  /\ x.path \in Reach(main_path)'
              /\ \A r \in DOMAIN x.imports : x.imports[r] < 1
              /\ ~Sound(modules[1].path)' /\ x.path = main_path' /\ x.imports = NoImports
      BY <1>3, <1>5, <1>8, <2>1, <2>3, <3>1
    <3> QED BY <2>3, <3>2 DEF ModulesOK
  <2>8. EntryOK'
    BY <1>3, <2>1, <2>2, <2>3 DEF EntryOK
  <2>9. Met' = {p}
    <3>1. modules'[1].path = p
      BY <2>1, <2>3
    <3>2. {modules'[k].path : k \in {1}} = {p}
      BY <3>1
    <3> QED BY <2>2, <2>3, <3>2 DEF Met
  <2>10. ReportsOK'
    BY <1>3, <1>6, <2>9 DEF ReportsOK
  <2> QED BY <2>4, <2>5, <2>6, <2>7, <2>8, <2>10 DEF LoadInv
<1> QED BY <1>7, <1>8

\* A sequence with one more element.
LEMMA OneMore ==
  ASSUME NEW S, NEW seq \in Seq(S), NEW x \in S, NEW more, more = Append(seq, x), NEW ix, ix = Len(seq) + 1
  PROVE  /\ more \in Seq(S) /\ Len(more) = ix /\ ix \in Nat /\ ix # 0
         /\ DOMAIN more = 1 .. ix /\ DOMAIN seq = 1 .. ix - 1 /\ more[ix] = x
         /\ \A i \in 1 .. ix : i = ix \/ (i # ix /\ i < ix /\ i \in 1 .. ix - 1 /\ more[i] = seq[i])
         /\ \A i \in 1 .. ix - 1 : i \in 1 .. ix
<1>1. /\ more \in Seq(S) /\ Len(more) = Len(seq) + 1
      /\ \A i \in 1 .. Len(seq) : more[i] = seq[i]
      /\ more[Len(seq) + 1] = x
  BY AppendProperties
<1>2. Len(seq) \in Nat /\ DOMAIN seq = 1 .. Len(seq) /\ DOMAIN more = 1 .. Len(more)
  BY <1>1, LenProperties
<1>3. \A n \in Nat : /\ n + 1 \in Nat /\ n + 1 # 0 /\ n + 1 - 1 = n
                     /\ \A i \in 1 .. n + 1 : i = n + 1 \/ (i # n + 1 /\ i < n + 1 /\ i \in 1 .. n)
                     /\ \A i \in 1 .. n : i \in 1 .. n + 1
  OBVIOUS
<1> QED BY <1>1, <1>2, <1>3

\* A file loaded is a module after all the others, of the same path.
Finished(path, f) ==
  /\ loading # <<>> /\ loading[Len(loading)].path = path
  /\ loading[Len(loading)].todo = {} /\ loading[Len(loading)].imports = f
  /\ modules' = Append(modules, Module(path, Source(path).items, f))
  /\ UNCHANGED <<files, diagnostics>>

\* The file that finished is the last module, the others stay, and it is new.
LEMMA FinishedIs ==
  ASSUME LoadInv, NEW path, NEW f, Finished(path, f), NEW ix, ix = Len(modules) + 1
  PROVE  /\ modules' \in Seq(Mods) /\ Len(modules') = ix /\ ix \in Nat /\ ix # 0
         /\ DOMAIN modules' = 1 .. ix /\ DOMAIN modules = 1 .. ix - 1
         /\ modules'[ix].path = path /\ modules'[ix].imports = f /\ modules'[ix].items = Source(path).items
         /\ \A i \in 1 .. ix : i = ix \/ (i # ix /\ i < ix /\ i \in 1 .. ix - 1 /\ modules'[i] = modules[i])
         /\ \A i \in 1 .. ix - 1 : i \in 1 .. ix
         /\ Sound(path) /\ path \in Reach(main_path) /\ Explored(path, {}, f)
         /\ \A i \in DOMAIN modules : modules[i].path # path
<1> DEFINE m == Module(path, Source(path).items, f)
<1>1. LoadTypeOK /\ StackOK /\ NoneTwice
  BY DEF LoadInv
<1>2. loading \in Seq(Frames) /\ modules \in Seq(Mods) /\ loading # <<>>
  BY <1>1 DEF LoadTypeOK, Finished
<1>3. Len(loading) \in DOMAIN loading
  BY <1>2, TopReplaced
<1>4. m.path = path /\ m.imports = f /\ m.items = Source(path).items /\ m \in Mods
  <2>1. m = [path |-> path, items |-> Source(path).items, imports |-> f]
    BY DEF Module
  <2>2. path \in Paths /\ f \in Edges
    BY <1>1, <1>3, Elements DEF Finished
  <2>3. Source(path).items \in ItemLists
    BY <2>2 DEF ItemLists
  <2> HIDE DEF m
  <2> QED BY <2>1, <2>2, <2>3 DEF Mods
<1> HIDE DEF m
<1>5. modules' = Append(modules, m)
  BY DEF Finished, m
<1>6. /\ modules' \in Seq(Mods) /\ Len(modules') = ix /\ ix \in Nat /\ ix # 0
      /\ DOMAIN modules' = 1 .. ix /\ DOMAIN modules = 1 .. ix - 1 /\ modules'[ix] = m
      /\ \A i \in 1 .. ix : i = ix \/ (i # ix /\ i < ix /\ i \in 1 .. ix - 1 /\ modules'[i] = modules[i])
      /\ \A i \in 1 .. ix - 1 : i \in 1 .. ix
  BY <1>2, <1>4, <1>5, OneMore
<1>7. Sound(path) /\ path \in Reach(main_path) /\ Explored(path, {}, f)
  BY <1>1, <1>3 DEF StackOK, Finished
<1>8. \A i \in DOMAIN modules : modules[i].path # path
  BY <1>1, <1>3 DEF NoneTwice, Finished
<1> QED BY <1>4, <1>6, <1>7, <1>8

\* A finished file leaves the modules explored and the reports right.
LEMMA FinishedKeeps ==
  ASSUME LoadInv, NEW path, NEW f, Finished(path, f), Met' = Met
  PROVE  /\ ModulesOK' /\ ReportsOK'
         /\ \A p, todo, g : Explored(p, todo, g) => Explored(p, todo, g)'
<1> SUFFICES ASSUME NEW ix, ix = Len(modules) + 1
             PROVE  /\ ModulesOK' /\ ReportsOK'
                    /\ \A p, todo, g : Explored(p, todo, g) => Explored(p, todo, g)'
  OBVIOUS
<1>0. UNCHANGED files /\ diagnostics' = diagnostics
  BY DEF Finished
<1>1. /\ Paths' = Paths /\ main_path' = main_path /\ Reach(main_path)' = Reach(main_path)
      /\ \A q : /\ Source(q)' = Source(q) /\ (Readable(q)' <=> Readable(q))
                /\ (Sound(q)' <=> Sound(q)) /\ \A i : Target(q, i)' = Target(q, i)
      /\ (TooLong' <=> TooLong) /\ (Flawed' <=> Flawed)
  BY <1>0, FilesStay, TargetsStay, ReachStays
<1>2. /\ DOMAIN modules' = 1 .. ix /\ DOMAIN modules = 1 .. ix - 1
      /\ modules'[ix].path = path /\ modules'[ix].imports = f /\ modules'[ix].items = Source(path).items
      /\ \A i \in 1 .. ix : i = ix \/ (i # ix /\ i < ix /\ i \in 1 .. ix - 1 /\ modules'[i] = modules[i])
      /\ \A i \in 1 .. ix - 1 : i \in 1 .. ix
      /\ Sound(path) /\ path \in Reach(main_path) /\ Explored(path, {}, f)
  BY FinishedIs
<1>3. \A i \in DOMAIN modules : i \in DOMAIN modules' /\ modules'[i].path = modules[i].path
  BY <1>2
<1>4. ASSUME NEW p, NEW todo, NEW g, Explored(p, todo, g) PROVE Explored(p, todo, g)'
  BY <1>0, <1>3, <1>4, ExploredStays
<1>5. ModulesOK'
  <2> SUFFICES ASSUME NEW i \in 1 .. ix, NEW m, m = modules'[i], NEW p, p = m.path, NEW g, g = m.imports
               PROVE  /\ p \in Reach(main_path)
                      /\ \A r \in DOMAIN g : g[r] < i
                      /\ IF Sound(p)
                         THEN m.items = Source(p).items /\ Explored(p, {}, g)'
                         ELSE p = main_path /\ g = NoImports
    BY <1>1, <1>2 DEF ModulesOK
  <2>1. CASE i = ix
    <3>1. p = path /\ g = f
      BY <1>2, <2>1
    <3>2. \A r \in DOMAIN f : f[r] \in 1 .. ix - 1
      BY <1>2 DEF Explored
    <3>3. \A r \in DOMAIN f : f[r] < ix
      <4>1. ix \in Nat
        BY FinishedIs
      <4> QED BY <3>2, <4>1
    <3> QED BY <1>2, <1>4, <2>1, <3>1, <3>3
  <2>2. CASE i # ix
    <3>1. i \in DOMAIN modules /\ m = modules[i]
      BY <1>2, <2>2
    <3>2. /\ p \in Reach(main_path)
          /\ \A r \in DOMAIN g : g[r] < i
          /\ IF Sound(p)
             THEN m.items = Source(p).items /\ Explored(p, {}, g)
             ELSE p = main_path /\ g = NoImports
      BY <3>1 DEF LoadInv, ModulesOK
    <3> QED BY <1>4, <3>2
  <2> QED BY <2>1, <2>2
<1>6. ReportsOK'
  <2>1. Cut' <=> Cut
    BY <1>0 DEF Cut
  <2>2. ReportsOK
    BY DEF LoadInv
  <2> QED BY <1>0, <1>1, <2>1, <2>2 DEF ReportsOK
<1> QED BY <1>4, <1>5, <1>6

\* The entry finished: the load is over.
LEMMA LastFinishedKeeps ==
  ASSUME LoadInv, NEW path, NEW f, Finished(path, f), Len(loading) = 1,
         loading' = <<>>, entry' = Len(modules) + 1
  PROVE  LoadInv'
<1> SUFFICES ASSUME NEW ix, ix = Len(modules) + 1 PROVE LoadInv'
  OBVIOUS
<1>0. UNCHANGED files /\ diagnostics' = diagnostics /\ LoadTypeOK /\ StackOK /\ NoneTwice
  BY DEF Finished, LoadInv
<1>1. Paths' = Paths /\ main_path' = main_path /\ (FilesOK => FilesOK') /\ \A q : Source(q)' = Source(q)
  BY <1>0, FilesStay
<1>2. /\ modules' \in Seq(Mods) /\ Len(modules') = ix /\ ix \in Nat
      /\ DOMAIN modules' = 1 .. ix /\ DOMAIN modules = 1 .. ix - 1 /\ modules'[ix].path = path
      /\ \A i \in 1 .. ix : i = ix \/ (i # ix /\ i < ix /\ i \in 1 .. ix - 1 /\ modules'[i] = modules[i])
      /\ \A i \in DOMAIN modules : modules[i].path # path
  BY FinishedIs
<1>3. \A i \in 1 .. ix - 1 : i \in 1 .. ix /\ modules'[i] = modules[i]
  <2>1. ix # 0 /\ \A i \in 1 .. ix - 1 : i \in 1 .. ix /\ i # ix
    BY <1>2
  <2> QED BY <1>2, <2>1
<1>4. ix \in 1 .. ix
  <2>1. ix # 0
    BY FinishedIs
  <2> QED BY <1>2, <2>1
<1>5. DOMAIN loading = {1} /\ loading[1].path = path /\ path = main_path
  <2>1. DOMAIN loading = 1 .. 1
    BY <1>0, Elements
  <2> QED BY <1>0, <2>1 DEF StackOK, Finished
<1>6. DOMAIN loading' = {} /\ Len(loading') = 0 /\ loading' = <<>>
  OBVIOUS
<1>7. LoadTypeOK'
  <2>1. Frames' = Frames /\ Mods' = Mods
    BY <1>1 DEF Frames, Mods, ItemLists
  <2>2. FilesOK'
    BY <1>0, <1>1 DEF LoadTypeOK
  <2>3. loading' \in Seq(Frames) /\ entry' \in Nat
    BY <1>2
  <2> QED BY <1>2, <2>1, <2>2, <2>3 DEF LoadTypeOK
<1>8. StackOK'
  <2>1. Len(loading') =< MAX_IMPORT_DEPTH + 1 /\ 1 .. Len(loading') - 1 = {}
    BY <1>6, LoaderAssumption
  <2> QED BY <1>6, <2>1 DEF StackOK
<1>9. NoneTwice'
  <2>1. ASSUME NEW i \in 1 .. ix, NEW j \in 1 .. ix, modules'[i].path = modules'[j].path PROVE i = j
    <3>1. CASE i \in 1 .. ix - 1 /\ j \in 1 .. ix - 1
      <4>1. modules[i].path = modules[j].path
        BY <1>3, <2>1, <3>1
      <4> QED BY <1>0, <1>2, <3>1, <4>1 DEF NoneTwice
    <3>2. CASE ~(i \in 1 .. ix - 1 /\ j \in 1 .. ix - 1)
      BY <1>2, <1>3, <2>1, <3>2
    <3> QED BY <3>1, <3>2
  <2> QED BY <1>2, <1>6, <2>1 DEF NoneTwice
<1>10. EntryOK'
  <2>1. entry' = ix /\ entry' # 0
    BY <1>2
  <2> QED BY <1>1, <1>2, <1>5, <1>6, <2>1 DEF EntryOK
<1>11. Met' = Met
  <2>1. {modules'[i].path : i \in 1 .. ix} = {modules[i].path : i \in 1 .. ix - 1} \cup {path}
    BY <1>2, <1>3, <1>4
  <2>2. {loading[k].path : k \in DOMAIN loading} = {path}
    BY <1>5
  <2> QED BY <1>2, <1>6, <2>1, <2>2 DEF Met
<1>12. ModulesOK' /\ ReportsOK'
  BY <1>11, FinishedKeeps
<1> QED BY <1>7, <1>8, <1>9, <1>10, <1>12 DEF LoadInv

\* The file that imports a finished one goes on: at is its place, p its path, todo
\* and h the imports it had to follow and those it had followed.
GoesOn(at, p, todo, h) ==
  /\ loading # <<>> /\ at = Len(loading) - 1 /\ at # 0
  /\ p = loading[at].path /\ todo = loading[at].todo /\ h = loading[at].imports
  /\ loading' = Bound(Front(loading), First(todo), Len(modules) + 1)
  /\ UNCHANGED entry

\* The importer of a finished file is innermost, with its import bound to the module.
LEMMA GoesOnIs ==
  ASSUME LoadTypeOK, StackOK, NEW at, NEW p, NEW todo, NEW h, GoesOn(at, p, todo, h),
         NEW root, root = First(todo), NEW ix, ix = Len(modules) + 1, NEW g, g = AlsoBound(h, root, ix)
  PROVE  /\ loading' \in Seq(Frames) /\ Len(loading') = at /\ at \in Nat
         /\ DOMAIN loading' = 1 .. at /\ DOMAIN loading = 1 .. at + 1 /\ Len(loading) = at + 1
         /\ at \in 1 .. at /\ 1 \in 1 .. at /\ loading' # <<>>
         /\ \A k \in 1 .. at : k \in 1 .. at + 1 /\ k # at + 1 /\ k + 1 \in 1 .. at + 1
         /\ \A k \in 1 .. at : k = at \/ (k # at /\ k \in 1 .. at - 1 /\ loading'[k] = loading[k])
         /\ \A k \in 1 .. at - 1 : k \in 1 .. at /\ k # at /\ k + 1 \in 1 .. at
         /\ \A k \in 1 .. at : loading'[k].path = loading[k].path
         /\ loading'[at].path = p /\ loading'[at].todo = todo \ {root} /\ loading'[at].imports = g
         /\ todo # {} /\ Target(p, root) = {loading[Len(loading)].path}
<1> SUFFICES ASSUME NEW left, left = Front(loading) PROVE
       /\ loading' \in Seq(Frames) /\ Len(loading') = at /\ at \in Nat
       /\ DOMAIN loading' = 1 .. at /\ DOMAIN loading = 1 .. at + 1 /\ Len(loading) = at + 1
       /\ at \in 1 .. at /\ 1 \in 1 .. at /\ loading' # <<>>
       /\ \A k \in 1 .. at : k \in 1 .. at + 1 /\ k # at + 1 /\ k + 1 \in 1 .. at + 1
       /\ \A k \in 1 .. at : k = at \/ (k # at /\ k \in 1 .. at - 1 /\ loading'[k] = loading[k])
       /\ \A k \in 1 .. at - 1 : k \in 1 .. at /\ k # at /\ k + 1 \in 1 .. at
       /\ \A k \in 1 .. at : loading'[k].path = loading[k].path
       /\ loading'[at].path = p /\ loading'[at].todo = todo \ {root} /\ loading'[at].imports = g
       /\ todo # {} /\ Target(p, root) = {loading[Len(loading)].path}
  BY Zenon
<1>1. loading \in Seq(Frames) /\ loading # <<>> /\ at # 0 /\ at = Len(loading) - 1
  BY DEF LoadTypeOK, GoesOn
<1>2. Len(loading) \in Nat /\ Len(loading) # 0 /\ DOMAIN loading = 1 .. Len(loading)
  BY <1>1, LenProperties, EmptySeq
<1>3. ASSUME NEW n \in Nat, n # 0, NEW l, l = n - 1, l # 0
      PROVE  /\ l \in Nat /\ n = l + 1 /\ l \in 1 .. l /\ 1 \in 1 .. l
             /\ \A k \in 1 .. l : k \in 1 .. l + 1 /\ k # l + 1 /\ k + 1 \in 1 .. l + 1
             /\ \A k \in 1 .. l : k = l \/ (k # l /\ k \in 1 .. l - 1)
             /\ \A k \in 1 .. l - 1 : k \in 1 .. l /\ k # l /\ k + 1 \in 1 .. l
  BY <1>3
<1>4. /\ at \in Nat /\ Len(loading) = at + 1 /\ at \in 1 .. at /\ 1 \in 1 .. at
      /\ \A k \in 1 .. at : k \in 1 .. at + 1 /\ k # at + 1 /\ k + 1 \in 1 .. at + 1
      /\ \A k \in 1 .. at : k = at \/ (k # at /\ k \in 1 .. at - 1)
      /\ \A k \in 1 .. at - 1 : k \in 1 .. at /\ k # at /\ k + 1 \in 1 .. at
  BY <1>1, <1>2, <1>3
<1>5. left \in Seq(Frames) /\ Len(left) = at /\ \A k \in 1 .. at : left[k] = loading[k]
  BY <1>1, FrontIs
<1>6. left # <<>>
  BY <1>1, <1>5, EmptySeq
<1>7. Last(left) = loading[at]
  BY <1>4, <1>5, <1>6, TopReplaced
<1>8. todo # {} /\ Target(p, root) = {loading[at + 1].path}
  <2>1. at \in 1 .. Len(loading) - 1
    BY <1>1, <1>4
  <2> QED BY <2>1 DEF StackOK, GoesOn
<1>9. root \in Nat
  <2>1. root \in Items(p)
    BY <1>2, <1>4, <1>8, RootIsImport DEF GoesOn
  <2> QED BY <2>1, ItemsAreNumbers DEF LoadTypeOK
<1>10. ix \in Nat
  BY Elements
<1>11. loading' = Bound(left, root, ix) /\ Last(left).path = p /\ Last(left).todo = todo /\ Last(left).imports = h
  BY <1>7 DEF GoesOn
<1>12. /\ loading' \in Seq(Frames) /\ Len(loading') = at
       /\ \A k \in 1 .. at - 1 : loading'[k] = left[k]
       /\ loading'[at].path = p /\ loading'[at].todo = todo \ {root} /\ loading'[at].imports = g
  <2> SUFFICES ASSUME NEW bound, bound = Bound(left, root, ix)
               PROVE  /\ bound \in Seq(Frames) /\ Len(bound) = at
                      /\ \A k \in 1 .. at - 1 : bound[k] = left[k]
                      /\ bound[at].path = p /\ bound[at].todo = todo \ {root} /\ bound[at].imports = g
    BY <1>11
  <2> QED BY <1>5, <1>6, <1>9, <1>10, <1>11, FramesBound
<1>13. DOMAIN loading' = 1 .. at /\ loading' # <<>>
  BY <1>1, <1>12, LenProperties, EmptySeq
<1>14. \A k \in 1 .. at - 1 : loading'[k] = loading[k]
  BY <1>4, <1>5, <1>12
<1>15. p = loading[at].path
  BY DEF GoesOn
<1>16. \A k \in 1 .. at : loading'[k].path = loading[k].path
  BY <1>4, <1>12, <1>14, <1>15
<1> QED BY <1>2, <1>4, <1>8, <1>12, <1>13, <1>14, <1>16

\* Another file finished: the one that imports it goes on.
LEMMA InnerFinishedKeeps ==
  ASSUME LoadInv, NEW path, NEW f, Finished(path, f),
         NEW at, NEW p, NEW todo, NEW h, GoesOn(at, p, todo, h)
  PROVE  LoadInv'
<1> SUFFICES ASSUME NEW ix, ix = Len(modules) + 1, NEW root, root = First(todo),
                    NEW g, g = AlsoBound(h, root, ix)
             PROVE  LoadInv'
  BY Zenon
<1>0. /\ UNCHANGED files /\ diagnostics' = diagnostics /\ entry' = entry /\ LoadTypeOK /\ StackOK /\ NoneTwice
      /\ loading # <<>> /\ loading[Len(loading)].path = path
  BY DEF Finished, GoesOn, LoadInv
<1>1. /\ Paths' = Paths /\ main_path' = main_path /\ Reach(main_path)' = Reach(main_path)
      /\ FilesOK /\ FilesOK'
      /\ \A q : /\ Source(q)' = Source(q) /\ (Sound(q)' <=> Sound(q)) /\ \A i : Target(q, i)' = Target(q, i)
  BY <1>0, FilesStay, TargetsStay, ReachStays DEF LoadTypeOK
<1>2. /\ modules' \in Seq(Mods) /\ ix \in Nat
      /\ DOMAIN modules' = 1 .. ix /\ DOMAIN modules = 1 .. ix - 1 /\ modules'[ix].path = path
      /\ \A i \in 1 .. ix : i = ix \/ (i # ix /\ i \in 1 .. ix - 1 /\ modules'[i] = modules[i])
      /\ \A i \in DOMAIN modules : modules[i].path # path
      /\ ix \in 1 .. ix /\ \A i \in 1 .. ix - 1 : i \in 1 .. ix /\ modules'[i] = modules[i]
  <2>1. /\ modules' \in Seq(Mods) /\ ix \in Nat /\ ix # 0
        /\ DOMAIN modules' = 1 .. ix /\ DOMAIN modules = 1 .. ix - 1 /\ modules'[ix].path = path
        /\ \A i \in 1 .. ix : i = ix \/ (i # ix /\ i \in 1 .. ix - 1 /\ modules'[i] = modules[i])
        /\ \A i \in DOMAIN modules : modules[i].path # path
    BY FinishedIs
  <2>2. ix \in 1 .. ix /\ \A i \in 1 .. ix - 1 : i \in 1 .. ix /\ i # ix
    BY <2>1
  <2> QED BY <2>1, <2>2
<1>3. /\ loading' \in Seq(Frames) /\ Len(loading') = at /\ at \in Nat
      /\ DOMAIN loading' = 1 .. at /\ DOMAIN loading = 1 .. at + 1 /\ Len(loading) = at + 1
      /\ at \in 1 .. at /\ 1 \in 1 .. at /\ loading' # <<>>
      /\ \A k \in 1 .. at : k \in 1 .. at + 1 /\ k # at + 1 /\ k + 1 \in 1 .. at + 1
      /\ \A k \in 1 .. at : k = at \/ (k # at /\ k \in 1 .. at - 1 /\ loading'[k] = loading[k])
      /\ \A k \in 1 .. at - 1 : k \in 1 .. at /\ k # at /\ k + 1 \in 1 .. at
      /\ \A k \in 1 .. at : loading'[k].path = loading[k].path
      /\ loading'[at].path = p /\ loading'[at].todo = todo \ {root} /\ loading'[at].imports = g
      /\ todo # {} /\ Target(p, root) = {loading[Len(loading)].path}
  BY <1>0, GoesOnIs
<1>4. Met' = Met
  <2>1. {modules'[i].path : i \in 1 .. ix} = {modules[i].path : i \in 1 .. ix - 1} \cup {path}
    BY <1>2
  <2>2. 1 .. at + 1 = 1 .. at \cup {at + 1}
    BY <1>3
  <2>3. {loading[k].path : k \in 1 .. at + 1} = {loading'[k].path : k \in 1 .. at} \cup {path}
    <3>1. loading[at + 1].path = path /\ \A k \in 1 .. at : loading'[k].path = loading[k].path
      BY <1>0, <1>3
    <3> QED BY ONLY <2>2, <3>1
  <2> QED BY <1>2, <1>3, <2>1, <2>3 DEF Met
<1>5. /\ ModulesOK' /\ ReportsOK'
      /\ \A q, t, e : Explored(q, t, e) => Explored(q, t, e)'
  BY <1>4, FinishedKeeps
<1>6. LoadTypeOK'
  <2>1. Frames' = Frames /\ Mods' = Mods
    BY <1>1 DEF Frames, Mods, ItemLists
  <2>2. entry \in Nat
    BY <1>0 DEF LoadTypeOK
  <2> QED BY <1>0, <1>1, <1>2, <1>3, <2>1, <2>2 DEF LoadTypeOK
<1>7. Explored(p, todo \ {root}, g)'
  <2>1. at \in DOMAIN loading /\ p = loading[at].path /\ todo = loading[at].todo /\ h = loading[at].imports
    <3>1. p = loading[at].path /\ todo = loading[at].todo /\ h = loading[at].imports
      BY DEF GoesOn
    <3>2. at \in 1 .. at + 1
      BY ONLY <1>3
    <3> QED BY ONLY <1>3, <3>1, <3>2
  <2>2. Explored(p, todo, h)'
    BY <1>0, <1>5, <2>1 DEF StackOK
  <2>3. ix \in DOMAIN modules' /\ Target(p, First(todo)) = {modules'[ix].path}
    BY <1>0, <1>2, <1>3
  <2> QED BY <1>0, <1>1, <1>3, <2>2, <2>3, ExploredBinding
<1>8. ASSUME NEW k \in 1 .. at, NEW frame, frame = loading'[k], NEW q, q = frame.path, NEW t, t = frame.todo,
             NEW e, e = frame.imports
      PROVE  Sound(q) /\ q \in Reach(main_path) /\ Explored(q, t, e)'
  <2>1. k \in DOMAIN loading /\ q = loading[k].path
    BY <1>3, <1>8
  <2>2. Sound(q) /\ q \in Reach(main_path)
    BY <1>0, <2>1 DEF StackOK
  <2>3. CASE k = at
    BY <1>3, <1>7, <1>8, <2>2, <2>3
  <2>4. CASE k # at
    <3>1. frame = loading[k]
      BY <1>3, <1>8, <2>4
    <3> QED BY <1>0, <1>5, <1>8, <2>1, <2>2, <3>1 DEF StackOK
  <2> QED BY <2>3, <2>4
<1>9. StackOK'
  <2>1. loading'[1].path = main_path /\ entry' = 0
    <3>1. loading[1].path = main_path /\ entry = 0
      BY <1>0 DEF StackOK
    <3> QED BY <1>0, <1>3, <3>1
  <2>2. Len(loading') =< MAX_IMPORT_DEPTH + 1
    <3>1. Len(loading) =< MAX_IMPORT_DEPTH + 1
      BY <1>0 DEF StackOK
    <3> QED BY <1>3, <3>1, LoaderAssumption
  <2>3. ASSUME NEW k \in 1 .. at
        PROVE  /\ Sound(loading[k].path)' /\ loading'[k].path \in Reach(main_path)
               /\ Explored(loading[k].path, loading[k].todo, loading[k].imports)'
    BY <1>1, <1>8
  <2>4. ASSUME NEW k \in 1 .. at - 1
        PROVE  /\ loading'[k].todo # {}
               /\ Target(loading[k].path, First(loading[k].todo))' = {loading'[k + 1].path}
    <3>1. k \in 1 .. at /\ k # at /\ k + 1 \in 1 .. at /\ k \in 1 .. Len(loading) - 1
      BY <1>3
    <3>2. loading'[k] = loading[k] /\ loading'[k + 1].path = loading[k + 1].path
      BY <1>3, <3>1
    <3>3. loading[k].todo # {} /\ Target(loading[k].path, First(loading[k].todo)) = {loading[k + 1].path}
      BY <1>0, <3>1 DEF StackOK
    <3> QED BY <1>1, <3>2, <3>3
  <2>5. \A k \in DOMAIN loading' :
          /\ Sound(loading[k].path)' /\ loading'[k].path \in Reach(main_path)'
          /\ Explored(loading[k].path, loading[k].todo, loading[k].imports)'
    BY <1>1, <1>3, <2>3
  <2> QED BY <1>1, <1>3, <2>1, <2>2, <2>4, <2>5 DEF StackOK
<1>10. NoneTwice'
  <2>1. ASSUME NEW i \in 1 .. ix, NEW j \in 1 .. ix, modules'[i].path = modules'[j].path PROVE i = j
    <3>1. CASE i \in 1 .. ix - 1 /\ j \in 1 .. ix - 1
      <4>1. modules[i].path = modules[j].path
        BY <1>2, <2>1, <3>1
      <4> QED BY <1>0, <1>2, <3>1, <4>1 DEF NoneTwice
    <3>2. CASE ~(i \in 1 .. ix - 1 /\ j \in 1 .. ix - 1)
      BY <1>2, <2>1, <3>2
    <3> QED BY <3>1, <3>2
  <2>2. ASSUME NEW k \in 1 .. at, NEW l \in 1 .. at, loading'[k].path = loading'[l].path PROVE k = l
    <3>1. loading[k].path = loading[l].path
      BY <1>3, <2>2
    <3> QED BY <1>0, <1>3, <3>1 DEF NoneTwice
  <2>3. ASSUME NEW i \in 1 .. ix, NEW k \in 1 .. at PROVE modules'[i].path # loading'[k].path
    <3>1. k \in DOMAIN loading /\ at + 1 \in DOMAIN loading /\ k # at + 1 /\ loading'[k].path = loading[k].path
      BY <1>3
    <3>2. CASE i = ix
      <4>1. loading[k].path # path
        BY <1>0, <1>3, <3>1 DEF NoneTwice
      <4> QED BY <1>2, <3>1, <3>2, <4>1
    <3>3. CASE i # ix
      <4>1. i \in DOMAIN modules /\ modules'[i] = modules[i]
        BY <1>2, <3>3
      <4> QED BY <1>0, <3>1, <4>1 DEF NoneTwice
    <3> QED BY <3>2, <3>3
  <2> QED BY <1>2, <1>3, <2>1, <2>2, <2>3 DEF NoneTwice
<1>11. EntryOK'
  <2>1. entry' = 0
    BY <1>0 DEF StackOK
  <2> QED BY <1>3, <2>1 DEF EntryOK
<1> QED BY <1>5, <1>6, <1>9, <1>10, <1>11 DEF LoadInv

\* A file that finishes is the entry, or one whose importer goes on.
LEMMA FinishFileIs ==
  ASSUME LoadInv, FinishFile, NEW path, path = Last(loading).path, NEW f, f = Last(loading).imports
  PROVE  /\ Finished(path, f)
         /\ \/ Len(loading) = 1 /\ loading' = <<>> /\ entry' = Len(modules) + 1
            \/ \E at, p, todo, h : GoesOn(at, p, todo, h)
<1>1. /\ loading # <<>> /\ Last(loading).todo = {} /\ UNCHANGED <<files, diagnostics>>
      /\ modules' = Append(modules, Module(path, Source(path).items, f))
      /\ IF Front(loading) = <<>>
         THEN entry' = Len(modules) + 1 /\ loading' = <<>>
         ELSE loading' = Bound(Front(loading), First(Last(Front(loading)).todo), Len(modules) + 1) /\ UNCHANGED entry
  BY DEF FinishFile
<1>2. loading \in Seq(Frames)
  BY DEF LoadInv, LoadTypeOK
<1>3. Finished(path, f)
  <2>1. loading[Len(loading)] = Last(loading)
    BY <1>1, <1>2, TopReplaced
  <2> QED BY <1>1, <2>1 DEF Finished
<1>4. /\ Front(loading) = <<>> <=> Len(loading) = 1
      /\ Front(loading) \in Seq(Frames) /\ Len(Front(loading)) = Len(loading) - 1
      /\ \A k \in 1 .. Len(loading) - 1 : Front(loading)[k] = loading[k]
  BY <1>1, <1>2, FrontIs
<1>5. CASE Front(loading) = <<>>
  BY <1>1, <1>3, <1>4, <1>5
<1>6. CASE Front(loading) # <<>>
  <2> SUFFICES ASSUME NEW at, at = Len(loading) - 1, NEW p, p = loading[at].path,
                      NEW todo, todo = loading[at].todo, NEW h, h = loading[at].imports
               PROVE  GoesOn(at, p, todo, h)
    BY <1>3, Zenon
  <2>1. at \in 1 .. at /\ Last(Front(loading)) = Front(loading)[at]
    BY <1>4, <1>6, TopReplaced
  <2>2. Last(Front(loading)) = loading[at]
    BY <1>4, <2>1
  <2>3. at # 0
    <3>1. Len(loading) \in Nat /\ Len(loading) # 1
      BY <1>2, <1>4, <1>6
    <3> QED BY <3>1
  <2> QED BY <1>1, <1>6, <2>2, <2>3 DEF GoesOn
<1> QED BY <1>5, <1>6

\* A file finished keeps the invariant of a load.
LEMMA FinishFileKeeps ==
  ASSUME LoadInv, FinishFile
  PROVE  LoadInv'
<1> SUFFICES ASSUME NEW path, path = Last(loading).path, NEW f, f = Last(loading).imports PROVE LoadInv'
  BY Zenon
<1>1. /\ Finished(path, f)
      /\ \/ Len(loading) = 1 /\ loading' = <<>> /\ entry' = Len(modules) + 1
         \/ \E at, p, todo, h : GoesOn(at, p, todo, h)
  BY FinishFileIs
<1>2. CASE Len(loading) = 1 /\ loading' = <<>> /\ entry' = Len(modules) + 1
  BY <1>1, <1>2, LastFinishedKeeps
<1>3. CASE \E at, p, todo, h : GoesOn(at, p, todo, h)
  BY <1>1, <1>3, InnerFinishedKeeps
<1> QED BY <1>1, <1>2, <1>3

\* The other steps change neither the files nor what was loaded.
LEMMA LoadStays ==
  ASSUME LoadInv, UNCHANGED <<files, load>>
  PROVE  LoadInv'
<1>1. loading' = loading /\ modules' = modules /\ diagnostics' = diagnostics /\ entry' = entry /\ UNCHANGED files
  BY DEF load
<1>2. /\ Paths' = Paths /\ main_path' = main_path /\ \A p : Reach(p)' = Reach(p)
      /\ FilesOK => FilesOK'
      /\ \A q : /\ Source(q)' = Source(q) /\ (Readable(q)' <=> Readable(q)) /\ Items(q)' = Items(q)
                /\ (Sound(q)' <=> Sound(q)) /\ \A i : Target(q, i)' = Target(q, i)
      /\ (TooLong' <=> TooLong) /\ (Flawed' <=> Flawed)
  BY <1>1, FilesStay, TargetsStay, ReachStays
<1>3. Met' = Met /\ (Cut' <=> Cut)
  BY <1>1 DEF Met, Cut
<1>4. \A p, todo, f : Explored(p, todo, f) => Explored(p, todo, f)'
  BY <1>1, <1>3, ExploredStays
<1>5. LoadTypeOK'
  <2>1. Frames' = Frames /\ Mods' = Mods
    BY <1>2 DEF Frames, Mods, ItemLists
  <2> QED BY <1>1, <1>2, <2>1 DEF LoadInv, LoadTypeOK
<1>6. StackOK'
  BY <1>1, <1>2, <1>4 DEF LoadInv, StackOK
<1>7. NoneTwice' /\ EntryOK'
  BY <1>1, <1>2 DEF LoadInv, NoneTwice, EntryOK
<1>8. ModulesOK'
  BY <1>1, <1>3, ModulesStay
<1>9. ReportsOK'
  BY <1>1, <1>2, <1>3 DEF LoadInv, ReportsOK
<1> QED BY <1>5, <1>6, <1>7, <1>8, <1>9 DEF LoadInv

\* Nothing loaded and nothing reported satisfies the invariant.
LEMMA LoadInit ==
  ASSUME LoaderInit
  PROVE  LoadInv
<1>1. FilesOK
  BY DEF LoaderInit, FilesOK
<1>2. /\ loading = <<>> /\ modules = <<>> /\ diagnostics = {} /\ entry = 0
      /\ DOMAIN loading = {} /\ DOMAIN modules = {} /\ Len(loading) = 0
  BY DEF LoaderInit
<1>3. LoadTypeOK
  BY <1>1, <1>2 DEF LoadTypeOK
<1>4. StackOK
  <2>1. Len(loading) =< MAX_IMPORT_DEPTH + 1 /\ 1 .. Len(loading) - 1 = {}
    BY <1>2, LoaderAssumption
  <2> QED BY <1>2, <2>1 DEF StackOK
<1>5. NoneTwice /\ ModulesOK
  BY <1>2 DEF NoneTwice, ModulesOK
<1>6. EntryOK
  BY <1>2 DEF EntryOK
<1>7. ReportsOK
  BY <1>2 DEF ReportsOK, Met, Cut
<1> QED BY <1>3, <1>4, <1>5, <1>6, <1>7 DEF LoadInv

-----------------------------------------------------------------------------
(* What a load leaves.                                                       *)

\* The modules, each with its imports, followed in full if its file could be loaded.
LEMMA LoadedModule ==
  ASSUME LoadInv, NEW i \in DOMAIN modules, NEW p, p = modules[i].path, NEW f, f = modules[i].imports
  PROVE  /\ p \in Reach(main_path) /\ p \in Paths /\ i \in Nat
         /\ \A r \in DOMAIN f : /\ f[r] \in DOMAIN modules /\ f[r] \in Nat /\ f[r] < i
                                /\ Target(p, r) = {modules[f[r]].path}
         /\ Sound(p) \/ p = main_path
         /\ \A r \in Items(p) : /\ r \notin DOMAIN f => diagnostics # {}
                                /\ ~Cut => \A q \in Target(p, r) : Sound(q) => q \in Met
<1>1. LoadTypeOK
  BY DEF LoadInv
<1>2. p \in Paths /\ DOMAIN modules \subseteq Nat
  BY <1>1, Elements
<1>3. /\ p \in Reach(main_path)
      /\ \A r \in DOMAIN f : f[r] < i
      /\ IF Sound(p) THEN Explored(p, {}, f) ELSE p = main_path /\ f = NoImports
  BY DEF LoadInv, ModulesOK
<1>4. CASE Sound(p)
  <2>1. Explored(p, {}, f)
    BY <1>3, <1>4
  <2> QED BY <1>2, <1>3, <1>4, <2>1 DEF Explored
<1>5. CASE ~Sound(p)
  <2>1. DOMAIN f = {} /\ Items(p) = {}
    BY <1>3, <1>5 DEF NoImports, Items
  <2> QED BY <1>2, <1>3, <1>5, <2>1
<1> QED BY <1>4, <1>5

\* After a load no file is there twice, and every module comes after those it imports.
LEMMA LoadedInOrder ==
  ASSUME LoadInv, entry # 0
  PROVE  InOrder /\ entry \in DOMAIN modules /\ Met = {modules[i].path : i \in DOMAIN modules}
<1>1. LoadTypeOK /\ entry = Len(modules) /\ modules[entry].path = main_path /\ loading = <<>>
  BY DEF LoadInv, EntryOK
<1>2. \A i, j \in DOMAIN modules : modules[i].path = modules[j].path => i = j
  BY DEF LoadInv, NoneTwice
<1>3. \A i \in DOMAIN modules : \A root \in DOMAIN modules[i].imports :
        LET target == modules[i].imports[root]
        IN  target < i /\ Target(modules[i].path, root) = {modules[target].path}
  BY LoadedModule
<1>4. entry \in DOMAIN modules
  <2>1. Len(modules) \in Nat /\ DOMAIN modules = 1 .. Len(modules)
    BY <1>1, Elements
  <2> QED BY <1>1, <2>1
<1>5. Met = {modules[i].path : i \in DOMAIN modules}
  <2>1. DOMAIN loading = {}
    BY <1>1
  <2> QED BY <2>1 DEF Met
<1> QED BY <1>1, <1>2, <1>3, <1>4, <1>5 DEF InOrder

\* With nothing reported, every file reached is a module.
LEMMA AllAreModules ==
  ASSUME LoadInv, entry # 0, diagnostics = {}
  PROVE  \A p \in Reach(main_path) : \E i \in DOMAIN modules : p = modules[i].path
<1> DEFINE P == {modules[i].path : i \in DOMAIN modules}
<1>1. main_path \in P
  BY LoadedInOrder DEF InOrder
<1>2. P \in SUBSET Paths
  BY LoadedModule
<1>3. ASSUME NEW q \in P, NEW t \in Targets(q) PROVE t \in P
  <2>1. PICK i \in DOMAIN modules : q = modules[i].path
    BY <1>3
  <2>2. PICK r \in Items(q) : t \in Target(q, r)
    BY <1>3 DEF Targets
  <2> SUFFICES ASSUME NEW f, f = modules[i].imports PROVE t \in P
    OBVIOUS
  <2>3. r \in DOMAIN f
    BY <2>1, <2>2, LoadedModule
  <2>4. f[r] \in DOMAIN modules /\ Target(q, r) = {modules[f[r]].path}
    BY <2>1, <2>3, LoadedModule
  <2> QED BY <2>2, <2>4
<1> HIDE DEF P
<1>4. Reach(main_path) \subseteq P
  BY <1>1, <1>2, <1>3, ReachIsLeast
<1> QED BY <1>4 DEF P

\* What a module imports is reached by no later module's file.
LEMMA ReachedBefore ==
  ASSUME LoadInv, entry # 0, diagnostics = {}, NEW t \in DOMAIN modules
  PROVE  \A p \in Reach(modules[t].path) : \E i \in DOMAIN modules : i =< t /\ p = modules[i].path
<1> DEFINE P == {modules[i].path : i \in {i \in DOMAIN modules : i =< t}}
<1>1. DOMAIN modules \subseteq Nat /\ t \in Nat
  BY LoadedModule
<1>2. modules[t].path \in P
  BY <1>1
<1>3. P \in SUBSET Paths
  BY LoadedModule
<1>4. ASSUME NEW q \in P, NEW s \in Targets(q) PROVE s \in P
  <2>1. PICK i \in DOMAIN modules : i =< t /\ q = modules[i].path
    BY <1>4
  <2>2. PICK r \in Items(q) : s \in Target(q, r)
    BY <1>4 DEF Targets
  <2> SUFFICES ASSUME NEW f, f = modules[i].imports PROVE s \in P
    OBVIOUS
  <2>3. r \in DOMAIN f
    BY <2>1, <2>2, LoadedModule
  <2>4. f[r] \in DOMAIN modules /\ f[r] < i /\ Target(q, r) = {modules[f[r]].path}
    BY <2>1, <2>3, LoadedModule
  <2>5. f[r] =< t
    <3>1. f[r] \in Nat /\ i \in Nat
      BY <1>1, <2>4
    <3> QED BY <1>1, <2>1, <2>4, <3>1
  <2> QED BY <2>2, <2>4, <2>5
<1> SUFFICES ASSUME NEW start, start = modules[t].path
             PROVE  \A p \in Reach(start) : \E i \in DOMAIN modules : i =< t /\ p = modules[i].path
  OBVIOUS
<1>5. start \in P
  BY <1>2
<1> HIDE DEF P
<1>6. Reach(start) \subseteq P
  BY <1>3, <1>4, <1>5, ReachIsLeast
<1> QED BY <1>6 DEF P

\* After a load in which no chain was cut the modules are the sound files reached.
LEMMA LoadedAll ==
  ASSUME LoadInv, entry # 0
  PROVE  AllReached
<1> DEFINE P == {modules[i].path : i \in DOMAIN modules}
<1>1. (Cut => TooLong) /\ ((\E d \in diagnostics : d[1] # "too deep") => Flawed)
  BY DEF LoadInv, ReportsOK
<1>2. Met = P /\ main_path \in P
  BY LoadedInOrder DEF InOrder
<1>3. ASSUME ~Cut PROVE P = {p \in Reach(main_path) : Sound(p)} \cup {main_path}
  <2> DEFINE S == P \cup {p \in Paths : ~Sound(p)}
  <2>1. S \in SUBSET Paths
    BY LoadedModule
  <2>2. ASSUME NEW q \in S, NEW t \in Targets(q) PROVE t \in S
    <3>1. PICK r \in Items(q) : t \in Target(q, r)
      BY <2>2 DEF Targets
    <3>2. t \in Paths
      BY <3>1 DEF Target, Paths
    <3>3. CASE q \in P
      <4>1. PICK i \in DOMAIN modules : q = modules[i].path
        BY <3>3
      <4>2. Sound(t) => t \in Met
        BY <1>3, <3>1, <4>1, LoadedModule
      <4> QED BY <1>2, <3>2, <4>2
    <3>4. CASE q \notin P
      <4>1. ~Sound(q)
        BY <2>2, <3>4
      <4> QED BY <3>1, <4>1 DEF Items
    <3> QED BY <3>3, <3>4
  <2>3. Reach(main_path) \subseteq S
    <3>1. main_path \in S
      BY <1>2
    <3> HIDE DEF S
    <3> QED BY <2>1, <2>2, <3>1, ReachIsLeast
  <2>4. \A p \in P : p \in Reach(main_path) /\ (Sound(p) \/ p = main_path)
    BY LoadedModule
  <2> HIDE DEF P
  <2> QED BY <1>2, <2>3, <2>4
<1>4. ASSUME ~Cut, ~Flawed PROVE diagnostics = {}
  BY <1>1, <1>4 DEF Cut
<1>5. ASSUME diagnostics = {} PROVE ~Flawed
  <2> SUFFICES ASSUME Flawed PROVE FALSE
    OBVIOUS
  <2>1. PICK p \in Reach(main_path) :
          \/ Readable(p) /\ ~Source(p).parses
          \/ p # main_path /\ ~Readable(p)
          \/ \E i \in Items(p) : Target(p, i) = {}
          \/ \E q \in Targets(p) : p \in Reach(q)
    BY DEF Flawed
  <2>2. PICK i \in DOMAIN modules : p = modules[i].path
    BY <1>5, AllAreModules
  <2> SUFFICES ASSUME NEW f, f = modules[i].imports PROVE FALSE
    OBVIOUS
  <2>3. /\ Sound(p) \/ p = main_path
        /\ \A r \in Items(p) : r \in DOMAIN f
        /\ \A r \in DOMAIN f : f[r] \in DOMAIN modules /\ f[r] < i /\ Target(p, r) = {modules[f[r]].path}
    BY <1>5, <2>2, LoadedModule
  <2>4. CASE Readable(p) /\ ~Source(p).parses
    <3>1. p \in Met
      BY <1>2, <2>2
    <3> QED BY <1>5, <2>4, <3>1 DEF LoadInv, ReportsOK
  <2>5. CASE p # main_path /\ ~Readable(p)
    BY <2>3, <2>5 DEF Sound
  <2>6. CASE \E r \in Items(p) : Target(p, r) = {}
    BY <2>3, <2>6
  <2>7. CASE \E q \in Targets(p) : p \in Reach(q)
    <3>1. PICK q \in Targets(p) : p \in Reach(q)
      BY <2>7
    <3>2. PICK r \in Items(p) : q \in Target(p, r)
      BY <3>1 DEF Targets
    <3>3. f[r] \in DOMAIN modules /\ f[r] < i /\ q = modules[f[r]].path
      BY <2>3, <3>2
    <3>4. PICK j \in DOMAIN modules : j =< f[r] /\ p = modules[j].path
      BY <1>5, <3>1, <3>3, ReachedBefore
    <3>5. j = i
      BY <2>2, <3>4 DEF LoadInv, NoneTwice
    <3>6. f[r] \in Nat /\ i \in Nat
      BY <3>3, LoadedModule
    <3> QED BY <3>3, <3>4, <3>5, <3>6
  <2> QED BY <2>1, <2>4, <2>5, <2>6, <2>7
<1> QED BY <1>1, <1>3, <1>4, <1>5 DEF AllReached

-----------------------------------------------------------------------------
(* The order of the modules.                                                 *)

\* c is the last of the modules there were, l, and those found since, f.
Latest(c, l, f) ==
  /\ c = l \/ \E r \in DOMAIN f : c = f[r]
  /\ l =< c /\ \A r \in DOMAIN f : f[r] =< c
Before(f, r) == [s \in {s \in DOMAIN f : s < r} |-> f[s]]

\* An import is bound to a module there was already, or to the one its file
\* became, begun when the modules before it were there: lo has, per module, how
\* many there were when it was begun.
InTurn(lo, l, f) ==
  \A r \in DOMAIN f : \A c \in 0 .. f[r] - 1 : Latest(c, l, Before(f, r)) => lo[f[r]] = c

\* The modules are numbered as a walk through them finishes with them; li has,
\* per file being loaded, how many modules there were when it was begun.
Numbered(lo, li) ==
  /\ \A m \in DOMAIN modules :
       Latest(m - 1, lo[m], modules[m].imports) /\ InTurn(lo, lo[m], modules[m].imports)
  /\ \A k \in DOMAIN loading :
       /\ InTurn(lo, li[k], loading[k].imports)
       /\ Latest(IF k = Len(loading) THEN Len(modules) ELSE li[k + 1], li[k], loading[k].imports)
       /\ k = 1 => li[k] = 0
  /\ entry # 0 => lo[entry] = 0

\* There is one latest.
LEMMA LatestIsOne ==
  ASSUME NEW l \in Nat, NEW f \in Edges, NEW c, NEW d, Latest(c, l, f), Latest(d, l, f)
  PROVE  c = d
<1>1. \A r \in DOMAIN f : f[r] \in Nat
  BY DEF Edges
<1>2. c \in Nat /\ d \in Nat
  BY <1>1 DEF Latest
<1>3. c =< d /\ d =< c
  BY DEF Latest
<1> QED BY <1>2, <1>3

\* An import more is bound to a module there was, or to one begun since.
LEMMA LatestMore ==
  ASSUME NEW l \in Nat, NEW f \in Edges, NEW c \in Nat, Latest(c, l, f),
         NEW root, root \notin DOMAIN f, NEW ix \in Nat, NEW g, g = AlsoBound(f, root, ix)
  PROVE  (ix =< c => Latest(c, l, g)) /\ (c =< ix => Latest(ix, l, g))
<1>1. /\ DOMAIN g = DOMAIN f \cup {root} /\ g[root] = ix
      /\ \A r \in DOMAIN f : g[r] = f[r] /\ f[r] \in Nat
  <2>1. \A r \in DOMAIN f : f[r] \in Nat /\ r # root
    <3>1. PICK D \in SUBSET Nat : f \in [D -> Nat]
      BY ONLY f \in Edges DEF Edges
    <3> QED BY ONLY root \notin DOMAIN f, <3>1
  <2>2. g = [r \in DOMAIN f \cup {root} |-> IF r = root THEN ix ELSE f[r]]
    BY DEF AlsoBound
  <2> QED BY ONLY <2>1, <2>2
<1>2. l =< c /\ \A r \in DOMAIN f : f[r] =< c
  BY DEF Latest
<1>3. c = l \/ \E r \in DOMAIN g : c = g[r]
  BY <1>1 DEF Latest
<1>4. ASSUME ix =< c PROVE Latest(c, l, g)
  <2>1. \A r \in DOMAIN g : g[r] =< c
    BY <1>1, <1>2, <1>4
  <2> QED BY <1>2, <1>3, <2>1 DEF Latest
<1>5. ASSUME c =< ix PROVE Latest(ix, l, g)
  <2>1. \A r \in DOMAIN f : f[r] =< ix
    BY <1>1, <1>2, <1>5
  <2>2. l =< ix
    BY <1>2, <1>5
  <2>3. \A r \in DOMAIN g : g[r] =< ix
    BY <1>1, <2>1
  <2> QED BY <1>1, <2>2, <2>3 DEF Latest
<1> QED BY <1>4, <1>5

\* The imports before one that is added are those there were.
LEMMA BeforeMore ==
  ASSUME NEW f \in Edges, NEW root \in Nat, \A r \in DOMAIN f : r < root,
         NEW ix, NEW g, g = AlsoBound(f, root, ix)
  PROVE  Before(g, root) = f /\ \A r \in DOMAIN f : Before(g, r) = Before(f, r)
<1>1. PICK D \in SUBSET Nat : f \in [D -> Nat]
  BY DEF Edges
<1>2. /\ DOMAIN f = D /\ DOMAIN g = D \cup {root} /\ root \notin D
      /\ \A r \in D : g[r] = f[r] /\ r < root
  BY <1>1 DEF AlsoBound
<1>3. {s \in DOMAIN g : s < root} = D
  <2>1. ~(root < root)
    OBVIOUS
  <2> QED BY <1>2, <2>1
<1>4. Before(g, root) = [s \in D |-> f[s]]
  BY <1>2, <1>3 DEF Before
<1>5. ASSUME NEW r \in D PROVE Before(g, r) = Before(f, r)
  <2>1. {s \in DOMAIN g : s < r} = {s \in D : s < r}
    <3>1. ~(root < r)
      BY <1>1, <1>2
    <3> QED BY <1>2, <3>1
  <2> DEFINE B == {s \in D : s < r}
  <2>2. \A s \in B : g[s] = f[s]
    BY <1>2
  <2>3. Before(g, r) = [s \in B |-> g[s]] /\ Before(f, r) = [s \in B |-> f[s]]
    BY <1>2, <2>1 DEF Before
  <2> HIDE DEF B
  <2> QED BY <2>2, <2>3
<1>6. f = [s \in D |-> f[s]]
  BY <1>1
<1> QED BY <1>2, <1>4, <1>5, <1>6

\* Binding one more import, in turn, keeps the imports in turn.
LEMMA InTurnMore ==
  ASSUME NEW lo, NEW l \in Nat, NEW f \in Edges, InTurn(lo, l, f),
         NEW root \in Nat, \A r \in DOMAIN f : r < root,
         NEW ix \in Nat, NEW g, g = AlsoBound(f, root, ix),
         \A c \in 0 .. ix - 1 : Latest(c, l, f) => lo[ix] = c
  PROVE  InTurn(lo, l, g)
<1>1. root \notin DOMAIN f
  BY DEF Edges
<1>2. /\ DOMAIN g = DOMAIN f \cup {root} /\ g[root] = ix
      /\ \A r \in DOMAIN f : g[r] = f[r]
  BY <1>1 DEF AlsoBound
<1>3. Before(g, root) = f /\ \A r \in DOMAIN f : Before(g, r) = Before(f, r)
  BY BeforeMore
<1>4. ASSUME NEW r \in DOMAIN g, NEW c \in 0 .. g[r] - 1, Latest(c, l, Before(g, r))
      PROVE  lo[g[r]] = c
  <2>1. CASE r = root
    BY <1>2, <1>3, <1>4, <2>1
  <2>2. CASE r # root
    BY <1>2, <1>3, <1>4, <2>2 DEF InTurn
  <2> QED BY <2>1, <2>2
<1> QED BY <1>4 DEF InTurn

\* Imports are in turn for any numbers that agree on their modules.
LEMMA InTurnStays ==
  ASSUME NEW lo, NEW new, NEW l, NEW f, InTurn(lo, l, f), \A r \in DOMAIN f : new[f[r]] = lo[f[r]]
  PROVE  InTurn(new, l, f)
BY DEF InTurn

\* Nothing followed yet.
LEMMA NoneInTurn ==
  ASSUME NEW lo, NEW l \in Nat, NEW f, f = NoImports
  PROVE  InTurn(lo, l, f) /\ \A c : Latest(c, l, f) <=> c = l
<1>1. DOMAIN f = {}
  BY DEF NoImports
<1> QED BY <1>1 DEF InTurn, Latest

\* Per module, how many there were when it was begun, and per file being loaded.
Begun(lo, li) == lo \in [DOMAIN modules -> Nat] /\ li \in [DOMAIN loading -> Nat] /\ Numbered(lo, li)

\* What the numbers of modules at the beginnings say of modules and files being loaded.
LEMMA BegunIs ==
  ASSUME LoadInv, NEW lo, NEW li, Begun(lo, li)
  PROVE  /\ Len(modules) \in Nat /\ DOMAIN modules = 1 .. Len(modules)
         /\ Len(loading) \in Nat /\ DOMAIN loading = 1 .. Len(loading)
         /\ \A m \in DOMAIN modules :
              /\ lo[m] \in Nat /\ modules[m].imports \in Edges
              /\ \A r \in DOMAIN modules[m].imports : modules[m].imports[r] \in DOMAIN modules
              /\ Latest(m - 1, lo[m], modules[m].imports) /\ InTurn(lo, lo[m], modules[m].imports)
         /\ \A k \in DOMAIN loading :
              /\ li[k] \in Nat /\ loading[k].imports \in Edges
              /\ \A r \in DOMAIN loading[k].imports :
                   /\ loading[k].imports[r] \in DOMAIN modules
                   /\ loading[k].todo # {} => r < First(loading[k].todo)
              /\ InTurn(lo, li[k], loading[k].imports)
              /\ Latest(IF k = Len(loading) THEN Len(modules) ELSE li[k + 1], li[k], loading[k].imports)
              /\ k = 1 => li[k] = 0
         /\ entry # 0 => lo[entry] = 0
<1>1. LoadTypeOK /\ StackOK
  BY DEF LoadInv
<1>2. /\ Len(modules) \in Nat /\ DOMAIN modules = 1 .. Len(modules)
      /\ Len(loading) \in Nat /\ DOMAIN loading = 1 .. Len(loading)
      /\ \A m \in DOMAIN modules : modules[m].imports \in Edges
      /\ \A k \in DOMAIN loading : loading[k].imports \in Edges
  BY <1>1, Elements
<1>3. ASSUME NEW k \in DOMAIN loading, NEW r \in DOMAIN loading[k].imports
      PROVE  /\ loading[k].imports[r] \in DOMAIN modules
             /\ loading[k].todo # {} => r < First(loading[k].todo)
  <2> SUFFICES ASSUME NEW p, p = loading[k].path, NEW todo, todo = loading[k].todo,
                      NEW f, f = loading[k].imports
               PROVE  f[r] \in DOMAIN modules /\ (todo # {} => r < First(todo))
    OBVIOUS
  <2>1. Explored(p, todo, f)
    BY <1>1 DEF StackOK
  <2>2. todo # {} => First(todo) \in todo
    BY <1>1, RootIsImport
  <2> QED BY <2>1, <2>2 DEF Explored
<1>4. \A m \in DOMAIN modules : \A r \in DOMAIN modules[m].imports : modules[m].imports[r] \in DOMAIN modules
  BY LoadedModule
<1> QED BY <1>2, <1>3, <1>4 DEF Begun, Numbered

\* Giving up an import keeps the order.
LEMMA SkippingBegun ==
  ASSUME LoadInv, NEW lo, NEW li, Begun(lo, li), loading # <<>>, UNCHANGED <<modules, entry>>,
         loading' = Skipped(loading)
  PROVE  Begun(lo, li)'
<1>0. loading \in Seq(Frames)
  BY DEF LoadInv, LoadTypeOK
<1>1. /\ Len(modules) \in Nat /\ DOMAIN modules = 1 .. Len(modules)
      /\ Len(loading) \in Nat /\ DOMAIN loading = 1 .. Len(loading)
  BY BegunIs
<1>2. loading' \in Seq(Frames) /\ Len(loading') = Len(loading) /\ DOMAIN loading' = DOMAIN loading
  <2>1. loading' \in Seq(Frames) /\ Len(loading') = Len(loading)
    BY <1>0, FramesSkipped
  <2> QED BY <1>1, <2>1, LenProperties
<1>3. \A k \in DOMAIN loading : loading'[k].imports = loading[k].imports
  <2> SUFFICES ASSUME NEW new, new = Skipped(loading) PROVE \A k \in DOMAIN loading : new[k].imports = loading[k].imports
    OBVIOUS
  <2>1. /\ \A k \in 1 .. Len(loading) - 1 : new[k] = loading[k]
        /\ new[Len(loading)].imports = Last(loading).imports
    <3> SUFFICES ASSUME NEW top, top = Last(loading)
                 PROVE  /\ \A k \in 1 .. Len(loading) - 1 : new[k] = loading[k]
                        /\ new[Len(loading)].imports = top.imports
      OBVIOUS
    <3>1. /\ \A k \in 1 .. Len(loading) - 1 : new[k] = loading[k]
          /\ new[Len(loading)] =
               [path |-> top.path, todo |-> top.todo \ {First(top.todo)}, imports |-> top.imports]
      BY <1>0, FramesSkipped
    <3> QED BY <3>1
  <2>2. Last(loading) = loading[Len(loading)] /\ Len(loading) \in 1 .. Len(loading)
    BY ONLY loading # <<>>, <1>0, TopReplaced
  <2>3. \A k \in 1 .. Len(loading) : k = Len(loading) \/ k \in 1 .. Len(loading) - 1
    BY <1>1, <2>2, RangeSplit
  <2> QED BY <1>1, <2>1, <2>2, <2>3
<1>4. modules' = modules /\ entry' = entry
  OBVIOUS
<1> QED BY <1>2, <1>3, <1>4 DEF Begun, Numbered

\* Binding an import to a module there is keeps the order.
LEMMA BindingBegun ==
  ASSUME LoadInv, NEW lo, NEW li, Begun(lo, li), loading # <<>>, Last(loading).todo # {},
         UNCHANGED <<modules, entry>>, NEW ix \in DOMAIN modules,
         loading' = Bound(loading, First(Last(loading).todo), ix)
  PROVE  Begun(lo, li)'
<1> SUFFICES ASSUME NEW n, n = Len(loading), NEW M, M = Len(modules),
                    NEW todo, todo = Last(loading).todo, NEW root, root = First(todo),
                    NEW f, f = Last(loading).imports, NEW g, g = AlsoBound(f, root, ix)
             PROVE  Begun(lo, li)'
  BY Zenon
<1>0. loading \in Seq(Frames) /\ LoadTypeOK /\ StackOK /\ modules' = modules /\ entry' = entry
  BY DEF LoadInv, LoadTypeOK
<1>1. /\ M \in Nat /\ DOMAIN modules = 1 .. M /\ n \in Nat /\ DOMAIN loading = 1 .. n
      /\ n \in 1 .. n /\ Last(loading) = loading[n]
      /\ \A k \in 1 .. n : k = n \/ (k # n /\ k \in 1 .. n - 1)
  <2>1. M \in Nat /\ DOMAIN modules = 1 .. M /\ n \in Nat /\ DOMAIN loading = 1 .. n
    BY BegunIs
  <2>2. Last(loading) = loading[n] /\ n \in 1 .. n
    BY <1>0, TopReplaced
  <2>3. \A k \in 1 .. n : k = n \/ (k # n /\ k \in 1 .. n - 1)
    BY <2>1, <2>2, RangeSplit
  <2> QED BY <2>1, <2>2, <2>3
<1>2. /\ f \in Edges /\ \A r \in DOMAIN f : r < root
      /\ li[n] \in Nat /\ InTurn(lo, li[n], f) /\ Latest(M, li[n], f) /\ (n = 1 => li[n] = 0)
  BY <1>1, BegunIs
<1>3. root \in Nat /\ ix \in Nat /\ ix =< M
  BY <1>0, <1>1, InnermostIs
<1>4. /\ loading' \in Seq(Frames) /\ Len(loading') = n /\ DOMAIN loading' = 1 .. n
      /\ loading'[n].imports = g /\ \A k \in 1 .. n - 1 : loading'[k] = loading[k]
  <2> SUFFICES ASSUME NEW bound, bound = Bound(loading, root, ix)
               PROVE  /\ bound \in Seq(Frames) /\ Len(bound) = n /\ DOMAIN bound = 1 .. n
                      /\ bound[n].imports = g /\ \A k \in 1 .. n - 1 : bound[k] = loading[k]
    OBVIOUS
  <2>1. /\ bound \in Seq(Frames) /\ Len(bound) = n
        /\ bound[n].imports = g /\ \A k \in 1 .. n - 1 : bound[k] = loading[k]
    BY <1>0, <1>3, FramesBound
  <2> QED BY <2>1, LenProperties
<1>5. Latest(M, li[n], g)
  <2>1. root \notin DOMAIN f
    BY <1>2, <1>3
  <2> QED BY <1>1, <1>2, <1>3, <2>1, LatestMore
<1>6. InTurn(lo, li[n], g)
  <2>1. ASSUME NEW c \in 0 .. ix - 1, Latest(c, li[n], f) PROVE FALSE
    <3>1. c = M
      BY <1>2, <2>1, LatestIsOne
    <3> QED BY <1>1, <1>3, <3>1
  <2> QED BY <1>2, <1>3, <2>1, InTurnMore
<1>7. ASSUME NEW k \in 1 .. n, NEW h, h = loading'[k].imports
      PROVE  /\ InTurn(lo, li[k], h)
             /\ Latest(IF k = n THEN M ELSE li[k + 1], li[k], h)
             /\ k = 1 => li[k] = 0
  <2>1. CASE k = n
    BY <1>2, <1>4, <1>5, <1>6, <1>7, <2>1
  <2>2. CASE k # n
    <3>1. h = loading[k].imports
      BY <1>1, <1>4, <1>7, <2>2
    <3> QED BY <1>1, <2>2, <3>1, BegunIs
  <2> QED BY <2>1, <2>2
<1>8. /\ lo \in [1 .. M -> Nat] /\ li \in [1 .. n -> Nat]
      /\ \A m \in 1 .. M : Latest(m - 1, lo[m], modules[m].imports) /\ InTurn(lo, lo[m], modules[m].imports)
      /\ entry # 0 => lo[entry] = 0
  BY <1>1 DEF Begun, Numbered
<1> QED BY <1>0, <1>1, <1>4, <1>7, <1>8 DEF Begun, Numbered

\* Beginning to load a file, the entry or one imported, keeps the order.
LEMMA PushingBegun ==
  ASSUME LoadInv, NEW lo, NEW li, Begun(lo, li), UNCHANGED <<modules, entry>>,
         NEW q \in Paths, Sound(q), NEW frame, frame = Frame(q), loading' = Append(loading, frame),
         loading = <<>> => modules = <<>>
  PROVE  \E more : Begun(lo, more)'
<1> SUFFICES ASSUME NEW n, n = Len(loading), NEW M, M = Len(modules), NEW last, last = n + 1,
                    NEW more, more = [k \in 1 .. last |-> IF k = last THEN M ELSE li[k]]
             PROVE  Begun(lo, more)'
  BY Zenon
<1>0. /\ loading \in Seq(Frames) /\ modules' = modules /\ entry' = entry
      /\ frame \in Frames /\ frame.imports = NoImports
  BY FrameIs DEF LoadInv, LoadTypeOK
<1>1. M \in Nat /\ DOMAIN modules = 1 .. M /\ n \in Nat /\ DOMAIN loading = 1 .. n
  BY BegunIs
<1>2. /\ loading' \in Seq(Frames) /\ Len(loading') = last
      /\ DOMAIN loading' = 1 .. last /\ loading'[last] = frame
      /\ \A k \in 1 .. last : k = last \/ (k # last /\ k \in 1 .. n /\ loading'[k] = loading[k])
  BY <1>0, <1>1, OneMore
<1>3. /\ \A k \in 1 .. n : li[k] \in Nat
      /\ last \in 1 .. last /\ \A k \in 1 .. n : k + 1 \in 1 .. last /\ (k + 1 = last <=> k = n)
  <2>1. last \in 1 .. last /\ \A k \in 1 .. n : k + 1 \in 1 .. last /\ (k + 1 = last <=> k = n)
    BY <1>1
  <2> QED BY <1>1, <2>1, BegunIs
<1>4. /\ more \in [1 .. last -> Nat] /\ more[last] = M
      /\ \A k \in 1 .. last : k # last => more[k] = li[k]
  BY <1>1, <1>2, <1>3
<1>5. ASSUME NEW k \in 1 .. last, NEW h, h = loading'[k].imports
      PROVE  /\ InTurn(lo, more[k], h)
             /\ Latest(IF k = last THEN M ELSE more[k + 1], more[k], h)
             /\ k = 1 => more[k] = 0
  <2>1. CASE k = last
    <3>1. h = NoImports
      BY <1>0, <1>2, <1>5, <2>1
    <3>2. k = 1 => M = 0
      BY <1>0, <1>1, <2>1, EmptySeq
    <3> QED BY <1>1, <1>4, <2>1, <3>1, <3>2, NoneInTurn
  <2>2. CASE k # last
    <3>1. k \in DOMAIN loading /\ k \in 1 .. n /\ h = loading[k].imports
      BY <1>1, <1>2, <1>5, <2>2
    <3>2. /\ InTurn(lo, li[k], h) /\ (k = 1 => li[k] = 0)
          /\ Latest(IF k = n THEN M ELSE li[k + 1], li[k], h)
      BY <3>1, BegunIs
    <3>3. more[k + 1] = IF k = n THEN M ELSE li[k + 1]
      BY <1>3, <1>4, <3>1
    <3> QED BY <1>4, <2>2, <3>2, <3>3
  <2> QED BY <2>1, <2>2
<1>6. /\ lo \in [1 .. M -> Nat]
      /\ \A m \in 1 .. M : Latest(m - 1, lo[m], modules[m].imports) /\ InTurn(lo, lo[m], modules[m].imports)
      /\ entry # 0 => lo[entry] = 0
  BY <1>1 DEF Begun, Numbered
<1> QED BY <1>0, <1>1, <1>2, <1>4, <1>5, <1>6 DEF Begun, Numbered

\* A file finished is a module that was begun when its file was.
AlsoBegun(lo, ix, l) == [m \in 1 .. ix |-> IF m = ix THEN l ELSE lo[m]]

\* The module a file became was begun when the file was.
LEMMA FinishedBegun ==
  ASSUME LoadInv, NEW lo, NEW li, Begun(lo, li), NEW path, NEW f, Finished(path, f),
         NEW ix, ix = Len(modules) + 1, NEW n, n = Len(loading),
         NEW new, new = AlsoBegun(lo, ix, li[n])
  PROVE  /\ new \in [1 .. ix -> Nat] /\ new[ix] = li[n] /\ \A m \in DOMAIN modules : new[m] = lo[m]
         /\ \A m \in 1 .. ix :
              Latest(m - 1, new[m], modules'[m].imports) /\ InTurn(new, new[m], modules'[m].imports)
         /\ li[n] \in Nat /\ li[n] =< Len(modules)
<1>1. /\ LoadTypeOK /\ loading \in Seq(Frames) /\ loading # <<>>
      /\ loading[n].imports = f
  BY DEF LoadInv, LoadTypeOK, Finished
<1>2. n \in DOMAIN loading
  BY <1>1, TopReplaced
<1>3. /\ ix \in Nat /\ ix # 0 /\ DOMAIN modules = 1 .. ix - 1 /\ modules'[ix].imports = f
      /\ \A i \in 1 .. ix : i = ix \/ (i # ix /\ i \in 1 .. ix - 1 /\ modules'[i] = modules[i])
  BY FinishedIs
<1>4. Len(modules) \in Nat /\ ix - 1 = Len(modules)
  BY <1>1, Elements
<1>5. \A i \in 1 .. ix - 1 : i \in 1 .. ix /\ i # ix
  BY <1>3
<1>6. ix \in 1 .. ix
  BY <1>3
<1>7. /\ li[n] \in Nat /\ f \in Edges /\ \A r \in DOMAIN f : f[r] \in DOMAIN modules
      /\ InTurn(lo, li[n], f) /\ Latest(ix - 1, li[n], f)
  BY <1>1, <1>2, <1>4, BegunIs
<1>8. \A m \in 1 .. ix - 1 : lo[m] \in Nat
  BY <1>3, BegunIs
<1>9. new \in [1 .. ix -> Nat] /\ new[ix] = li[n] /\ \A m \in DOMAIN modules : new[m] = lo[m]
  BY <1>3, <1>5, <1>6, <1>7, <1>8 DEF AlsoBegun
<1>10. ASSUME NEW m \in 1 .. ix, NEW h, h = modules'[m].imports
       PROVE  Latest(m - 1, new[m], h) /\ InTurn(new, new[m], h)
  <2>1. CASE m = ix
    <3>1. h = f
      BY <1>3, <1>10, <2>1
    <3> QED BY <1>7, <1>9, <2>1, <3>1, InTurnStays
  <2>2. CASE m # ix
    <3>1. m \in DOMAIN modules /\ h = modules[m].imports
      BY <1>3, <1>10, <2>2
    <3>2. /\ \A r \in DOMAIN h : h[r] \in DOMAIN modules
          /\ Latest(m - 1, lo[m], h) /\ InTurn(lo, lo[m], h)
      BY <3>1, BegunIs
    <3> QED BY <1>9, <3>1, <3>2, InTurnStays
  <2> QED BY <2>1, <2>2
<1>11. li[n] =< Len(modules)
  BY <1>4, <1>7 DEF Latest
<1> QED BY <1>7, <1>9, <1>10, <1>11

\* The order when the entry finishes.
LEMMA LastFinishedBegun ==
  ASSUME LoadInv, NEW lo, NEW li, Begun(lo, li), NEW path, NEW f, Finished(path, f), Len(loading) = 1,
         loading' = <<>>, entry' = Len(modules) + 1
  PROVE  \E new, left : Begun(new, left)'
<1> SUFFICES ASSUME NEW ix, ix = Len(modules) + 1,
                    NEW new, new = AlsoBegun(lo, ix, li[1]),
                    NEW left, left = [k \in {} |-> 0]
             PROVE  Begun(new, left)'
  BY Zenon
<1>1. /\ new \in [1 .. ix -> Nat] /\ new[ix] = li[1]
      /\ \A m \in 1 .. ix :
           Latest(m - 1, new[m], modules'[m].imports) /\ InTurn(new, new[m], modules'[m].imports)
  BY FinishedBegun
<1>2. DOMAIN modules' = 1 .. ix /\ DOMAIN loading' = {} /\ entry' = ix
  BY FinishedIs
<1>3. li[1] = 0
  <2>1. 1 \in DOMAIN loading
    BY BegunIs
  <2> QED BY <2>1, BegunIs
<1>4. left \in [{} -> Nat]
  OBVIOUS
<1> QED BY <1>1, <1>2, <1>3, <1>4 DEF Begun, Numbered

\* The order when an imported file finishes: its importer has it bound in turn.
LEMMA InnerFinishedBegun ==
  ASSUME LoadInv, NEW lo, NEW li, Begun(lo, li), NEW path, NEW f, Finished(path, f),
         NEW at, NEW p, NEW todo, NEW h, GoesOn(at, p, todo, h)
  PROVE  \E new, left : Begun(new, left)'
<1> SUFFICES ASSUME NEW ix, ix = Len(modules) + 1, NEW n, n = Len(loading),
                    NEW root, root = First(todo), NEW g, g = AlsoBound(h, root, ix),
                    NEW new, new = AlsoBegun(lo, ix, li[n]),
                    NEW left, left = [k \in 1 .. at |-> li[k]]
             PROVE  Begun(new, left)'
  BY Zenon
<1>0. LoadTypeOK /\ StackOK /\ entry' = entry
  BY DEF LoadInv, GoesOn
<1>1. /\ new \in [1 .. ix -> Nat] /\ new[ix] = li[n] /\ \A m \in DOMAIN modules : new[m] = lo[m]
      /\ \A m \in 1 .. ix :
           Latest(m - 1, new[m], modules'[m].imports) /\ InTurn(new, new[m], modules'[m].imports)
      /\ li[n] \in Nat /\ li[n] =< Len(modules)
  BY FinishedBegun
<1>2. /\ Len(modules') = ix /\ ix \in Nat /\ DOMAIN modules' = 1 .. ix
      /\ Len(modules) \in Nat /\ li[n] =< ix
  <2>1. Len(modules') = ix /\ ix \in Nat /\ DOMAIN modules' = 1 .. ix
    BY FinishedIs
  <2>2. Len(modules) \in Nat
    BY <1>0, Elements
  <2> QED BY <1>1, <2>1, <2>2
<1>3. /\ Len(loading') = at /\ at \in Nat
      /\ DOMAIN loading' = 1 .. at /\ DOMAIN loading = 1 .. at + 1 /\ n = at + 1
      /\ at \in 1 .. at
      /\ \A k \in 1 .. at : k \in 1 .. at + 1 /\ k # at + 1
      /\ \A k \in 1 .. at : k = at \/ (k # at /\ k \in 1 .. at - 1 /\ loading'[k] = loading[k])
      /\ \A k \in 1 .. at - 1 : k + 1 \in 1 .. at
      /\ loading'[at].imports = g /\ todo # {}
  BY <1>0, GoesOnIs
<1>4. /\ li[at] \in Nat /\ h \in Edges /\ (at = 1 => li[at] = 0)
      /\ \A r \in DOMAIN h : h[r] \in DOMAIN modules /\ r < root
      /\ InTurn(lo, li[at], h) /\ Latest(li[n], li[at], h)
  <2>1. at \in DOMAIN loading /\ at # n /\ h = loading[at].imports /\ todo = loading[at].todo
    BY <1>3 DEF GoesOn
  <2> QED BY <1>3, <2>1, BegunIs
<1>5. root \in Nat
  <2>1. at \in DOMAIN loading /\ todo = loading[at].todo
    BY <1>3 DEF GoesOn
  <2>2. root \in Items(loading[at].path)
    BY <1>0, <1>3, <2>1, RootIsImport
  <2> QED BY <1>0, <2>2, ItemsAreNumbers DEF LoadTypeOK
<1>6. InTurn(new, li[at], h)
  BY <1>1, <1>4, InTurnStays
<1>7. Latest(ix, li[at], g) /\ InTurn(new, li[at], g)
  <2>1. root \notin DOMAIN h
    BY <1>4, <1>5
  <2>2. Latest(ix, li[at], g)
    BY <1>1, <1>2, <1>4, <2>1, LatestMore
  <2>3. ASSUME NEW c \in 0 .. ix - 1, Latest(c, li[at], h) PROVE new[ix] = c
    BY <1>1, <1>4, <2>3, LatestIsOne
  <2> QED BY <1>2, <1>4, <1>5, <1>6, <2>2, <2>3, InTurnMore
<1>8. ASSUME NEW k \in 1 .. at, NEW e, e = loading'[k].imports
      PROVE  /\ InTurn(new, left[k], e)
             /\ Latest(IF k = at THEN ix ELSE left[k + 1], left[k], e)
             /\ k = 1 => left[k] = 0
  <2>1. CASE k = at
    BY <1>3, <1>4, <1>7, <1>8, <2>1
  <2>2. CASE k # at
    <3>1. k \in DOMAIN loading /\ k # n /\ e = loading[k].imports /\ k + 1 \in 1 .. at
      BY <1>3, <1>8, <2>2
    <3>2. /\ \A r \in DOMAIN e : e[r] \in DOMAIN modules
          /\ InTurn(lo, li[k], e) /\ Latest(li[k + 1], li[k], e) /\ (k = 1 => li[k] = 0)
      BY <3>1, BegunIs
    <3>3. InTurn(new, li[k], e)
      BY <1>1, <3>2, InTurnStays
    <3> QED BY <2>2, <3>1, <3>2, <3>3
  <2> QED BY <2>1, <2>2
<1>9. left \in [1 .. at -> Nat]
  <2>1. \A k \in 1 .. at : li[k] \in Nat
    BY <1>3, BegunIs
  <2> QED BY <2>1
<1>10. entry' = 0
  <2>1. loading # <<>>
    BY DEF GoesOn
  <2> QED BY <1>0, <2>1 DEF StackOK
<1>11. \A k \in DOMAIN loading' :
         /\ InTurn(new, left[k], loading'[k].imports)
         /\ Latest(IF k = Len(loading') THEN Len(modules') ELSE left[k + 1], left[k], loading'[k].imports)
         /\ k = 1 => left[k] = 0
  BY <1>2, <1>3, <1>8
<1>12. Numbered(new, left)'
  BY <1>1, <1>2, <1>10, <1>11 DEF Numbered
<1> QED BY <1>1, <1>2, <1>3, <1>9, <1>12 DEF Begun

\* Following an import gives it up, binds it to a module, or begins its file.
LEMMA FollowImportIs ==
  ASSUME LoadInv, FollowImport
  PROVE  /\ loading # <<>> /\ Last(loading).todo # {} /\ UNCHANGED <<files, modules, entry>>
         /\ \/ loading' = Skipped(loading)
            \/ \E ix \in DOMAIN modules : loading' = Bound(loading, First(Last(loading).todo), ix)
            \/ \E q \in Paths : Sound(q) /\ loading' = Append(loading, Frame(q))
<1> DEFINE frame == Last(loading)
           root == First(frame.todo)
           named == Named(frame.path, Source(frame.path).items[root])
<1>1. loading # <<>> /\ frame.todo # {} /\ UNCHANGED <<files, modules, entry>>
  BY DEF FollowImport
<1>2. \/ loading' = Skipped(loading)
      \/ \E target \in named :
           \/ Loaded(target) /\ loading' = Bound(loading, root, IndexOf(target))
           \/ Sound(target) /\ loading' = Append(loading, Frame(target))
  <2> HIDE DEF named, root
  <2> QED BY Zenon DEF FollowImport, named, root
<1>3. ASSUME NEW target \in named, Loaded(target) PROVE IndexOf(target) \in DOMAIN modules
  BY <1>3 DEF Loaded, IndexOf
<1>4. ASSUME NEW target \in named, Sound(target) PROVE target \in Paths
  <2>1. Readable(target)
    BY <1>4 DEF Sound
  <2>2. LoadTypeOK /\ StackOK
    BY DEF LoadInv
  <2> SUFFICES ASSUME NEW p, p = frame.path, NEW r, r = root, NEW ns, ns = named, NEW q \in ns, Readable(q)
               PROVE  q \in Paths
    BY <2>1
  <2> QED BY <1>1, <2>2, WhatIsNamed
<1> HIDE DEF named, root
<1> QED BY <1>1, <1>2, <1>3, <1>4 DEF root

\* Each step of a load keeps the order of the modules.
LEMMA LoadBegun ==
  ASSUME LoadInv, NEW lo, NEW li, Begun(lo, li), LoadEntry \/ FollowImport \/ FinishFile
  PROVE  \E new, left : Begun(new, left)'
<1>1. CASE LoadEntry
  <2> SUFFICES ASSUME NEW p, p = main_path PROVE \E new, left : Begun(new, left)'
    OBVIOUS
  <2>1. /\ loading = <<>> /\ entry = 0 /\ UNCHANGED files
        /\ IF Sound(p)
           THEN loading' = <<Frame(p)>> /\ UNCHANGED <<modules, entry>>
           ELSE modules' = <<Module(p, <<>>, NoImports)>> /\ entry' = 1 /\ UNCHANGED loading
    BY <1>1 DEF LoadEntry, main_path
  <2>2. modules = <<>>
    BY <2>1 DEF LoadInv, EntryOK
  <2>3. CASE Sound(p)
    <3>1. p \in Paths
      BY DEF Paths
    <3> SUFFICES ASSUME NEW frame, frame = Frame(p) PROVE \E new, left : Begun(new, left)'
      OBVIOUS
    <3>2. loading' = Append(loading, frame)
      BY <2>1, <2>3
    <3>3. UNCHANGED <<modules, entry>>
      BY <2>1, <2>3
    <3> QED BY <2>2, <2>3, <3>1, <3>2, <3>3, PushingBegun
  <2>4. CASE ~Sound(p)
    <3> SUFFICES ASSUME NEW m, m = Module(p, <<>>, NoImports), NEW new, new = [i \in {1} |-> 0],
                        NEW left, left = [k \in {} |-> 0]
                 PROVE  Begun(new, left)'
      BY Zenon
    <3>1. m.imports = NoImports
      BY DEF Module
    <3>2. modules' = <<m>> /\ entry' = 1 /\ loading' = <<>>
      BY <2>1, <2>4
    <3>3. DOMAIN modules' = {1} /\ modules'[1] = m /\ DOMAIN loading' = {}
      BY <3>2
    <3>4. Latest(1 - 1, 0, NoImports) /\ InTurn(new, 0, NoImports)
      <4>1. 1 - 1 = 0 /\ 0 \in Nat
        OBVIOUS
      <4> QED BY <4>1, NoneInTurn
    <3>5. new \in [{1} -> Nat] /\ new[1] = 0 /\ left \in [{} -> Nat]
      OBVIOUS
    <3>6. \A i \in {1} : Latest(i - 1, new[i], modules'[i].imports) /\ InTurn(new, new[i], modules'[i].imports)
      BY <3>1, <3>3, <3>4, <3>5
    <3> QED BY <3>2, <3>3, <3>5, <3>6 DEF Begun, Numbered
  <2> QED BY <2>3, <2>4
<1>2. CASE FollowImport
  <2>1. loading # <<>> /\ Last(loading).todo # {} /\ UNCHANGED <<modules, entry>>
    BY <1>2, FollowImportIs
  <2>2. CASE loading' = Skipped(loading)
    <3>1. Begun(lo, li)'
      BY <2>1, <2>2, SkippingBegun
    <3> QED BY <3>1
  <2>3. CASE \E ix \in DOMAIN modules : loading' = Bound(loading, First(Last(loading).todo), ix)
    <3>1. Begun(lo, li)'
      BY <2>1, <2>3, BindingBegun
    <3> QED BY <3>1
  <2>4. CASE \E q \in Paths : Sound(q) /\ loading' = Append(loading, Frame(q))
    <3>1. PICK q \in Paths : Sound(q) /\ loading' = Append(loading, Frame(q))
      BY <2>4
    <3> SUFFICES ASSUME NEW frame, frame = Frame(q) PROVE \E new, left : Begun(new, left)'
      OBVIOUS
    <3>2. loading' = Append(loading, frame)
      BY <3>1
    <3> QED BY <2>1, <3>1, <3>2, PushingBegun
  <2> QED BY <1>2, <2>2, <2>3, <2>4, FollowImportIs
<1>3. CASE FinishFile
  <2> SUFFICES ASSUME NEW path, path = Last(loading).path, NEW f, f = Last(loading).imports
               PROVE  \E new, left : Begun(new, left)'
    BY Zenon
  <2>1. /\ Finished(path, f)
        /\ \/ Len(loading) = 1 /\ loading' = <<>> /\ entry' = Len(modules) + 1
           \/ \E at, p, todo, h : GoesOn(at, p, todo, h)
    BY <1>3, FinishFileIs
  <2>2. CASE Len(loading) = 1 /\ loading' = <<>> /\ entry' = Len(modules) + 1
    BY <2>1, <2>2, LastFinishedBegun
  <2>3. CASE \E at, p, todo, h : GoesOn(at, p, todo, h)
    BY <2>1, <2>3, InnerFinishedBegun
  <2> QED BY <2>1, <2>2, <2>3
<1> QED BY <1>1, <1>2, <1>3

-----------------------------------------------------------------------------
(* The walk through a bundle.                                                *)

\* A module being loaded from the bundle: the imports followed are bound as the
\* packed module's are.
Retraced(v) ==
  LET m == modules[v.index]
      at(r) == PositionOf(m.items, r)
  IN  /\ \A n \in v.todo : \E r \in DOMAIN m.imports : n = at(r)
      /\ v.imports = [r \in {r \in DOMAIN m.imports : at(r) \notin v.todo} |-> m.imports[r]]
      /\ \A r, s \in DOMAIN m.imports : at(r) \notin v.todo /\ at(s) \in v.todo => r < s

\* The edge a module being loaded from the bundle has come to.
NextRoot(v) == RootAt(modules[v.index].items, First(v.todo))

\* A module being loaded, and the one loaded for the edge it has come to.
VisitOK(lo, v, c) ==
  v.index \in DOMAIN modules /\ Retraced(v) /\ Latest(c, lo[v.index], v.imports)
Visited(v, w) == v.todo # {} /\ w.index = modules[v.index].imports[NextRoot(v)]

Walked(lo) ==
  /\ unpacking # <<>> => unpacking[1].index = entry
  /\ \A k \in DOMAIN unpacking :
       VisitOK(lo, unpacking[k], IF k = Len(unpacking) THEN Len(restored) ELSE lo[unpacking[k + 1].index])
  /\ \A k \in DOMAIN unpacking : k # Len(unpacking) => Visited(unpacking[k], unpacking[k + 1])

Packed == bundle = [i \in DOMAIN modules |-> Captured(modules[i])]
Restored ==
  /\ Len(restored) =< Len(modules) /\ \A i \in DOMAIN restored : restored[i] = modules[i]
  /\ became = [i \in DOMAIN restored |-> i]
  /\ IF bundle = <<>> THEN unpacking = <<>> /\ restored = <<>>
     ELSE /\ entry # 0 /\ ~editor /\ Sound(main_path) /\ Packed
          /\ unpacking = <<>> => Len(restored) = Len(modules)

Visits == [index : Nat, todo : SUBSET Nat, imports : Edges]
UnpackTypeOK == unpacking \in Seq(Visits) /\ restored \in Seq(Mods)
OrderInv == \E lo, li : Begun(lo, li) /\ Walked(lo)
LoaderInv == LoadInv /\ UnpackTypeOK /\ Restored /\ OrderInv

\* The imports of a module are kept by their positions, in order.
LEMMA PositionsAscend ==
  ASSUME NEW n \in Nat, NEW items, NEW roots, roots = file_import_roots(items), roots \subseteq 1 .. n
  PROVE  \A r \in roots :
           /\ PositionOf(items, r) \in Nat
           /\ \A s \in roots : r < s => PositionOf(items, r) < PositionOf(items, s)
           /\ \A s \in roots : PositionOf(items, r) = PositionOf(items, s) => r = s
           /\ RootAt(items, PositionOf(items, r)) = r
<1> DEFINE below(r) == {s \in roots : s < r}
<1>1. IsFiniteSet(roots)
  <2>1. IsFiniteSet(1 .. n)
    BY FS_Interval
  <2> QED BY <2>1, FS_Subset
<1>2. \A r : IsFiniteSet(below(r)) /\ Cardinality(below(r)) \in Nat /\ PositionOf(items, r) = Cardinality(below(r))
  <2> SUFFICES ASSUME NEW r
               PROVE  IsFiniteSet(below(r)) /\ Cardinality(below(r)) \in Nat /\ PositionOf(items, r) = Cardinality(below(r))
    OBVIOUS
  <2>1. below(r) \in SUBSET roots
    OBVIOUS
  <2>2. PositionOf(items, r) = Cardinality(below(r))
    BY DEF PositionOf
  <2> HIDE DEF below
  <2>3. IsFiniteSet(below(r))
    BY <1>1, <2>1, FS_Subset
  <2> QED BY <2>2, <2>3, FS_CardinalityType
<1>3. ASSUME NEW r \in roots, NEW s \in roots, r < s PROVE PositionOf(items, r) < PositionOf(items, s)
  <2>1. r \in Nat /\ s \in Nat /\ \A t \in roots : t \in Nat
    OBVIOUS
  <2>2. below(r) \in SUBSET below(s)
    BY <1>3, <2>1
  <2>3. r \in below(s) /\ r \notin below(r)
    BY <1>3, <2>1
  <2> HIDE DEF below
  <2>4. Cardinality(below(r)) =< Cardinality(below(s)) /\ Cardinality(below(s)) # Cardinality(below(r))
    BY <1>2, <2>2, <2>3, FS_Subset
  <2> QED BY <1>2, <2>4
<1>4. \A r \in roots : r \in Nat
  OBVIOUS
<1> HIDE DEF below
<1>5. ASSUME NEW r \in roots, NEW s \in roots, PositionOf(items, r) = PositionOf(items, s) PROVE r = s
  <2>1. ~(r < s) /\ ~(s < r)
    BY <1>2, <1>3, <1>5
  <2> QED BY <1>4, <2>1
<1>6. ASSUME NEW r \in roots PROVE RootAt(items, PositionOf(items, r)) = r
  BY <1>5, Zenon DEF RootAt
<1> QED BY <1>2, <1>3, <1>5, <1>6

\* The positions a bundle records for imports tell them apart, and are in order.
LEMMA Positions ==
  ASSUME LoadInv, NEW i \in DOMAIN modules, NEW items, items = modules[i].items, NEW f, f = modules[i].imports
  PROVE  \A r \in DOMAIN f :
           /\ r \in Nat /\ PositionOf(items, r) \in Nat
           /\ \A s \in DOMAIN f : r < s => PositionOf(items, r) < PositionOf(items, s)
           /\ \A s \in DOMAIN f : PositionOf(items, r) = PositionOf(items, s) => r = s
           /\ RootAt(items, PositionOf(items, r)) = r
<1> SUFFICES ASSUME NEW p, p = modules[i].path
             PROVE  \A r \in DOMAIN f :
                      /\ r \in Nat /\ PositionOf(items, r) \in Nat
                      /\ \A s \in DOMAIN f : r < s => PositionOf(items, r) < PositionOf(items, s)
                      /\ \A s \in DOMAIN f : PositionOf(items, r) = PositionOf(items, s) => r = s
                      /\ RootAt(items, PositionOf(items, r)) = r
  OBVIOUS
<1>1. CASE Sound(p)
  <2>1. items = Source(p).items /\ Explored(p, {}, f)
    BY <1>1 DEF LoadInv, ModulesOK
  <2>2. DOMAIN f \subseteq Items(p) /\ Items(p) = file_import_roots(items)
    BY <1>1, <2>1 DEF Explored, Items
  <2>3. PICK n \in Nat : Items(p) \subseteq 1 .. n
    BY ItemsAreNumbers DEF LoadInv, LoadTypeOK
  <2> SUFFICES ASSUME NEW roots, roots = file_import_roots(items)
               PROVE  \A r \in DOMAIN f :
                        /\ r \in Nat /\ PositionOf(items, r) \in Nat
                        /\ \A s \in DOMAIN f : r < s => PositionOf(items, r) < PositionOf(items, s)
                        /\ \A s \in DOMAIN f : PositionOf(items, r) = PositionOf(items, s) => r = s
                        /\ RootAt(items, PositionOf(items, r)) = r
    OBVIOUS
  <2>4. DOMAIN f \subseteq roots /\ roots \subseteq 1 .. n
    BY <2>2, <2>3
  <2>5. \A r \in roots :
           /\ PositionOf(items, r) \in Nat
           /\ \A s \in roots : r < s => PositionOf(items, r) < PositionOf(items, s)
           /\ \A s \in roots : PositionOf(items, r) = PositionOf(items, s) => r = s
           /\ RootAt(items, PositionOf(items, r)) = r
    BY <2>4, PositionsAscend
  <2>6. \A r \in roots : r \in Nat
    BY <2>4
  <2> QED BY <2>4, <2>5, <2>6
<1>2. CASE ~Sound(p)
  <2>1. DOMAIN f = {}
    BY <1>2 DEF LoadInv, ModulesOK, NoImports
  <2> QED BY <2>1
<1> QED BY <1>1, <1>2

\* What is packed of a module.
LEMMA BundleIs ==
  ASSUME LoadInv, Packed, NEW i \in DOMAIN modules,
         NEW items, items = modules[i].items, NEW f, f = modules[i].imports,
         NEW edges, edges = bundle[i].imports
  PROVE  /\ bundle[i].path = modules[i].path /\ bundle[i].items = items
         /\ \A r \in DOMAIN f : PositionOf(items, r) \in DOMAIN edges /\ edges[PositionOf(items, r)] = f[r]
         /\ \A n \in DOMAIN edges : \E r \in DOMAIN f : n = PositionOf(items, r)
         /\ DOMAIN edges \subseteq Nat
<1> DEFINE at(r) == PositionOf(items, r)
<1>1. bundle[i] = Captured(modules[i])
  BY DEF Packed
<1>2. /\ bundle[i].path = modules[i].path /\ bundle[i].items = items
      /\ edges = [n \in {at(r) : r \in DOMAIN f} |-> f[RootAt(items, n)]]
  BY <1>1 DEF Captured
<1>3. \A r \in DOMAIN f : at(r) \in Nat /\ RootAt(items, at(r)) = r
  BY Positions
<1> HIDE DEF at
<1>4. \A r \in DOMAIN f : at(r) \in DOMAIN edges /\ edges[at(r)] = f[r]
  BY <1>2, <1>3
<1>5. \A n \in DOMAIN edges : n \in Nat /\ \E r \in DOMAIN f : n = at(r)
  BY <1>2, <1>3
<1> QED BY <1>2, <1>4, <1>5 DEF at

\* The edge come to is the next import of the packed module, those before it followed.
EdgeIs(v, root, first, f, edges) ==
  /\ first \in DOMAIN edges /\ edges[first] = f[root]
  /\ root \in DOMAIN f /\ root \in Nat /\ v.imports = Before(f, root)
  /\ PositionOf(modules[v.index].items, root) = first

\* The next edge of a bundled module is the next import of the packed one.
LEMMA NextEdge ==
  ASSUME LoadInv, Packed, NEW v, Retraced(v), v.index \in DOMAIN modules, v.todo # {}
  PROVE  EdgeIs(v, NextRoot(v), First(v.todo), modules[v.index].imports, bundle[v.index].imports)
<1> SUFFICES ASSUME NEW i \in DOMAIN modules, i = v.index,
                    NEW items, items = modules[i].items, NEW f, f = modules[i].imports,
                    NEW edges, edges = bundle[i].imports, NEW todo, todo = v.todo, todo # {},
                    NEW root, root = NextRoot(v)
             PROVE  EdgeIs(v, root, First(todo), f, edges)
  BY Zenon
<1>0. root = RootAt(items, First(todo))
  BY Zenon DEF NextRoot
<1> DEFINE at(r) == PositionOf(items, r)
<1>1. /\ \A r \in DOMAIN f : at(r) \in DOMAIN edges /\ edges[at(r)] = f[r]
      /\ \A n \in DOMAIN edges : \E r \in DOMAIN f : n = at(r)
      /\ DOMAIN edges \subseteq Nat
  BY ONLY LoadInv, Packed, i \in DOMAIN modules, items = modules[i].items, f = modules[i].imports,
          edges = bundle[i].imports, BundleIs
<1>2. /\ \A n \in todo : \E r \in DOMAIN f : n = at(r)
      /\ v.imports = [r \in {r \in DOMAIN f : at(r) \notin todo} |-> f[r]]
      /\ \A r, s \in DOMAIN f : at(r) \notin todo /\ at(s) \in todo => r < s
  BY DEF Retraced
<1>3. \A r \in DOMAIN f :
        /\ r \in Nat /\ at(r) \in Nat
        /\ \A s \in DOMAIN f : r < s => at(r) < at(s)
        /\ RootAt(items, at(r)) = r
  BY Positions
<1>4. First(todo) \in todo /\ \A n \in todo : First(todo) =< n
  <2>1. todo \subseteq Nat
    BY <1>2, <1>3
  <2> QED BY <2>1, FirstOfSome
<1>5. PICK r \in DOMAIN f : First(todo) = at(r)
  BY <1>2, <1>4
<1>6. r = root
  BY <1>0, <1>3, <1>5
<1> SUFFICES ASSUME NEW first, first = First(todo), first \in todo, at(root) = first, root \in DOMAIN f,
                    \A n \in todo : first =< n
             PROVE  EdgeIs(v, root, first, f, edges)
  BY <1>4, <1>5, <1>6
<1>7. \A s \in DOMAIN f : at(s) \notin todo <=> s < root
  <2> SUFFICES ASSUME NEW s \in DOMAIN f PROVE at(s) \notin todo <=> s < root
    OBVIOUS
  <2> HIDE DEF at
  <2>1. at(s) \notin todo => s < root
    BY <1>2
  <2>2. ASSUME s < root PROVE at(s) \notin todo
    <3>1. at(s) < first /\ at(s) \in Nat /\ first \in Nat
      BY <1>3, <2>2
    <3>2. ~(first =< at(s))
      BY <3>1
    <3> QED BY <3>2
  <2> QED BY <2>1, <2>2
<1>8. {s \in DOMAIN f : at(s) \notin todo} = {s \in DOMAIN f : s < root}
  BY <1>7
<1>9. v.imports = Before(f, root)
  BY <1>2, <1>8 DEF Before
<1> QED BY <1>1, <1>2, <1>3, <1>9 DEF EdgeIs

\* An import more followed is one of the packed module's more.
LEMMA RetracedMore ==
  ASSUME LoadInv, Packed, NEW i \in DOMAIN modules,
         NEW items, items = modules[i].items, NEW f, f = modules[i].imports,
         NEW edges, edges = bundle[i].imports,
         NEW v, Retraced(v), i = v.index, NEW todo, todo = v.todo, todo # {},
         NEW root, root = NextRoot(v),
         NEW w, w.index = i, w.todo = todo \ {First(todo)}, w.imports = AlsoBound(v.imports, root, f[root])
  PROVE  Retraced(w)
<1> SUFFICES ASSUME NEW first, first = First(todo) PROVE Retraced(w)
  OBVIOUS
<1> DEFINE at(r) == PositionOf(items, r)
<1>0. EdgeIs(v, root, first, f, edges)
  BY NextEdge
<1>1. /\ first \in DOMAIN edges /\ edges[first] = f[root]
      /\ root \in DOMAIN f /\ root \in Nat /\ v.imports = Before(f, root)
      /\ at(root) = first
  BY <1>0 DEF EdgeIs
<1>2. /\ \A n \in todo : \E r \in DOMAIN f : n = at(r)
      /\ v.imports = [r \in {r \in DOMAIN f : at(r) \notin todo} |-> f[r]]
      /\ \A r, s \in DOMAIN f : at(r) \notin todo /\ at(s) \in todo => r < s
  BY DEF Retraced
<1>3. \A r \in DOMAIN f :
        /\ r \in Nat /\ at(r) \in Nat
        /\ \A s \in DOMAIN f : r < s => at(r) < at(s)
        /\ \A s \in DOMAIN f : at(r) = at(s) => r = s
  BY Positions
<1>4. todo \subseteq Nat
  BY <1>2, <1>3
<1>5. first \in todo /\ \A n \in todo : first =< n
  BY <1>4, FirstOfSome
<1> HIDE DEF at
<1> DEFINE left == todo \ {first}
<1>6. \A r \in DOMAIN f : at(r) \notin left <=> at(r) \notin todo \/ r = root
  BY <1>1, <1>3
<1>7. w.imports = [r \in {r \in DOMAIN f : at(r) \notin left} |-> f[r]]
  <2> DEFINE B == {r \in DOMAIN f : at(r) \notin todo}
  <2>1. {r \in DOMAIN f : at(r) \notin left} = B \cup {root}
    BY <1>1, <1>6
  <2>2. v.imports = [r \in B |-> f[r]]
    BY <1>2
  <2> HIDE DEF B, left
  <2>3. w.imports = [r \in B \cup {root} |-> IF r = root THEN f[root] ELSE v.imports[r]]
    BY <2>2 DEF AlsoBound
  <2>4. \A r \in B \cup {root} : (IF r = root THEN f[root] ELSE v.imports[r]) = f[r]
    BY <2>2
  <2>5. w.imports = [r \in B \cup {root} |-> f[r]]
    BY <2>3, <2>4
  <2> QED BY <2>1, <2>5
<1>8. ASSUME NEW r \in DOMAIN f, NEW s \in DOMAIN f, at(r) \notin left, at(s) \in left PROVE r < s
  <2>1. CASE at(r) \notin todo
    BY <1>2, <1>8, <2>1
  <2>2. CASE at(r) \in todo
    <3>1. r = root
      BY <1>6, <1>8, <2>2
    <3>2. first =< at(s) /\ at(s) # first
      BY <1>5, <1>8
    <3>3. ~(s < r) /\ s # r
      <4>1. s # r
        BY <1>1, <3>1, <3>2
      <4>2. ASSUME s < r PROVE FALSE
        <5>1. at(s) < first /\ at(s) \in Nat /\ first \in Nat
          BY <1>1, <1>3, <3>1, <4>2
        <5> QED BY <3>2, <5>1
      <4> QED BY <4>1, <4>2
    <3>4. r \in Nat /\ s \in Nat
      BY <1>3
    <3> QED BY <3>3, <3>4
  <2> QED BY <2>1, <2>2
<1>9. \A n \in left : \E r \in DOMAIN f : n = at(r)
  BY <1>2
<1> HIDE DEF left
<1>10. w.todo = left
  BY DEF left
<1> QED BY <1>7, <1>8, <1>9, <1>10 DEF Retraced, at

\* A walk with one more import of its innermost frame followed.
SkipsTo(old, top) == top = [old EXCEPT !.todo = old.todo \ {First(old.todo)}]
BindsTo(top, root, ix, new) == new = [top EXCEPT !.imports = AlsoBound(top.imports, root, ix)]

\* A walk whose innermost frame followed one more import, whatever the frames are.
LEMMA StackBound ==
  ASSUME NEW S, NEW stack \in Seq(S), stack # <<>>, NEW root, NEW ix,
         NEW top \in S, SkipsTo(Last(stack), top),
         NEW new \in S, BindsTo(top, root, ix, new),
         NEW bound, bound = Bound(stack, root, ix)
  PROVE  /\ bound \in Seq(S) /\ Len(bound) = Len(stack) /\ bound[Len(stack)] = new
         /\ \A k \in 1 .. Len(stack) - 1 : bound[k] = stack[k]
<1> SUFFICES ASSUME NEW left, left = Skipped(stack)
             PROVE  /\ bound \in Seq(S) /\ Len(bound) = Len(stack) /\ bound[Len(stack)] = new
                    /\ \A k \in 1 .. Len(stack) - 1 : bound[k] = stack[k]
  OBVIOUS
<1>1. left = [stack EXCEPT ![Len(stack)] = top]
  BY DEF Skipped, SkipsTo
<1>2. /\ left \in Seq(S) /\ Len(left) = Len(stack) /\ left[Len(stack)] = top
      /\ \A k \in 1 .. Len(stack) - 1 : left[k] = stack[k]
      /\ Len(stack) \in 1 .. Len(stack) /\ Len(stack) \in Nat
  BY ONLY stack \in Seq(S), stack # <<>>, top \in S, <1>1, TopReplaced
<1>3. left # <<>>
  BY <1>2
<1>4. Last(left) = top
  BY <1>2, <1>3, TopReplaced
<1>5. bound = [left EXCEPT ![Len(left)] = new]
  BY <1>4 DEF Bound, BindsTo, AlsoBound
<1>6. /\ bound \in Seq(S) /\ Len(bound) = Len(left) /\ bound[Len(left)] = new
      /\ \A k \in 1 .. Len(left) - 1 : bound[k] = left[k]
  BY <1>2, <1>3, <1>5, TopReplaced
<1> QED BY <1>2, <1>6

\* A visit with one field changed is a visit.
LEMMA VisitChanged ==
  ASSUME NEW P, NEW T, NEW I, NEW r \in [index : P, todo : T, imports : I], NEW new
  PROVE  /\ [r EXCEPT !.todo = new] = [index |-> r.index, todo |-> new, imports |-> r.imports]
         /\ [r EXCEPT !.imports = new] = [index |-> r.index, todo |-> r.todo, imports |-> new]
         /\ r.index \in P /\ r.todo \in T /\ r.imports \in I
OBVIOUS

\* A walk through the bundle whose innermost visit bound one more import.
LEMMA VisitsBound ==
  ASSUME NEW stack \in Seq(Visits), stack # <<>>, NEW root \in Nat, NEW ix \in Nat,
         NEW v, v = Last(stack), NEW bound, bound = Bound(stack, root, ix)
  PROVE  /\ bound \in Seq(Visits) /\ Len(bound) = Len(stack)
         /\ \A k \in 1 .. Len(stack) - 1 : bound[k] = stack[k]
         /\ bound[Len(stack)].index = v.index
         /\ bound[Len(stack)].todo = v.todo \ {First(v.todo)}
         /\ bound[Len(stack)].imports = AlsoBound(v.imports, root, ix)
<1> SUFFICES ASSUME NEW todo, todo = v.todo \ {First(v.todo)},
                    NEW top, top = [v EXCEPT !.todo = todo],
                    NEW g, g = AlsoBound(v.imports, root, ix),
                    NEW new, new = [top EXCEPT !.imports = g]
             PROVE  /\ bound \in Seq(Visits) /\ Len(bound) = Len(stack)
                    /\ \A k \in 1 .. Len(stack) - 1 : bound[k] = stack[k]
                    /\ bound[Len(stack)].index = v.index /\ bound[Len(stack)].todo = todo
                    /\ bound[Len(stack)].imports = g
  BY Zenon
<1>1. v \in Visits
  BY TopReplaced
<1>2. top = [index |-> v.index, todo |-> todo, imports |-> v.imports]
      /\ v.index \in Nat /\ v.todo \in SUBSET Nat /\ v.imports \in Edges
  BY <1>1, VisitChanged DEF Visits
<1>3. todo \in SUBSET Nat
  BY <1>2
<1>4. top \in Visits /\ top.index = v.index /\ top.todo = todo /\ top.imports = v.imports
  BY <1>2, <1>3 DEF Visits
<1>5. g \in Edges
  <2>1. PICK D \in SUBSET Nat : v.imports \in [D -> Nat]
    BY <1>2 DEF Edges
  <2>2. g \in [D \cup {root} -> Nat]
    BY <2>1 DEF AlsoBound
  <2> QED BY <2>2 DEF Edges
<1>6. new = [index |-> v.index, todo |-> todo, imports |-> g]
  BY <1>4, VisitChanged DEF Visits
<1>7. new \in Visits /\ new.index = v.index /\ new.todo = todo /\ new.imports = g
  BY <1>2, <1>3, <1>5, <1>6 DEF Visits
<1>8. /\ bound \in Seq(Visits) /\ Len(bound) = Len(stack) /\ bound[Len(stack)] = new
      /\ \A k \in 1 .. Len(stack) - 1 : bound[k] = stack[k]
  <2>1. BindsTo(top, root, ix, new)
    BY <1>4 DEF BindsTo
  <2>2. SkipsTo(Last(stack), top)
    BY DEF SkipsTo
  <2> QED BY ONLY stack \in Seq(Visits), stack # <<>>, bound = Bound(stack, root, ix), <1>4, <1>7, <2>1, <2>2, StackBound
<1> QED BY <1>7, <1>8

\* What is known while a bundle is loaded.
LEMMA WalkIs ==
  ASSUME LoadInv, UnpackTypeOK, Restored, unpacking # <<>>,
         NEW n, n = Len(unpacking), NEW R, R = Len(restored)
  PROVE  /\ n \in Nat /\ n \in 1 .. n /\ DOMAIN unpacking = 1 .. n /\ Last(unpacking) = unpacking[n]
         /\ \A k \in 1 .. n : k = n \/ (k # n /\ k \in 1 .. n - 1 /\ k + 1 \in 1 .. n)
         /\ \A k \in 1 .. n : unpacking[k] \in Visits
         /\ Len(modules) \in Nat /\ DOMAIN modules = 1 .. Len(modules) /\ DOMAIN modules \subseteq Nat
         /\ R \in Nat /\ R =< Len(modules) /\ DOMAIN restored = 1 .. R
         /\ entry = Len(modules) /\ entry # 0 /\ Packed /\ bundle # <<>>
         /\ DOMAIN became = 1 .. R /\ \A i \in 1 .. R : became[i] = i
<1>1. unpacking \in Seq(Visits) /\ restored \in Seq(Mods) /\ modules \in Seq(Mods)
  BY DEF UnpackTypeOK, LoadInv, LoadTypeOK
<1>2. n \in Nat /\ n \in 1 .. n /\ DOMAIN unpacking = 1 .. n /\ Last(unpacking) = unpacking[n]
  BY <1>1, TopReplaced
<1>3. \A k \in 1 .. n : k = n \/ (k # n /\ k \in 1 .. n - 1 /\ k + 1 \in 1 .. n)
  BY <1>2
<1>4. /\ Len(modules) \in Nat /\ DOMAIN modules = 1 .. Len(modules) /\ DOMAIN modules \subseteq Nat
      /\ R \in Nat /\ DOMAIN restored = 1 .. R
  <2>1. /\ Len(modules) \in Nat /\ DOMAIN modules = 1 .. Len(modules)
        /\ Len(restored) \in Nat /\ DOMAIN restored = 1 .. Len(restored)
    BY ONLY <1>1, LenProperties
  <2>2. 1 .. Len(modules) \subseteq Nat
    BY ONLY <2>1
  <2> QED BY ONLY R = Len(restored), <2>1, <2>2
<1>5. bundle # <<>> /\ Packed /\ entry # 0 /\ R =< Len(modules) /\ became = [i \in 1 .. R |-> i]
  BY <1>4 DEF Restored
<1>6. entry = Len(modules)
  BY <1>5 DEF LoadInv, EntryOK
<1>7. \A k \in 1 .. n : unpacking[k] \in Visits
  BY <1>1, <1>2, ElementOfSeq
<1> QED BY <1>2, <1>3, <1>4, <1>5, <1>6, <1>7

\* A walk in which every module is as the packed one so far is one still after a
\* step that leaves the modules.
LEMMA WalkedStays ==
  ASSUME UNCHANGED <<modules, entry>>, NEW lo, NEW us, us = unpacking', us \in Seq(Visits),
         NEW n, n = Len(us), NEW c, c = Len(restored'),
         us # <<>> => us[1].index = entry,
         \A k \in 1 .. n : VisitOK(lo, us[k], IF k = n THEN c ELSE lo[us[k + 1].index]),
         \A k \in 1 .. n : k # n => Visited(us[k], us[k + 1])
  PROVE  Walked(lo)'
<1>1. DOMAIN us = 1 .. n /\ modules' = modules /\ entry' = entry
  BY LenProperties
<1>2. \A v : Retraced(v)' <=> Retraced(v)
  BY <1>1 DEF Retraced
<1>3. \A v : NextRoot(v)' = NextRoot(v)
  BY <1>1 DEF NextRoot
<1>4. \A v, d : VisitOK(lo, v, d)' <=> VisitOK(lo, v, d)
  BY <1>1, <1>2 DEF VisitOK
<1>5. \A v, w : Visited(v, w)' <=> Visited(v, w)
  BY <1>1, <1>3 DEF Visited
<1>6. \A k \in 1 .. n : VisitOK(lo, us[k], IF k = n THEN c ELSE lo[us[k + 1].index])'
  BY <1>4
<1>7. \A k \in 1 .. n : k # n => Visited(us[k], us[k + 1])'
  BY <1>5
<1> QED BY <1>1, <1>6, <1>7 DEF Walked

\* A module begun: all its imports are left to follow.
LEMMA VisitNew ==
  ASSUME LoadInv, NEW lo, NEW i \in DOMAIN modules, lo[i] \in Nat,
         NEW b, b = [m \in DOMAIN modules |-> Captured(modules[m])], NEW v, v = Visit(b, i)
  PROVE  v \in Visits /\ v.index = i /\ VisitOK(lo, v, lo[i])
<1> SUFFICES ASSUME NEW items, items = modules[i].items, NEW f, f = modules[i].imports, NEW todo, todo = v.todo
             PROVE  v \in Visits /\ v.index = i /\ VisitOK(lo, v, lo[i])
  OBVIOUS
<1> DEFINE at(r) == PositionOf(items, r)
<1>1. b[i].imports = [n \in {at(r) : r \in DOMAIN f} |-> f[RootAt(items, n)]]
  BY DEF Captured
<1>2. v = [index |-> i, todo |-> {at(r) : r \in DOMAIN f}, imports |-> NoImports]
  BY <1>1 DEF Visit
<1>3. v.index = i /\ todo = {at(r) : r \in DOMAIN f} /\ v.imports = NoImports
  BY <1>2
<1>4. \A r \in DOMAIN f : at(r) \in Nat
  BY Positions
<1> HIDE DEF at
<1>5. v \in Visits
  <2>1. i \in Nat /\ NoImports \in Edges /\ todo \in SUBSET Nat
    <3>1. NoImports \in [{} -> Nat]
      BY DEF NoImports
    <3>2. NoImports \in Edges
      BY <3>1 DEF Edges
    <3>3. i \in Nat
      BY DEF LoadInv, LoadTypeOK
    <3> QED BY <1>3, <1>4, <3>2, <3>3
  <2> QED BY <1>2, <1>3, <2>1 DEF Visits
<1>6. Retraced(v)
  <2>1. \A n \in todo : \E r \in DOMAIN f : n = at(r)
    BY <1>3
  <2>2. {r \in DOMAIN f : at(r) \notin todo} = {}
    BY <1>3
  <2>3. [r \in {} |-> f[r]] = NoImports
    BY DEF NoImports
  <2>4. v.imports = [r \in {r \in DOMAIN f : at(r) \notin todo} |-> f[r]]
    BY <1>3, <2>2, <2>3
  <2>5. \A r, s \in DOMAIN f : at(r) \notin todo /\ at(s) \in todo => r < s
    BY <2>2
  <2>6. v.index = i /\ todo = v.todo
    BY <1>3
  <2> QED BY ONLY items = modules[i].items, f = modules[i].imports, <2>1, <2>4, <2>5, <2>6 DEF Retraced, at
<1>7. Latest(lo[i], lo[i], v.imports)
  BY <1>3, NoneInTurn
<1> QED BY <1>3, <1>5, <1>6, <1>7 DEF VisitOK

\* An edge followed, to a module loaded already or to the one its module became.
LEMMA VisitBinding ==
  ASSUME LoadInv, Packed, NEW lo, NEW v \in Visits, NEW c \in Nat, VisitOK(lo, v, c), v.todo # {},
         NEW i, i = v.index, lo[i] \in Nat,
         NEW root, root = NextRoot(v), NEW t, t = modules[i].imports[root],
         NEW w, w.index = i, w.todo = v.todo \ {First(v.todo)}, w.imports = AlsoBound(v.imports, root, t)
  PROVE  /\ root \in Nat /\ t \in DOMAIN modules
         /\ t =< c => VisitOK(lo, w, c)
         /\ c =< t => VisitOK(lo, w, t)
<1> SUFFICES ASSUME NEW f, f = modules[i].imports, NEW first, first = First(v.todo),
                    NEW edges, edges = bundle[i].imports
             PROVE  /\ root \in Nat /\ t \in DOMAIN modules
                    /\ t =< c => VisitOK(lo, w, c)
                    /\ c =< t => VisitOK(lo, w, t)
  OBVIOUS
<1>1. i \in DOMAIN modules /\ Retraced(v) /\ Latest(c, lo[i], v.imports)
  BY DEF VisitOK
<1>2. EdgeIs(v, root, first, f, edges)
  BY <1>1, NextEdge
<1>3. root \in DOMAIN f /\ root \in Nat /\ v.imports = Before(f, root)
  BY <1>2 DEF EdgeIs
<1>4. t \in DOMAIN modules /\ t \in Nat
  <2>1. \A r \in DOMAIN f : f[r] \in DOMAIN modules
    BY <1>1, LoadedModule
  <2>2. DOMAIN modules \subseteq Nat
    BY DEF LoadInv, LoadTypeOK
  <2> QED BY <1>3, <2>1, <2>2
<1>5. Retraced(w)
  BY <1>1, RetracedMore
<1>6. root \notin DOMAIN v.imports
  <2>1. DOMAIN v.imports = {s \in DOMAIN f : s < root}
    BY <1>3 DEF Before
  <2>2. ~(root < root)
    BY <1>3
  <2> QED BY <2>1, <2>2
<1>7. v.imports \in Edges
  BY DEF Visits
<1>8. (t =< c => Latest(c, lo[i], w.imports)) /\ (c =< t => Latest(t, lo[i], w.imports))
  BY <1>1, <1>3, <1>4, <1>6, <1>7, LatestMore
<1> QED BY <1>1, <1>3, <1>4, <1>5, <1>8 DEF VisitOK

\* A bundle being loaded.
Walking(lo, li) ==
  LoadInv /\ UnpackTypeOK /\ Restored /\ Begun(lo, li) /\ Walked(lo) /\ unpacking # <<>>

\* What is known of the module that is next to be loaded.
LEMMA InnermostVisit ==
  ASSUME NEW lo, NEW li, Walking(lo, li), NEW n, n = Len(unpacking), NEW v, v = Last(unpacking)
  PROVE  /\ v = unpacking[n] /\ v \in Visits /\ VisitOK(lo, v, Len(restored))
         /\ v.index \in DOMAIN modules /\ lo[v.index] \in Nat
         /\ \A k \in 1 .. n : k # n => VisitOK(lo, unpacking[k], lo[unpacking[k + 1].index])
         /\ \A k \in 1 .. n : k # n => Visited(unpacking[k], unpacking[k + 1])
         /\ unpacking[1].index = entry
<1>1. LoadInv /\ UnpackTypeOK /\ Restored /\ Begun(lo, li) /\ Walked(lo) /\ unpacking # <<>>
  BY DEF Walking
<1>2. /\ n \in Nat /\ n \in 1 .. n /\ DOMAIN unpacking = 1 .. n /\ Last(unpacking) = unpacking[n]
      /\ \A k \in 1 .. n : unpacking[k] \in Visits
  BY <1>1, WalkIs
<1>3. /\ \A k \in 1 .. n : k # n => VisitOK(lo, unpacking[k], lo[unpacking[k + 1].index])
      /\ \A k \in 1 .. n : k # n => Visited(unpacking[k], unpacking[k + 1])
      /\ VisitOK(lo, v, Len(restored)) /\ unpacking[1].index = entry
  BY <1>1, <1>2 DEF Walked
<1>4. v.index \in DOMAIN modules
  BY <1>3 DEF VisitOK
<1>5. lo[v.index] \in Nat
  BY <1>1, <1>4 DEF Begun
<1> QED BY <1>2, <1>3, <1>4, <1>5

\* The edge a bundled module has come to is the packed module's.
EdgeLeads(lo, v, root, t) ==
  /\ EdgeRoot(unpacking) = root /\ bundle[v.index].imports[First(v.todo)] = t
  /\ t \in DOMAIN modules /\ root \in Nat
  /\ Len(restored) < t => lo[t] = Len(restored)

\* The edge that is followed leads to the module the packed program has there.
LEMMA EdgeFollowed ==
  ASSUME NEW lo, NEW li, Walking(lo, li), NEW v, v = Last(unpacking), v.todo # {}
  PROVE  EdgeLeads(lo, v, NextRoot(v), modules[v.index].imports[NextRoot(v)])
<1> SUFFICES ASSUME NEW n, n = Len(unpacking), NEW R, R = Len(restored),
                    NEW root, root = NextRoot(v), NEW i, i = v.index, NEW t, t = modules[i].imports[root],
                    NEW f, f = modules[i].imports, NEW first, first = First(v.todo),
                    NEW edges, edges = bundle[i].imports, NEW items, items = modules[i].items
             PROVE  EdgeLeads(lo, v, root, t)
  BY Zenon
<1>1. LoadInv /\ UnpackTypeOK /\ Restored /\ Begun(lo, li) /\ Walked(lo) /\ unpacking # <<>>
  BY DEF Walking
<1>2. Packed /\ R \in Nat /\ Last(unpacking) = v /\ DOMAIN modules \subseteq Nat
  BY <1>1, WalkIs
<1>3. i \in DOMAIN modules /\ VisitOK(lo, v, R)
  BY <1>2, InnermostVisit
<1>4. Retraced(v) /\ Latest(R, lo[i], v.imports)
  BY <1>3 DEF VisitOK
<1>5. EdgeIs(v, root, first, f, edges)
  BY <1>1, <1>2, <1>3, <1>4, NextEdge
<1>6. first \in DOMAIN edges /\ edges[first] = f[root] /\ root \in DOMAIN f /\ root \in Nat /\ v.imports = Before(f, root)
  BY <1>5 DEF EdgeIs
<1>7. bundle[i].items = items
  BY <1>1, <1>2, <1>3, BundleIs
<1>8. EdgeRoot(unpacking) = root
  BY <1>2, <1>7 DEF EdgeRoot, NextRoot
<1>9. InTurn(lo, lo[i], f) /\ \A r \in DOMAIN f : f[r] \in DOMAIN modules
  BY <1>1, <1>3, BegunIs
<1>10. t = f[root] /\ t \in DOMAIN modules
  BY <1>6, <1>9
<1>11. ASSUME R < t PROVE lo[t] = R
  <2>1. R \in 0 .. t - 1
    BY <1>2, <1>10, <1>11
  <2>2. Latest(R, lo[i], Before(f, root))
    BY <1>4, <1>6
  <2> QED BY <1>6, <1>9, <1>10, <2>1, <2>2 DEF InTurn
<1> QED BY <1>6, <1>8, <1>10, <1>11 DEF EdgeLeads

\* The edge's module was loaded already.
LEMMA EdgeBound ==
  ASSUME NEW lo, NEW li, Walking(lo, li), NEW n, n = Len(unpacking), NEW v, v = unpacking[n], v.todo # {},
         NEW root, root = NextRoot(v), NEW t, t = modules[v.index].imports[root], t =< Len(restored),
         UNCHANGED <<modules, entry, restored>>, unpacking' = Bound(unpacking, root, t)
  PROVE  unpacking' \in Seq(Visits) /\ unpacking' # <<>> /\ Walked(lo)'
<1> SUFFICES ASSUME NEW bound, bound = Bound(unpacking, root, t), NEW R, R = Len(restored),
                    NEW i, i = v.index, NEW w, w = bound[n]
             PROVE  bound \in Seq(Visits) /\ bound # <<>> /\ Walked(lo)'
  BY Zenon
<1>1. LoadInv /\ UnpackTypeOK /\ Restored /\ Begun(lo, li) /\ Walked(lo) /\ unpacking # <<>>
  BY ONLY Walking(lo, li) DEF Walking
<1>2. /\ n \in Nat /\ n \in 1 .. n /\ Last(unpacking) = v /\ Packed /\ R \in Nat
      /\ \A k \in 1 .. n : k = n \/ (k # n /\ k \in 1 .. n - 1 /\ k + 1 \in 1 .. n)
      /\ DOMAIN modules \subseteq Nat
  <2>1. /\ n \in Nat /\ n \in 1 .. n /\ Last(unpacking) = unpacking[n] /\ Packed /\ R \in Nat
        /\ \A k \in 1 .. n : k = n \/ (k # n /\ k \in 1 .. n - 1 /\ k + 1 \in 1 .. n)
        /\ DOMAIN modules \subseteq Nat
    BY ONLY n = Len(unpacking), R = Len(restored), <1>1, WalkIs
  <2> QED BY ONLY v = unpacking[n], <2>1
<1>3. /\ v \in Visits /\ VisitOK(lo, v, R) /\ lo[i] \in Nat /\ unpacking[1].index = entry
      /\ \A k \in 1 .. n : k # n => VisitOK(lo, unpacking[k], lo[unpacking[k + 1].index])
      /\ \A k \in 1 .. n : k # n => Visited(unpacking[k], unpacking[k + 1])
  <2>1. v = Last(unpacking)
    BY ONLY <1>2
  <2>2. VisitOK(lo, v, Len(restored)) /\ lo[v.index] \in Nat
    BY ONLY Walking(lo, li), n = Len(unpacking), <2>1, InnermostVisit
  <2>3. /\ v \in Visits /\ unpacking[1].index = entry
        /\ \A k \in 1 .. n : k # n => VisitOK(lo, unpacking[k], lo[unpacking[k + 1].index])
        /\ \A k \in 1 .. n : k # n => Visited(unpacking[k], unpacking[k + 1])
    BY ONLY Walking(lo, li), n = Len(unpacking), <2>1, InnermostVisit
  <2> QED BY ONLY i = v.index, R = Len(restored), <2>2, <2>3
<1>4. root \in Nat /\ t \in Nat
  <2>1. v = Last(unpacking)
    BY ONLY <1>2
  <2>2. EdgeLeads(lo, v, root, t)
    BY ONLY Walking(lo, li), v.todo # {}, root = NextRoot(v), t = modules[v.index].imports[root], <2>1, EdgeFollowed
  <2> QED BY ONLY <1>2, <2>2 DEF EdgeLeads
<1>5. /\ bound \in Seq(Visits) /\ Len(bound) = n
      /\ \A k \in 1 .. n - 1 : bound[k] = unpacking[k]
      /\ w.index = i /\ w.todo = v.todo \ {First(v.todo)} /\ w.imports = AlsoBound(v.imports, root, t)
  <2>1. unpacking \in Seq(Visits)
    BY <1>1 DEF UnpackTypeOK
  <2> QED BY ONLY bound = Bound(unpacking, root, t), w = bound[n], i = v.index, n = Len(unpacking),
                  <1>1, <1>2, <1>4, <2>1, VisitsBound
<1>6. VisitOK(lo, w, R)
  <2>1. t = modules[i].imports[root]
    BY ONLY i = v.index, t = modules[v.index].imports[root], Zenon
  <2> QED BY ONLY i = v.index, root = NextRoot(v), v.todo # {}, t =< Len(restored), R = Len(restored),
                  <1>1, <1>2, <1>3, <1>5, <2>1, VisitBinding
<1>7. \A k \in 1 .. n : bound[k].index = unpacking[k].index
  BY ONLY i = v.index, v = unpacking[n], w = bound[n], <1>2, <1>5
<1>8. ASSUME NEW k \in 1 .. n PROVE VisitOK(lo, bound[k], IF k = n THEN R ELSE lo[bound[k + 1].index])
  <2>1. CASE k = n
    BY ONLY w = bound[n], <1>6, <2>1
  <2>2. CASE k # n
    <3>1. bound[k] = unpacking[k] /\ bound[k + 1].index = unpacking[k + 1].index
      BY ONLY k \in 1 .. n, <1>2, <1>5, <1>7, <2>2
    <3>2. VisitOK(lo, unpacking[k], lo[unpacking[k + 1].index])
      BY ONLY k \in 1 .. n, <1>3, <2>2
    <3> QED BY ONLY <2>2, <3>1, <3>2
  <2> QED BY ONLY <2>1, <2>2
<1>9. ASSUME NEW k \in 1 .. n, k # n PROVE Visited(bound[k], bound[k + 1])
  <2>1. bound[k] = unpacking[k] /\ bound[k + 1].index = unpacking[k + 1].index
    BY ONLY k \in 1 .. n, <1>2, <1>5, <1>7, <1>9
  <2>2. Visited(unpacking[k], unpacking[k + 1])
    BY ONLY k \in 1 .. n, <1>3, <1>9
  <2> QED BY ONLY <2>1, <2>2 DEF Visited
<1>10. bound[1].index = entry /\ bound # <<>>
  <2>1. 1 \in 1 .. n
    BY ONLY <1>2, RangeSplit
  <2>2. bound # <<>>
    BY ONLY <1>2, <1>5
  <2> QED BY ONLY <1>3, <1>7, <2>1, <2>2
<1>11. R = Len(restored')
  BY ONLY R = Len(restored), UNCHANGED <<modules, entry, restored>>
<1>12. bound = unpacking' /\ UNCHANGED <<modules, entry>>
  BY ONLY bound = Bound(unpacking, root, t), unpacking' = Bound(unpacking, root, t),
          UNCHANGED <<modules, entry, restored>>
<1> QED BY ONLY <1>5, <1>8, <1>9, <1>10, <1>11, <1>12, WalkedStays

\* The numbers up to n + 1, and their successors.
LEMMA RangeMore ==
  ASSUME NEW n \in Nat, n \in 1 .. n, NEW last, last = n + 1
  PROVE  /\ last # 0 /\ 1 \in 1 .. last /\ 1 # last
         /\ \A k \in 1 .. last - 1 : k \in 1 .. n /\ k + 1 \in 1 .. last /\ (k + 1 = last <=> k = n)
<1>1. last # 0 /\ 1 \in 1 .. last /\ 1 # last
  OBVIOUS
<1>2. \A k \in 1 .. last - 1 : k \in 1 .. n
  OBVIOUS
<1>3. \A k \in 1 .. last - 1 : k + 1 \in 1 .. last
  OBVIOUS
<1>4. \A k \in 1 .. last - 1 : k + 1 = last <=> k = n
  OBVIOUS
<1> QED BY ONLY <1>1, <1>2, <1>3, <1>4

\* The edge's module is yet to be loaded.
LEMMA EdgeVisited ==
  ASSUME NEW lo, NEW li, Walking(lo, li), NEW n, n = Len(unpacking), NEW v, v = unpacking[n], v.todo # {},
         NEW root, root = NextRoot(v), NEW t, t = modules[v.index].imports[root], ~(t =< Len(restored)),
         UNCHANGED <<modules, entry, restored>>, unpacking' = Append(unpacking, Visit(bundle, t))
  PROVE  unpacking' \in Seq(Visits) /\ unpacking' # <<>> /\ Walked(lo)'
<1> SUFFICES ASSUME NEW w, w = Visit(bundle, t), NEW us, us = Append(unpacking, w), NEW R, R = Len(restored),
                    NEW last, last = n + 1
             PROVE  us \in Seq(Visits) /\ us # <<>> /\ Walked(lo)'
  BY Zenon
<1>1. LoadInv /\ UnpackTypeOK /\ Restored /\ Begun(lo, li) /\ Walked(lo) /\ unpacking # <<>>
  BY ONLY Walking(lo, li) DEF Walking
<1>2. /\ n \in Nat /\ n \in 1 .. n /\ Last(unpacking) = v /\ Packed /\ R \in Nat
      /\ DOMAIN modules \subseteq Nat /\ DOMAIN unpacking = 1 .. n
  <2>1. /\ n \in Nat /\ n \in 1 .. n /\ Last(unpacking) = unpacking[n] /\ Packed /\ R \in Nat
        /\ DOMAIN modules \subseteq Nat /\ DOMAIN unpacking = 1 .. n
    BY ONLY n = Len(unpacking), R = Len(restored), <1>1, WalkIs
  <2> QED BY ONLY v = unpacking[n], <2>1
<1>3. /\ VisitOK(lo, v, R) /\ unpacking[1].index = entry
      /\ \A k \in 1 .. n : k # n => VisitOK(lo, unpacking[k], lo[unpacking[k + 1].index])
      /\ \A k \in 1 .. n : k # n => Visited(unpacking[k], unpacking[k + 1])
  <2>1. v = Last(unpacking)
    BY ONLY <1>2
  <2>2. VisitOK(lo, v, Len(restored)) /\ unpacking[1].index = entry
    BY ONLY Walking(lo, li), n = Len(unpacking), <2>1, InnermostVisit
  <2>3. /\ \A k \in 1 .. n : k # n => VisitOK(lo, unpacking[k], lo[unpacking[k + 1].index])
        /\ \A k \in 1 .. n : k # n => Visited(unpacking[k], unpacking[k + 1])
    BY ONLY Walking(lo, li), n = Len(unpacking), <2>1, InnermostVisit
  <2> QED BY ONLY R = Len(restored), <2>2, <2>3
<1>4. EdgeLeads(lo, v, root, t)
  <2>1. v = Last(unpacking)
    BY ONLY <1>2
  <2> QED BY ONLY Walking(lo, li), v.todo # {}, root = NextRoot(v), t = modules[v.index].imports[root], <2>1,
                  EdgeFollowed
<1>5. t \in DOMAIN modules /\ t \in Nat /\ lo[t] = R
  <2>1. t \in DOMAIN modules /\ t \in Nat /\ (R < t => lo[t] = R)
    BY ONLY R = Len(restored), <1>2, <1>4 DEF EdgeLeads
  <2>2. R < t
    BY ONLY R = Len(restored), ~(t =< Len(restored)), <1>2, <2>1
  <2> QED BY ONLY <2>1, <2>2
<1>6. w \in Visits /\ w.index = t /\ VisitOK(lo, w, R)
  <2>1. bundle = [m \in DOMAIN modules |-> Captured(modules[m])]
    BY ONLY <1>2 DEF Packed
  <2>2. lo[t] \in Nat
    BY ONLY <1>2, <1>5
  <2>3. w \in Visits /\ w.index = t /\ VisitOK(lo, w, lo[t])
    BY ONLY w = Visit(bundle, t), <1>1, <1>5, <2>1, <2>2, VisitNew
  <2> QED BY ONLY <1>5, <2>3
<1>7. Visited(v, w)
  BY ONLY v.todo # {}, root = NextRoot(v), t = modules[v.index].imports[root], <1>6 DEF Visited
<1>8. /\ us \in Seq(Visits) /\ Len(us) = last /\ us[last] = w
      /\ \A k \in 1 .. last : k = last \/ (k # last /\ k \in 1 .. last - 1 /\ us[k] = unpacking[k])
  <2>1. unpacking \in Seq(Visits)
    BY ONLY <1>1 DEF UnpackTypeOK
  <2> QED BY ONLY us = Append(unpacking, w), n = Len(unpacking), last = n + 1, <1>6, <2>1, OneMore
<1>9. /\ \A k \in 1 .. last - 1 : k \in 1 .. n /\ k + 1 \in 1 .. last /\ (k + 1 = last <=> k = n)
      /\ 1 \in 1 .. last /\ 1 # last /\ us # <<>>
  <2>1. /\ \A k \in 1 .. last - 1 : k \in 1 .. n /\ k + 1 \in 1 .. last /\ (k + 1 = last <=> k = n)
        /\ 1 \in 1 .. last /\ 1 # last /\ last # 0
    BY ONLY last = n + 1, <1>2, RangeMore
  <2>2. us # <<>>
    BY ONLY <1>8, <2>1
  <2> QED BY ONLY <2>1, <2>2
<1>10. ASSUME NEW k \in 1 .. last, k # last
       PROVE  /\ VisitOK(lo, us[k], lo[us[k + 1].index])
              /\ Visited(us[k], us[k + 1])
  <2>1. k \in 1 .. n /\ us[k] = unpacking[k] /\ k + 1 \in 1 .. last /\ (k + 1 = last <=> k = n)
    BY ONLY k \in 1 .. last, <1>8, <1>9, <1>10
  <2>2. CASE k = n
    <3>1. us[k] = v /\ us[k + 1] = w
      BY ONLY v = unpacking[n], <1>8, <2>1, <2>2
    <3> QED BY ONLY <1>3, <1>5, <1>6, <1>7, <3>1
  <2>3. CASE k # n
    <3>1. us[k + 1] = unpacking[k + 1]
      BY ONLY <1>8, <2>1, <2>3
    <3> QED BY ONLY <1>3, <2>1, <2>3, <3>1
  <2> QED BY ONLY <2>2, <2>3
<1>11. \A k \in 1 .. last : VisitOK(lo, us[k], IF k = last THEN R ELSE lo[us[k + 1].index])
  BY ONLY <1>6, <1>8, <1>10
<1>12. us[1].index = entry
  BY ONLY <1>3, <1>8, <1>9
<1>13. us = unpacking' /\ UNCHANGED <<modules, entry>> /\ R = Len(restored')
  BY ONLY w = Visit(bundle, t), us = Append(unpacking, w), unpacking' = Append(unpacking, Visit(bundle, t)),
          R = Len(restored), UNCHANGED <<modules, entry, restored>>
<1>14. last = Len(us) /\ \A k \in 1 .. last : k # last => Visited(us[k], us[k + 1])
  BY ONLY <1>8, <1>10
<1> QED BY ONLY <1>8, <1>9, <1>11, <1>12, <1>13, <1>14, WalkedStays

\* What has been loaded again stays, while more of the bundle is.
LEMMA RestoredStays ==
  ASSUME Restored, bundle # <<>>, UNCHANGED <<files, modules, entry, bundle, restored, became>>, unpacking' # <<>>
  PROVE  Restored'
<1>1. /\ disk' = disk /\ overlay' = overlay /\ editor' = editor /\ modules' = modules /\ entry' = entry
      /\ bundle' = bundle /\ restored' = restored /\ became' = became
  BY DEF files
<1>2. Sound(main_path)' <=> Sound(main_path)
  BY <1>1 DEF Sound, Readable, Source, main_path, canonicalize
<1>3. Packed' <=> Packed
  BY <1>1 DEF Packed
<1> QED BY <1>1, <1>2, <1>3 DEF Restored

\* While the files stay, so do the sets of visits and modules.
LEMMA ModsStay ==
  ASSUME UNCHANGED files
  PROVE  Visits' = Visits /\ Mods' = Mods
<1>1. Paths' = Paths /\ \A p : Source(p)' = Source(p)
  BY FilesStay
<1> QED BY <1>1 DEF Visits, Mods, ItemLists

\* Following an edge of a bundled module keeps the walk.
LEMMA FollowEdgeKeeps ==
  ASSUME NEW lo, NEW li, Walking(lo, li), FollowEdge
  PROVE  UnpackTypeOK' /\ Restored' /\ Walked(lo)'
<1> SUFFICES ASSUME NEW n, n = Len(unpacking), NEW v, v = Last(unpacking), NEW root, root = NextRoot(v),
                    NEW t, t = modules[v.index].imports[root]
             PROVE  UnpackTypeOK' /\ Restored' /\ Walked(lo)'
  BY Zenon
<1>1. LoadInv /\ UnpackTypeOK /\ Restored /\ Begun(lo, li) /\ Walked(lo) /\ unpacking # <<>>
  BY DEF Walking
<1>2. /\ v = unpacking[n] /\ bundle # <<>> /\ DOMAIN modules \subseteq Nat /\ Len(restored) \in Nat
      /\ DOMAIN became = 1 .. Len(restored) /\ \A i \in 1 .. Len(restored) : became[i] = i
  BY <1>1, WalkIs
<1>3. /\ v.todo # {} /\ UNCHANGED <<files, modules, entry, bundle, restored, became>>
      /\ unpacking' = IF bundle[v.index].imports[First(v.todo)] \in DOMAIN became
                      THEN Bound(unpacking, EdgeRoot(unpacking), became[bundle[v.index].imports[First(v.todo)]])
                      ELSE Append(unpacking, Visit(bundle, bundle[v.index].imports[First(v.todo)]))
  BY DEF FollowEdge, load
<1>4. EdgeLeads(lo, v, root, t)
  BY <1>3, EdgeFollowed
<1>5. /\ EdgeRoot(unpacking) = root /\ bundle[v.index].imports[First(v.todo)] = t /\ t \in Nat
      /\ t \in DOMAIN modules
  BY <1>2, <1>4 DEF EdgeLeads
<1>6. unpacking' = IF t \in DOMAIN became THEN Bound(unpacking, root, became[t]) ELSE Append(unpacking, Visit(bundle, t))
  BY ONLY <1>3, <1>5
<1>7. t # 0
  <2>1. DOMAIN modules = 1 .. Len(modules)
    BY ONLY <1>1, WalkIs
  <2> QED BY ONLY <1>5, <2>1
<1>8. unpacking' \in Seq(Visits) /\ unpacking' # <<>> /\ Walked(lo)'
  <2>0. v = unpacking[n] /\ v.todo # {} /\ UNCHANGED <<modules, entry, restored>>
    BY ONLY <1>2, <1>3
  <2>1. CASE t =< Len(restored)
    <3>1. t \in 1 .. Len(restored)
      BY ONLY <1>2, <1>5, <1>7, <2>1
    <3>2. became[t] = t /\ t \in DOMAIN became
      BY ONLY <1>2, <3>1
    <3>3. unpacking' = Bound(unpacking, root, t)
      BY ONLY <1>6, <3>2
    <3> QED BY ONLY Walking(lo, li), n = Len(unpacking), root = NextRoot(v), t = modules[v.index].imports[root],
                    <2>0, <2>1, <3>3, EdgeBound
  <2>2. CASE ~(t =< Len(restored))
    <3>1. t \notin 1 .. Len(restored)
      BY ONLY <1>2, <1>5, <2>2
    <3>2. unpacking' = Append(unpacking, Visit(bundle, t))
      BY ONLY <1>2, <1>6, <3>1
    <3> QED BY ONLY Walking(lo, li), n = Len(unpacking), root = NextRoot(v), t = modules[v.index].imports[root],
                    <2>0, <2>2, <3>2, EdgeVisited
  <2> QED BY ONLY <2>1, <2>2
<1>9. Restored'
  BY <1>1, <1>2, <1>3, <1>8, RestoredStays
<1>10. UnpackTypeOK'
  <2>1. Visits' = Visits /\ Mods' = Mods
    BY <1>3, ModsStay
  <2> QED BY <1>1, <1>3, <1>8, <2>1 DEF UnpackTypeOK
<1> QED BY <1>8, <1>9, <1>10

\* A bundled module whose edges are all followed is the packed one again.
LEMMA FinishedVisit ==
  ASSUME NEW lo, NEW li, Walking(lo, li), NEW v, v = Last(unpacking), v.todo = {},
         NEW i, i = v.index, NEW R, R = Len(restored)
  PROVE  /\ i \in DOMAIN modules /\ i = R + 1 /\ lo[i] \in Nat /\ lo[i] =< i
         /\ Module(bundle[i].path, bundle[i].items, v.imports) = modules[i]
<1> SUFFICES ASSUME NEW m, m = modules[i], NEW f, f = m.imports, NEW items, items = m.items
             PROVE  /\ i \in DOMAIN modules /\ i = R + 1 /\ lo[i] \in Nat /\ lo[i] =< i
                    /\ Module(bundle[i].path, bundle[i].items, v.imports) = m
  BY Zenon
<1>1. LoadInv /\ UnpackTypeOK /\ Restored /\ Begun(lo, li) /\ Walked(lo) /\ unpacking # <<>>
  BY DEF Walking
<1>2. Packed /\ R \in Nat /\ DOMAIN modules \subseteq Nat
  BY <1>1, WalkIs
<1>3. i \in DOMAIN modules /\ VisitOK(lo, v, R) /\ lo[i] \in Nat
  BY InnermostVisit
<1>4. Retraced(v) /\ Latest(R, lo[i], v.imports)
  BY <1>3 DEF VisitOK
<1>5. Latest(i - 1, lo[i], f) /\ f \in Edges
  BY <1>1, <1>3, BegunIs
<1>6. v.imports = f
  <2>1. v.imports = [r \in {r \in DOMAIN f : PositionOf(items, r) \notin {}} |-> f[r]]
    BY <1>4 DEF Retraced
  <2>2. {r \in DOMAIN f : PositionOf(items, r) \notin {}} = DOMAIN f
    OBVIOUS
  <2>3. f = [r \in DOMAIN f |-> f[r]]
    <3>1. PICK D \in SUBSET Nat : f \in [D -> Nat]
      BY <1>5 DEF Edges
    <3> QED BY <3>1
  <2> QED BY <2>1, <2>2, <2>3
<1>7. R = i - 1
  BY <1>3, <1>4, <1>5, <1>6, LatestIsOne
<1>8. lo[i] =< i - 1
  BY <1>5 DEF Latest
<1>9. bundle[i].path = m.path /\ bundle[i].items = m.items
  BY <1>1, <1>2, <1>3, BundleIs
<1>10. Module(bundle[i].path, bundle[i].items, v.imports) = m
  <2>1. m \in Mods
    BY <1>1, <1>3, Elements DEF LoadInv, LoadTypeOK
  <2>2. m = [path |-> m.path, items |-> m.items, imports |-> m.imports]
    BY <2>1 DEF Mods
  <2> QED BY <1>6, <1>9, <2>2 DEF Module
<1> QED BY <1>2, <1>3, <1>7, <1>8, <1>10

\* The module is one more loaded.
Restores(i, m) ==
  /\ restored' = Append(restored, m)
  /\ became' = [k \in DOMAIN became \cup {i} |-> IF k = i THEN i ELSE became[k]]
  /\ UNCHANGED <<files, modules, entry, bundle>>
  /\ unpacking' = <<>> => i = Len(modules)

\* Loading the next module as it was packed keeps the modules loaded as packed.
LEMMA FinishedRestores ==
  ASSUME NEW lo, NEW li, Walking(lo, li), NEW R, R = Len(restored), NEW i, i = R + 1, i \in DOMAIN modules,
         NEW m, m = modules[i], Restores(i, m)
  PROVE  /\ restored' \in Seq(Mods) /\ Len(restored') = i
         /\ Restored'
<1>1. LoadInv /\ UnpackTypeOK /\ Restored /\ Begun(lo, li) /\ Walked(lo) /\ unpacking # <<>>
  BY ONLY Walking(lo, li) DEF Walking
<1>2. /\ R \in Nat /\ Len(modules) \in Nat /\ DOMAIN modules = 1 .. Len(modules) /\ DOMAIN restored = 1 .. R
      /\ bundle # <<>> /\ DOMAIN became = 1 .. R /\ \A k \in 1 .. R : became[k] = k
  BY <1>1, WalkIs
<1>3. /\ restored' \in Seq(Mods) /\ Len(restored') = i /\ restored'[i] = m /\ DOMAIN restored' = 1 .. i
      /\ \A k \in 1 .. i : k = i \/ (k # i /\ k < i /\ k \in 1 .. R /\ restored'[k] = restored[k])
  <2>1. restored \in Seq(Mods) /\ m \in Mods
    BY <1>1, Elements DEF UnpackTypeOK, LoadInv, LoadTypeOK
  <2>2. R = i - 1
    BY ONLY i = R + 1, <1>2
  <2>3. restored' = Append(restored, m)
    BY DEF Restores
  <2> QED BY ONLY R = Len(restored), i = R + 1, <2>1, <2>2, <2>3, OneMore
<1>4. \A k \in 1 .. i : restored'[k] = modules[k]
  <2>1. \A k \in 1 .. R : restored[k] = modules[k]
    BY ONLY <1>1, <1>2 DEF Restored
  <2> QED BY ONLY i = R + 1, m = modules[i], <1>3, <2>1
<1>5. became' = [k \in 1 .. i |-> k]
  <2>1. 1 .. R \cup {i} = 1 .. i /\ \A k \in 1 .. i : k = i \/ k \in 1 .. R
    BY ONLY i = R + 1, <1>2
  <2>2. became' = [k \in 1 .. i |-> IF k = i THEN i ELSE became[k]]
    <3>1. became' = [k \in DOMAIN became \cup {i} |-> IF k = i THEN i ELSE became[k]]
      BY DEF Restores
    <3>2. DOMAIN became \cup {i} = 1 .. i
      BY ONLY <1>2, <2>1
    <3> QED BY ONLY <3>1, <3>2
  <2>3. \A k \in 1 .. i : (IF k = i THEN i ELSE became[k]) = k
    BY ONLY <1>2, <2>1
  <2> QED BY ONLY <2>2, <2>3
<1>6. i =< Len(modules)
  BY ONLY i \in DOMAIN modules, <1>2
<1>7. /\ disk' = disk /\ overlay' = overlay /\ editor' = editor /\ modules' = modules /\ entry' = entry
      /\ bundle' = bundle /\ (unpacking' = <<>> => i = Len(modules))
  BY DEF files, Restores
<1>8. Sound(main_path)' <=> Sound(main_path)
  <2>1. disk' = disk /\ overlay' = overlay /\ editor' = editor
    BY ONLY <1>7
  <2> QED BY ONLY <2>1 DEF Sound, Readable, Source, main_path, canonicalize
<1>9. Packed' <=> Packed
  BY ONLY <1>7 DEF Packed
<1>10. entry # 0 /\ ~editor /\ Sound(main_path) /\ Packed
  BY ONLY <1>1, <1>2 DEF Restored
<1>11. Restored'
  <2>1. Sound(main_path)' /\ Packed'
    BY ONLY <1>8, <1>9, <1>10
  <2>2. bundle' # <<>> /\ entry' # 0 /\ ~editor'
    BY ONLY <1>2, <1>7, <1>10
  <2>3. Len(restored') =< Len(modules') /\ (unpacking' = <<>> => Len(restored') = Len(modules'))
    BY ONLY <1>3, <1>6, <1>7
  <2>4. /\ \A k \in DOMAIN restored' : restored'[k] = modules'[k]
        /\ became' = [k \in DOMAIN restored' |-> k]
    BY ONLY <1>3, <1>4, <1>5, <1>7
  <2> QED BY ONLY <2>1, <2>2, <2>3, <2>4 DEF Restored
<1> QED BY <1>3, <1>11

\* The module is bound in the one it was loaded for, and the walk goes on there.
LEMMA ParentBound ==
  ASSUME NEW lo, NEW li, Walking(lo, li), NEW n, n = Len(unpacking), n # 1,
         NEW v, v = Last(unpacking), v.todo = {}, NEW i, i = v.index,
         NEW left, left = Front(unpacking), UNCHANGED <<modules, entry>>, Len(restored') = i,
         unpacking' = Bound(left, EdgeRoot(left), i)
  PROVE  unpacking' \in Seq(Visits) /\ unpacking' # <<>> /\ Walked(lo)'
<1> SUFFICES ASSUME NEW up, up = n - 1, NEW u, u = unpacking[up], NEW root, root = NextRoot(u),
                    NEW bound, bound = Bound(left, EdgeRoot(left), i), NEW w, w = bound[up]
             PROVE  bound \in Seq(Visits) /\ bound # <<>> /\ Walked(lo)'
  BY Zenon
<1>1. LoadInv /\ UnpackTypeOK /\ Restored /\ Begun(lo, li) /\ Walked(lo) /\ unpacking # <<>>
  BY DEF Walking
<1>2. /\ n \in Nat /\ n \in 1 .. n /\ Packed /\ DOMAIN modules \subseteq Nat /\ v = unpacking[n]
      /\ \A k \in 1 .. n : unpacking[k] \in Visits
  BY <1>1, WalkIs
<1>3. /\ up \in Nat /\ up \in 1 .. n /\ up \in 1 .. up /\ up + 1 = n /\ up # n /\ up # 0 /\ 1 \in 1 .. up
      /\ \A k \in 1 .. up : /\ k \in 1 .. n /\ k # n
                            /\ k = up \/ (k # up /\ k \in 1 .. up - 1 /\ k + 1 \in 1 .. up)
  BY <1>2
<1>4. /\ unpacking[1].index = entry
      /\ \A k \in 1 .. n : k # n => VisitOK(lo, unpacking[k], lo[unpacking[k + 1].index])
      /\ \A k \in 1 .. n : k # n => Visited(unpacking[k], unpacking[k + 1])
  BY <1>2, InnermostVisit
<1>5. i \in DOMAIN modules /\ lo[i] \in Nat /\ lo[i] =< i
  BY ONLY Walking(lo, li), v = Last(unpacking), v.todo = {}, i = v.index, FinishedVisit
<1>6. u \in Visits /\ VisitOK(lo, u, lo[i]) /\ Visited(u, v)
  BY <1>2, <1>3, <1>4
<1>7. u.todo # {} /\ i = modules[u.index].imports[root] /\ u.index \in DOMAIN modules
  BY <1>6 DEF Visited, VisitOK
<1>8. lo[u.index] \in Nat
  BY <1>1, <1>7 DEF Begun
<1>9. /\ left \in Seq(Visits) /\ Len(left) = up /\ left # <<>> /\ Last(left) = u
      /\ \A k \in 1 .. up : left[k] = unpacking[k]
  <2>1. unpacking \in Seq(Visits)
    BY <1>1 DEF UnpackTypeOK
  <2>2. /\ left \in Seq(Visits) /\ Len(left) = up /\ left # <<>>
        /\ \A k \in 1 .. up : left[k] = unpacking[k]
    BY ONLY left = Front(unpacking), n = Len(unpacking), n # 1, up = n - 1, <1>1, <2>1, FrontIs
  <2>3. Last(left) = left[up]
    BY <2>2, TopReplaced
  <2> QED BY <1>3, <2>2, <2>3
<1>10. EdgeRoot(left) = root
  <2>1. bundle[u.index].items = modules[u.index].items
    BY <1>1, <1>2, <1>7, BundleIs
  <2> QED BY <1>9, <2>1 DEF EdgeRoot, NextRoot
<1>11. root \in Nat
  <2>1. Retraced(u)
    BY <1>6 DEF VisitOK
  <2>2. EdgeIs(u, root, First(u.todo), modules[u.index].imports, bundle[u.index].imports)
    BY ONLY root = NextRoot(u), <1>1, <1>2, <1>7, <2>1, NextEdge
  <2> QED BY <2>2 DEF EdgeIs
<1>12. /\ bound \in Seq(Visits) /\ Len(bound) = up
       /\ \A k \in 1 .. up - 1 : bound[k] = left[k]
       /\ w.index = u.index /\ w.todo = u.todo \ {First(u.todo)} /\ w.imports = AlsoBound(u.imports, root, i)
  <2>1. bound = Bound(left, root, i) /\ i \in Nat
    BY <1>2, <1>5, <1>10
  <2> QED BY ONLY w = bound[up], <1>9, <1>11, <2>1, VisitsBound
<1>13. VisitOK(lo, w, i)
  <2>1. i \in Nat
    BY <1>2, <1>5
  <2> QED BY ONLY root = NextRoot(u), <1>1, <1>2, <1>5, <1>6, <1>7, <1>8, <1>12, <2>1, VisitBinding
<1>14. \A k \in 1 .. up : bound[k].index = unpacking[k].index
  BY <1>3, <1>9, <1>12
<1>15. ASSUME NEW k \in 1 .. up, k # up
       PROVE  VisitOK(lo, bound[k], lo[bound[k + 1].index]) /\ Visited(bound[k], bound[k + 1])
  <2>1. bound[k] = unpacking[k] /\ bound[k + 1].index = unpacking[k + 1].index /\ k \in 1 .. n /\ k # n
    BY <1>3, <1>9, <1>12, <1>14, <1>15
  <2> QED BY <1>4, <2>1 DEF Visited
<1>16. /\ \A k \in 1 .. up : VisitOK(lo, bound[k], IF k = up THEN i ELSE lo[bound[k + 1].index])
       /\ \A k \in 1 .. up : k # up => Visited(bound[k], bound[k + 1])
  BY <1>13, <1>15
<1>17. bound[1].index = entry
  BY <1>3, <1>4, <1>14
<1>18. bound # <<>>
  BY ONLY <1>3, <1>12
<1>19. bound = unpacking' /\ UNCHANGED <<modules, entry>> /\ i = Len(restored') /\ up = Len(bound)
  BY <1>12
<1> QED BY ONLY <1>12, <1>16, <1>17, <1>18, <1>19, WalkedStays

\* Loading a bundled module, whose edges are all followed, keeps the walk.
LEMMA FinishBundledKeeps ==
  ASSUME NEW lo, NEW li, Walking(lo, li), FinishBundled
  PROVE  UnpackTypeOK' /\ Restored' /\ Walked(lo)'
<1> SUFFICES ASSUME NEW n, n = Len(unpacking), NEW v, v = Last(unpacking), NEW i, i = v.index,
                    NEW left, left = Front(unpacking), NEW m, m = modules[i]
             PROVE  UnpackTypeOK' /\ Restored' /\ Walked(lo)'
  BY Zenon
<1>1. LoadInv /\ UnpackTypeOK /\ Restored /\ Begun(lo, li) /\ Walked(lo) /\ unpacking # <<>>
  BY DEF Walking
<1>2. n \in Nat /\ n \in 1 .. n /\ v = unpacking[n] /\ entry = Len(modules) /\ unpacking \in Seq(Visits)
  BY <1>1, WalkIs DEF UnpackTypeOK
<1>3. /\ v.todo = {} /\ UNCHANGED <<files, modules, entry, bundle>>
      /\ restored' = Append(restored, Module(bundle[i].path, bundle[i].items, v.imports))
      /\ became' = [k \in DOMAIN became \cup {i} |-> IF k = i THEN Len(restored) + 1 ELSE became[k]]
      /\ unpacking' = IF left = <<>> THEN <<>> ELSE Bound(left, EdgeRoot(left), Len(restored) + 1)
  BY DEF FinishBundled, load
<1>4. i \in DOMAIN modules /\ i = Len(restored) + 1 /\ Module(bundle[i].path, bundle[i].items, v.imports) = m
  BY ONLY Walking(lo, li), v = Last(unpacking), i = v.index, m = modules[i], <1>3, FinishedVisit
<1>5. left = <<>> <=> n = 1
  BY ONLY n = Len(unpacking), left = Front(unpacking), <1>1, <1>2, FrontIs
<1>6. restored' = Append(restored, m) /\ Len(restored') = i
  <2>1. restored \in Seq(Mods)
    BY <1>1 DEF UnpackTypeOK
  <2> SUFFICES ASSUME NEW more, more = Append(restored, m) PROVE Len(more) = i
    BY <1>3, <1>4
  <2> QED BY ONLY more = Append(restored, m), <1>4, <2>1, AppendProperties
<1>7. unpacking' \in Seq(Visits) /\ Walked(lo)' /\ (unpacking' = <<>> => i = Len(modules))
  <2>1. CASE n = 1
    <3>1. unpacking' = <<>>
      BY <1>3, <1>5, <2>1
    <3>2. DOMAIN unpacking' = {} /\ unpacking' \in Seq(Visits)
      BY <3>1
    <3>3. Walked(lo)'
      BY <3>1, <3>2 DEF Walked
    <3>4. i = entry
      BY <1>2, <2>1, InnermostVisit
    <3> QED BY <1>2, <3>2, <3>3, <3>4
  <2>2. CASE n # 1
    <3>1. unpacking' = Bound(left, EdgeRoot(left), i)
      BY <1>3, <1>4, <1>5, <2>2
    <3>2. unpacking' \in Seq(Visits) /\ unpacking' # <<>> /\ Walked(lo)'
      BY ONLY Walking(lo, li), n = Len(unpacking), v = Last(unpacking), i = v.index, left = Front(unpacking),
              <1>3, <1>6, <2>2, <3>1, ParentBound
    <3> QED BY <3>2
  <2> QED BY <2>1, <2>2
<1>8. Restores(i, m)
  BY <1>3, <1>4, <1>6, <1>7 DEF Restores
<1>9. restored' \in Seq(Mods) /\ Restored'
  <2> SUFFICES ASSUME NEW R, R = Len(restored) PROVE restored' \in Seq(Mods) /\ Restored'
    OBVIOUS
  <2>1. i = R + 1 /\ i \in DOMAIN modules
    BY <1>4
  <2> QED BY ONLY Walking(lo, li), R = Len(restored), m = modules[i], <2>1, <1>8, FinishedRestores
<1>10. UnpackTypeOK'
  <2>1. Visits' = Visits /\ Mods' = Mods
    BY <1>3, ModsStay
  <2> QED BY <1>7, <1>9, <2>1 DEF UnpackTypeOK
<1> QED BY <1>7, <1>9, <1>10

\* Nothing is unpacked before the program is packed.
LEMMA NotYetPacked ==
  ASSUME Restored, bundle = <<>>
  PROVE  unpacking = <<>> /\ restored = <<>> /\ Len(restored) = 0 /\ DOMAIN restored = {} /\ became = NoImports
<1>1. unpacking = <<>> /\ restored = <<>> /\ became = [i \in DOMAIN restored |-> i]
  BY DEF Restored
<1>2. Len(restored) = 0 /\ DOMAIN restored = {}
  BY <1>1
<1>3. [i \in {} |-> i] = [root \in {} |-> 0]
  OBVIOUS
<1> QED BY <1>1, <1>2, <1>3 DEF NoImports

\* Packing the program begins the walk at its entry.
LEMMA PackKeeps ==
  ASSUME LoadInv, UnpackTypeOK, Restored, NEW lo, NEW li, Begun(lo, li), Pack
  PROVE  UnpackTypeOK' /\ Restored' /\ Walked(lo)'
<1> SUFFICES ASSUME NEW b, b = [i \in DOMAIN modules |-> Captured(modules[i])], NEW v, v = Visit(b, entry)
             PROVE  UnpackTypeOK' /\ Restored' /\ Walked(lo)'
  BY Zenon
<1>1. /\ entry # 0 /\ bundle = <<>> /\ ~editor /\ Sound(main_path) /\ bundle' = b /\ unpacking' = <<v>>
      /\ UNCHANGED <<files, modules, entry, restored, became>>
  BY DEF Pack, load, main_path
<1>2. restored = <<>> /\ Len(restored) = 0 /\ DOMAIN restored = {} /\ became = NoImports
  BY <1>1, NotYetPacked
<1>3. /\ entry = Len(modules) /\ entry \in DOMAIN modules /\ lo[entry] = 0
      /\ Len(modules) \in Nat /\ DOMAIN modules = 1 .. Len(modules)
  <2>1. entry = Len(modules)
    BY <1>1 DEF LoadInv, EntryOK
  <2>2. /\ Len(modules) \in Nat /\ DOMAIN modules = 1 .. Len(modules) /\ lo[entry] = 0
    BY <1>1, BegunIs
  <2> QED BY <1>1, <2>1, <2>2
<1>4. v \in Visits /\ v.index = entry /\ VisitOK(lo, v, lo[entry])
  BY ONLY b = [i \in DOMAIN modules |-> Captured(modules[i])], v = Visit(b, entry), LoadInv, <1>3, VisitNew
<1>5. Walked(lo)'
  <2> SUFFICES ASSUME NEW us, us = <<v>>, NEW n, n = 1, NEW c, c = 0 PROVE Walked(lo)'
    OBVIOUS
  <2>1. us \in Seq(Visits) /\ n = Len(us) /\ us[1] = v
    BY ONLY us = <<v>>, n = 1, <1>4
  <2>2. /\ \A k \in 1 .. n : VisitOK(lo, us[k], IF k = n THEN c ELSE lo[us[k + 1].index])
        /\ \A k \in 1 .. n : k # n => Visited(us[k], us[k + 1])
        /\ us[1].index = entry
    <3>1. \A k \in 1 .. n : k = 1 /\ k = n
      BY ONLY n = 1
    <3>2. VisitOK(lo, us[1], c) /\ us[1].index = entry
      BY ONLY c = 0, <1>3, <1>4, <2>1
    <3> QED BY ONLY <3>1, <3>2
  <2>3. us = unpacking' /\ UNCHANGED <<modules, entry>> /\ c = Len(restored')
    BY <1>1, <1>2
  <2> QED BY ONLY <2>1, <2>2, <2>3, WalkedStays
<1>6. Restored'
  <2>1. /\ disk' = disk /\ overlay' = overlay /\ editor' = editor /\ modules' = modules /\ entry' = entry
        /\ restored' = restored /\ became' = became
    BY <1>1 DEF files
  <2>2. Sound(main_path)' <=> Sound(main_path)
    BY <2>1 DEF Sound, Readable, Source, main_path, canonicalize
  <2>3. bundle' # <<>> /\ unpacking' # <<>>
    <3>1. DOMAIN b = DOMAIN modules /\ DOMAIN b # {}
      BY <1>3
    <3>2. b # <<>>
      BY ONLY <3>1
    <3> QED BY <1>1, <3>2
  <2>4. Packed'
    BY <1>1, <2>1 DEF Packed
  <2>5. became = [i \in DOMAIN restored |-> i]
    BY DEF Restored
  <2> QED BY <1>1, <1>2, <1>3, <2>1, <2>2, <2>3, <2>4, <2>5 DEF Restored
<1>7. UnpackTypeOK'
  <2>1. Visits' = Visits /\ Mods' = Mods
    BY <1>1, ModsStay
  <2>2. unpacking' \in Seq(Visits)
    BY <1>1, <1>4
  <2> QED BY <1>1, <2>1, <2>2 DEF UnpackTypeOK
<1> QED BY <1>5, <1>6, <1>7

-----------------------------------------------------------------------------
(* Every step.                                                               *)

\* A load leaves what there is of a bundle, which is nothing yet.
LEMMA NothingUnpacked ==
  ASSUME LoadInv, UnpackTypeOK, Restored, LoadEntry \/ FollowImport \/ FinishFile, LoadInv'
  PROVE  UnpackTypeOK' /\ Restored' /\ \A new : Walked(new)'
<1>1. bundle = <<>>
  <2>1. entry = 0
    BY DEF LoadInv, StackOK, LoadEntry, FollowImport, FinishFile
  <2> QED BY <2>1 DEF Restored
<1>2. UNCHANGED files /\ bundle' = bundle /\ unpacking' = unpacking /\ restored' = restored /\ became' = became
  BY DEF LoadEntry, FollowImport, FinishFile, unpack
<1>3. unpacking = <<>> /\ restored = <<>> /\ Len(restored) = 0 /\ DOMAIN restored = {} /\ became = NoImports
  BY <1>1, NotYetPacked
<1>4. became = [i \in DOMAIN restored |-> i]
  BY DEF Restored
<1>5. Len(modules') \in Nat
  BY DEF LoadInv, LoadTypeOK
<1>6. Restored'
  BY <1>1, <1>2, <1>3, <1>4, <1>5 DEF Restored
<1>7. UnpackTypeOK'
  <2>1. Visits' = Visits /\ Mods' = Mods
    BY <1>2, ModsStay
  <2> QED BY <1>2, <2>1 DEF UnpackTypeOK
<1>8. \A new : Walked(new)'
  <2>1. unpacking' = <<>> /\ DOMAIN unpacking' = {}
    BY <1>2, <1>3
  <2> QED BY <2>1 DEF Walked
<1> QED BY <1>6, <1>7, <1>8

\* The order depends on the modules and the files being loaded only.
LEMMA BegunStays ==
  ASSUME NEW lo, NEW li, Begun(lo, li), UNCHANGED <<modules, loading, entry>>
  PROVE  Begun(lo, li)'
BY DEF Begun, Numbered

\* A state in which nothing is done is a state in which nothing has changed.
LEMMA LoaderStays ==
  ASSUME LoaderInv, UNCHANGED loader
  PROVE  LoaderInv'
<1>1. /\ UNCHANGED <<files, load>> /\ modules' = modules /\ loading' = loading /\ entry' = entry
      /\ bundle' = bundle /\ unpacking' = unpacking /\ restored' = restored /\ became' = became
  BY DEF loader, load, unpack
<1>2. disk' = disk /\ overlay' = overlay /\ editor' = editor
  BY <1>1 DEF files
<1>3. LoadInv'
  BY <1>1, LoadStays DEF LoaderInv
<1>4. UnpackTypeOK'
  <2>1. Visits' = Visits /\ Mods' = Mods
    BY <1>1, ModsStay
  <2> QED BY <1>1, <2>1 DEF LoaderInv, UnpackTypeOK
<1>5. Restored'
  <2>1. Sound(main_path)' <=> Sound(main_path)
    BY <1>2 DEF Sound, Readable, Source, main_path, canonicalize
  <2>2. Packed' <=> Packed
    BY <1>1 DEF Packed
  <2> QED BY <1>1, <1>2, <2>1, <2>2 DEF LoaderInv, Restored
<1>6. OrderInv'
  <2>1. PICK lo, li : Begun(lo, li) /\ Walked(lo)
    BY DEF LoaderInv, OrderInv
  <2>2. Begun(lo, li)'
    BY <1>1, <2>1, BegunStays
  <2>3. Walked(lo)'
    <3>1. \A v : (Retraced(v)' <=> Retraced(v)) /\ NextRoot(v)' = NextRoot(v)
      BY <1>1 DEF Retraced, NextRoot
    <3>2. /\ \A v, c : VisitOK(lo, v, c)' <=> VisitOK(lo, v, c)
          /\ \A v, w : Visited(v, w)' <=> Visited(v, w)
      BY <1>1, <3>1 DEF VisitOK, Visited
    <3> QED BY ONLY <1>1, <2>1, <3>2 DEF Walked
  <2> QED BY <2>2, <2>3 DEF OrderInv
<1> QED BY <1>3, <1>4, <1>5, <1>6 DEF LoaderInv

\* The initial states satisfy the invariant.
LEMMA LoaderBegins ==
  ASSUME LoaderInit
  PROVE  LoaderInv
<1>1. /\ loading = <<>> /\ modules = <<>> /\ entry = 0
      /\ bundle = <<>> /\ unpacking = <<>> /\ restored = <<>> /\ became = NoImports
  BY DEF LoaderInit
<1>2. LoadInv
  BY LoadInit
<1>3. UnpackTypeOK
  BY <1>1 DEF UnpackTypeOK
<1>4. Restored
  <2>1. DOMAIN restored = {} /\ Len(restored) = 0 /\ Len(modules) = 0
    BY <1>1
  <2>2. [i \in {} |-> i] = NoImports
    BY DEF NoImports
  <2> QED BY <1>1, <2>1, <2>2 DEF Restored
<1>5. OrderInv
  <2> SUFFICES ASSUME NEW none, none = [k \in {} |-> 0] PROVE Begun(none, none) /\ Walked(none)
    BY DEF OrderInv
  <2>1. none \in [{} -> Nat] /\ DOMAIN modules = {} /\ DOMAIN loading = {} /\ DOMAIN unpacking = {}
    BY <1>1
  <2> QED BY <1>1, <2>1 DEF Begun, Numbered, Walked
<1> QED BY <1>2, <1>3, <1>4, <1>5 DEF LoaderInv

\* Every step keeps the invariant.
LEMMA LoaderStep ==
  ASSUME LoaderInv, LoaderNext
  PROVE  LoaderInv'
<1>1. LoadInv /\ UnpackTypeOK /\ Restored
  BY DEF LoaderInv
<1>2. PICK lo, li : Begun(lo, li) /\ Walked(lo)
  BY DEF LoaderInv, OrderInv
<1>3. CASE LoadEntry \/ FollowImport \/ FinishFile
  <2>1. LoadInv'
    BY <1>1, <1>3, LoadEntryKeeps, FollowImportKeeps, FinishFileKeeps
  <2>2. UnpackTypeOK' /\ Restored' /\ \A new : Walked(new)'
    BY <1>1, <1>3, <2>1, NothingUnpacked
  <2>3. \E new, left : Begun(new, left)'
    BY <1>1, <1>2, <1>3, LoadBegun
  <2>4. OrderInv'
    BY <2>2, <2>3 DEF OrderInv
  <2> QED BY <2>1, <2>2, <2>4 DEF LoaderInv
<1>4. CASE Pack \/ FollowEdge \/ FinishBundled
  <2>1. UNCHANGED <<files, load>>
    BY <1>4 DEF Pack, FollowEdge, FinishBundled
  <2>2. LoadInv'
    BY <1>1, <2>1, LoadStays
  <2>3. Begun(lo, li)'
    <3>1. UNCHANGED <<modules, loading, entry>>
      BY <2>1 DEF load
    <3> QED BY <1>2, <3>1, BegunStays
  <2>4. UnpackTypeOK' /\ Restored' /\ Walked(lo)'
    <3>1. CASE Pack
      BY <1>1, <1>2, <3>1, PackKeeps
    <3>2. CASE FollowEdge
      <4>1. Walking(lo, li)
        BY <1>1, <1>2, <3>2 DEF Walking, FollowEdge
      <4> QED BY <3>2, <4>1, FollowEdgeKeeps
    <3>3. CASE FinishBundled
      <4>1. Walking(lo, li)
        BY <1>1, <1>2, <3>3 DEF Walking, FinishBundled
      <4> QED BY <3>3, <4>1, FinishBundledKeeps
    <3> QED BY <1>4, <3>1, <3>2, <3>3
  <2>5. OrderInv'
    BY <2>3, <2>4 DEF OrderInv
  <2> QED BY <2>2, <2>4, <2>5 DEF LoaderInv
<1> QED BY <1>3, <1>4 DEF LoaderNext

\* The loader's invariant (brasa_module/lib.rs, load_file and load_imports, and
\* bundle.rs, load_module): the files being loaded import one another from the
\* entry on, each import followed is bound to the module it stands for or was
\* reported, no file is met twice, and the modules are in the order a walk through
\* the bundle finds them in.
THEOREM LoaderInvariance == LoaderSpec => []LoaderInv
<1>1. LoaderInit => LoaderInv
  BY LoaderBegins
<1>2. LoaderInv /\ [LoaderNext]_loader => LoaderInv'
  BY LoaderStep, LoaderStays
<1> QED BY <1>1, <1>2, PTL DEF LoaderSpec

\* What was packed comes back as it was.
LEMMA RestoredComesBack ==
  ASSUME LoaderInv
  PROVE  ComesBack
<1> SUFFICES ASSUME restored # <<>>, unpacking = <<>> PROVE restored = modules
  BY DEF ComesBack
<1>1. restored \in Seq(Mods) /\ modules \in Seq(Mods)
  BY DEF LoaderInv, UnpackTypeOK, LoadInv, LoadTypeOK
<1>2. Len(restored) = Len(modules) /\ \A i \in DOMAIN restored : restored[i] = modules[i]
  BY DEF LoaderInv, Restored
<1>3. DOMAIN restored = 1 .. Len(restored)
  BY <1>1, LenProperties
<1> QED BY <1>1, <1>2, <1>3, SeqEqual

\* Whatever the files, the manifest and the editor's buffers are: a program loaded
\* has no file twice and every module after those it imports, which are what its
\* imports stand for; unless a chain was cut for its depth the modules are the
\* files reached, and something is reported exactly when one is missing, does not
\* parse or reaches itself; and packed into a bundle, it comes back as it was.
THEOREM LoadsAreExact == LoaderSpec => []LoadIsExact
<1>1. ASSUME LoaderInv PROVE LoadIsExact
  <2>1. LoadInv
    BY <1>1 DEF LoaderInv
  <2>2. ComesBack
    BY <1>1, RestoredComesBack
  <2>3. entry # 0 => InOrder /\ AllReached
    BY <2>1, LoadedInOrder, LoadedAll
  <2> QED BY <2>2, <2>3 DEF LoadIsExact
<1> QED BY <1>1, LoaderInvariance, PTL

=============================================================================
