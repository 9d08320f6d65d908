---------------------------- MODULE ModuleLoader ----------------------------
(***************************************************************************)
(* From one entry file to every module it reaches (brasa_module/lib.rs),   *)
(* and the program packed into a bundle and loaded again (bundle.rs).      *)
(*                                                                         *)
(* A path is a directory and a name of one or more segments.  A source     *)
(* parses or not and has items: <<"other">>, which names no file,          *)
(* <<"relative", name>>, or <<"search", segments>>.  An item is known by   *)
(* its position, and the imports of a module are followed in that order.   *)
(***************************************************************************)
EXTENDS Integers, Sequences, FiniteSets, SequencesExt

CONSTANTS
  Disks,             \* the contents of the disk: per path of a file, its source
  Overlays,          \* the unsaved buffers of an editor, likewise
  Entry,             \* the file to load
  Links,             \* per symbolic link, the path it stands for
  Aliases,           \* per alias of the manifest, its directory
  SearchPath,        \* the directories a :: import is looked for in
  MAX_IMPORT_DEPTH

Written(source) ==
  /\ source.parses \in BOOLEAN
  /\ Len(source.items) \in Nat /\ DOMAIN source.items = 1 .. Len(source.items)
  /\ \A i \in DOMAIN source.items :
       LET item == source.items[i]
       IN  item # <<"other">> =>
             \/ item[1] = "relative"
             \/ item[1] = "search" /\ item[2] \in Seq(STRING) \ {<<>>}
ASSUME LoaderAssumption ==
  /\ \A contents \in Disks \cup Overlays : \A p \in DOMAIN contents : Written(contents[p])
  /\ SearchPath \in Seq(STRING)
  /\ MAX_IMPORT_DEPTH \in Nat

\* loading: the files being loaded, the innermost last, each with the imports
\* still to follow and the modules found for those followed.
VARIABLES disk, overlay, editor, loading, modules, diagnostics, entry

\* A program packed, the modules of it being loaded again, likewise, those
\* loaded, and per module of the bundle the one it became.
VARIABLES bundle, unpacking, restored, became

files == <<disk, overlay, editor>>
load == <<loading, modules, diagnostics, entry>>
unpack == <<bundle, unpacking, restored, became>>
loader == <<files, load, unpack>>

Path(dir, name) == <<dir, name>>
canonicalize(p) == IF p \in DOMAIN Links /\ Links[p] \in DOMAIN disk THEN Links[p] ELSE p
IsFile(p) == canonicalize(p) \in DOMAIN disk

\* The buffer wins over the file.
Readable(p) == p \in DOMAIN overlay \cup DOMAIN disk
Source(p) == IF p \in DOMAIN overlay THEN overlay[p] ELSE disk[p]
file_import_roots(items) == {i \in DOMAIN items : items[i] # <<"other">>}

\* The editor's loads know of no manifest.
KnownAliases == IF editor THEN {} ELSE DOMAIN Aliases

\* resolve_request: the paths an import may stand for, in order.
Places(importer, item) ==
  IF item[1] = "relative" THEN <<Path(importer[1], item[2])>>
  ELSE IF Head(item[2]) \notin KnownAliases
  THEN [i \in DOMAIN SearchPath |-> Path(SearchPath[i], item[2])]
  ELSE IF Tail(item[2]) = <<>> THEN <<>>
  ELSE <<Path(Aliases[Head(item[2])], Tail(item[2]))>>

\* A relative import names its path whether or not there is a file; the others
\* the first file there is.  A set of one path, or of none.
Chosen(item, places, n) ==
  \/ item[1] = "relative"
  \/ IsFile(places[n]) /\ \A k \in 1 .. n - 1 : ~IsFile(places[k])
Named(importer, item) ==
  LET places == Places(importer, item)
  IN  {canonicalize(places[n]) : n \in {n \in DOMAIN places : Chosen(item, places, n)}}

IndexOf(p) == CHOOSE i \in DOMAIN modules : modules[i].path = p
Loaded(p) == \E i \in DOMAIN modules : modules[i].path = p
Module(path, items, imports) == [path |-> path, items |-> items, imports |-> imports]
NoImports == [root \in {} |-> 0]
Frame(p) == [path |-> p, todo |-> file_import_roots(Source(p).items), imports |-> NoImports]

\* Faulty variant: only a file that imports itself is on a cycle.
BeingLoaded_Innermost(p) == Last(loading).path = p
BeingLoaded(p) == \E i \in DOMAIN loading : loading[i].path = p

\* The next import of the innermost frame, and the frames once it is followed,
\* without a module or with one.
First(todo) == CHOOSE i \in todo : \A j \in todo : i =< j
Skipped(stack) ==
  LET top == Last(stack)
  IN  [stack EXCEPT ![Len(stack)] = [top EXCEPT !.todo = top.todo \ {First(top.todo)}]]
Bound(stack, root, ix) ==
  LET left == Skipped(stack)
      top == Last(left)
      imports == [r \in DOMAIN top.imports \cup {root} |-> IF r = root THEN ix ELSE top.imports[r]]
  IN  [left EXCEPT ![Len(left)] = [top EXCEPT !.imports = imports]]

LoaderInit ==
  /\ disk \in Disks /\ editor \in BOOLEAN
  /\ overlay \in IF editor THEN Overlays ELSE {<<>>}
  /\ loading = <<>> /\ modules = <<>> /\ diagnostics = {} /\ entry = 0
  /\ bundle = <<>> /\ unpacking = <<>> /\ restored = <<>> /\ became = NoImports

-----------------------------------------------------------------------------
\* load_file for a path not loaded yet: what it reports, asked for by an import
\* or by none, and whether there will be a module.
Sound(p) == Readable(p) /\ (editor \/ Source(p).parses)
Reports(p, asked) ==
  (IF Readable(p) /\ ~Source(p).parses THEN {<<"parse", p>>} ELSE {})
    \cup {<<"unreadable", by>> : by \in IF Readable(p) THEN {} ELSE asked}

LoadEntry ==
  /\ loading = <<>> /\ entry = 0
  /\ LET p == canonicalize(Entry)
     IN  /\ diagnostics' = diagnostics \cup Reports(p, {})
         /\ IF Sound(p)
            THEN loading' = <<Frame(p)>> /\ UNCHANGED <<modules, entry>>
            ELSE modules' = <<Module(p, <<>>, NoImports)>> /\ entry' = 1 /\ UNCHANGED loading
  /\ UNCHANGED <<files, unpack>>

\* One import of the innermost file.
FollowImport ==
  /\ loading # <<>> /\ Last(loading).todo # {}
  /\ LET frame == Last(loading)
         root == First(frame.todo)
         named == Named(frame.path, Source(frame.path).items[root])
         refused(code) ==
           /\ diagnostics' = diagnostics \cup {<<code, frame.path, root>>}
           /\ loading' = Skipped(loading)
     IN  IF Len(loading) > MAX_IMPORT_DEPTH THEN refused("too deep")
         ELSE IF named = {} THEN refused("not found")
         ELSE \E target \in named :
                IF BeingLoaded(target) THEN refused("cycle")
                ELSE IF Loaded(target)
                THEN loading' = Bound(loading, root, IndexOf(target)) /\ UNCHANGED diagnostics
                ELSE /\ diagnostics' = diagnostics \cup Reports(target, {<<frame.path, root>>})
                     /\ loading' = IF Sound(target) THEN Append(loading, Frame(target)) ELSE Skipped(loading)
  /\ UNCHANGED <<files, modules, entry, unpack>>

\* The innermost file has followed all its imports.
FinishFile ==
  /\ loading # <<>> /\ Last(loading).todo = {}
  /\ LET frame == Last(loading)
         ix == Len(modules) + 1
         left == Front(loading)
     IN  /\ modules' = Append(modules, Module(frame.path, Source(frame.path).items, frame.imports))
         /\ IF left = <<>>
            THEN entry' = ix /\ loading' = <<>>
            ELSE loading' = Bound(left, First(Last(left).todo), ix) /\ UNCHANGED entry
  /\ UNCHANGED <<files, diagnostics, unpack>>

-----------------------------------------------------------------------------
\* Bundle::capture: an edge is kept by its position among the imports that
\* name files.
PositionOf(items, root) == Cardinality({r \in file_import_roots(items) : r < root})
RootAt(items, position) ==
  CHOOSE root \in file_import_roots(items) : PositionOf(items, root) = position
Captured(m) ==
  [path |-> m.path, items |-> m.items,
   imports |-> [n \in {PositionOf(m.items, root) : root \in DOMAIN m.imports} |->
                  m.imports[RootAt(m.items, n)]]]

\* bundle::load: the stored graph, walked as the files were.
Visit(bundled, index) ==
  [index |-> index, todo |-> DOMAIN bundled[index].imports, imports |-> NoImports]

\* A program is packed, and begun to be loaded elsewhere.  The command line packs
\* what it loaded, and only when it compiles too: here one with holes may be.
Pack ==
  /\ entry # 0 /\ bundle = <<>> /\ ~editor /\ Sound(canonicalize(Entry))
  /\ bundle' = [i \in DOMAIN modules |-> Captured(modules[i])]
  /\ unpacking' = <<Visit(bundle', entry)>>
  /\ UNCHANGED <<files, load, restored, became>>

\* The import the innermost module follows next.
EdgeRoot(stack) == RootAt(bundle[Last(stack).index].items, First(Last(stack).todo))

FollowEdge ==
  /\ unpacking # <<>> /\ Last(unpacking).todo # {}
  /\ LET frame == Last(unpacking)
         target == bundle[frame.index].imports[First(frame.todo)]
     IN  unpacking' = IF target \in DOMAIN became
                      THEN Bound(unpacking, EdgeRoot(unpacking), became[target])
                      ELSE Append(unpacking, Visit(bundle, target))
  /\ UNCHANGED <<files, load, bundle, restored, became>>

FinishBundled ==
  /\ unpacking # <<>> /\ Last(unpacking).todo = {}
  /\ LET frame == Last(unpacking)
         bundled == bundle[frame.index]
         ix == Len(restored) + 1
         left == Front(unpacking)
     IN  /\ restored' = Append(restored, Module(bundled.path, bundled.items, frame.imports))
         /\ became' = [i \in DOMAIN became \cup {frame.index} |->
                         IF i = frame.index THEN ix ELSE became[i]]
         /\ unpacking' = IF left = <<>> THEN <<>> ELSE Bound(left, EdgeRoot(left), ix)
  /\ UNCHANGED <<files, load, bundle>>

LoaderNext ==
  \/ LoadEntry \/ FollowImport \/ FinishFile
  \/ Pack \/ FollowEdge \/ FinishBundled
LoaderSpec == LoaderInit /\ [][LoaderNext]_loader

-----------------------------------------------------------------------------
main_path == canonicalize(Entry)
Items(p) == IF Sound(p) THEN file_import_roots(Source(p).items) ELSE {}

\* The file an import stands for, if there is one: the one beside its file, the
\* one in the directory of its alias and no other, or the first of the search
\* path's, symbolic links followed.
StandsFor(p, item, q) ==
  LET segments == item[2]
      aliased == item[1] = "search" /\ ~editor /\ segments[1] \in DOMAIN Aliases
      at(dir) == IsFile(Path(dir, segments)) /\ q = canonicalize(Path(dir, segments))
  IN  \/ item[1] = "relative" /\ q = canonicalize(Path(p[1], segments))
      \/ /\ aliased /\ Len(segments) > 1
         /\ IsFile(Path(Aliases[segments[1]], Tail(segments)))
         /\ q = canonicalize(Path(Aliases[segments[1]], Tail(segments)))
      \/ /\ item[1] = "search" /\ ~aliased
         /\ \E n \in DOMAIN SearchPath :
              at(SearchPath[n]) /\ \A k \in 1 .. n - 1 : ~IsFile(Path(SearchPath[k], segments))
Known == DOMAIN disk \cup DOMAIN overlay \cup DOMAIN Links
Target(p, i) == {q \in Known : StandsFor(p, Source(p).items[i], q)}
Targets(p) == UNION {Target(p, i) : i \in Items(p)}

\* The files reached from one: in every set that has it and what its files import.
Reach(p) ==
  {q \in Known \cup {main_path} :
     \A S \in SUBSET (Known \cup {main_path}) :
       p \in S /\ (\A r \in S : Targets(r) \subseteq S) => q \in S}

\* So many files, each importing the next, that the last one's imports are refused.
TooLong ==
  \E chain \in [1 .. MAX_IMPORT_DEPTH + 1 -> Known \cup {main_path}] :
    /\ chain[1] = main_path /\ Items(chain[MAX_IMPORT_DEPTH + 1]) # {}
    /\ \A n \in 1 .. MAX_IMPORT_DEPTH : chain[n + 1] \in Targets(chain[n])
    /\ \A n, k \in DOMAIN chain : chain[n] = chain[k] => n = k
Cut == \E d \in diagnostics : d[1] = "too deep"

\* A file is missing or does not parse, or reaches itself.
Flawed ==
  \E p \in Reach(main_path) :
    \/ Readable(p) /\ ~Source(p).parses
    \/ p # main_path /\ ~Readable(p)
    \/ \E i \in Items(p) : Target(p, i) = {}
    \/ \E q \in Targets(p) : p \in Reach(q)

(***************************************************************************)
(* What a load leaves.  No file is two modules, and every module comes     *)
(* after those it imports, which are the files its imports stand for; with *)
(* no chain cut for its depth, the modules are the files reached, and      *)
(* something is reported exactly when a file is missing or does not parse, *)
(* or one reaches itself; a chain is cut only if it is too long.  Packed   *)
(* into a bundle, what the command line loaded comes back as it was.       *)
(***************************************************************************)
InOrder ==
  /\ modules[entry].path = main_path /\ entry = Len(modules)
  /\ \A i, j \in DOMAIN modules : modules[i].path = modules[j].path => i = j
  /\ \A i \in DOMAIN modules : \A root \in DOMAIN modules[i].imports :
       LET target == modules[i].imports[root]
       IN  target < i /\ Target(modules[i].path, root) = {modules[target].path}
AllReached ==
  /\ Cut => TooLong
  /\ ~Cut =>
       /\ {modules[i].path : i \in DOMAIN modules} = {p \in Reach(main_path) : Sound(p)} \cup {main_path}
       /\ diagnostics = {} <=> ~Flawed
ComesBack == restored # <<>> /\ unpacking = <<>> => restored = modules

LoadIsExact == entry # 0 => InOrder /\ AllReached /\ ComesBack
=============================================================================
