---------------------------- MODULE ModuleLoader ----------------------------
(***************************************************************************)
(* How `use` lines bring the declarations of other files into a program:   *)
(* the first half of SemanticAnalyzer::check.  A stack of import paths is  *)
(* worked off; each path names a module, or a module and one symbol of it; *)
(* what it asks for is appended to the program once, and the `use` lines   *)
(* of a module that is imported whole are pushed in turn.                  *)
(*                                                                         *)
(* A path is the sequence of its names.  Of a declaration only its kind,   *)
(* its name, the names its signature mentions, and the path of a `use` are *)
(* kept.  Inheritance takes over from the class table this module leaves.  *)
(***************************************************************************)
EXTENDS Integers, SequencesExt, FiniteSetsExt

CONSTANTS
  Std,       \* the embedded library: module path (in lower case) -> declarations
  Programs,  \* the inputs: [main |-> declarations, files |-> path -> declarations]
  Lower,     \* Lower[n]: the name n in lower case
  Unparsable \* the content of a file that is not a gum program

Whole == "(the whole module)"
Kinds == {"use", "class", "interface", "enum", "function"}
Names == DOMAIN Lower
Paths == Seq(Names)
Declaration == [kind : Kinds, name : Names, mentions : SUBSET Names, path : Paths]

ASSUME LoaderAssumption ==
  /\ IsFiniteSet(DOMAIN Std)
  /\ \A m \in DOMAIN Std : m \in Paths /\ Std[m] \in Seq(Declaration)
  /\ Lower \in [Names -> Names] /\ \A n \in Names : Lower[Lower[n]] = Lower[n]
  /\ "gum" \in Names /\ Whole \notin Names
  /\ \A p \in Programs :
       /\ p.main \in Seq(Declaration) /\ IsFiniteSet(DOMAIN p.files)
       /\ \A f \in DOMAIN p.files :
            f \in Paths /\ (p.files[f] = Unparsable \/ p.files[f] \in Seq(Declaration))

VARIABLES
  program,    \* the files the compiler was started on
  pending,    \* import paths still to be followed, the top last
  requested,  \* the symbols asked of a module: <<path, module, symbol>>
  symbols,    \* of every module read: the names it declares, in lower case
  merged,     \* <<module, name>> of what was appended
  declared,   \* what was appended: [from |-> module, decl |-> declaration]
  classes,    \* the class table: name -> declaration
  enums,      \* the enum table: name -> declaration
  interfaces, \* the names of the interfaces seen
  errors,     \* the imports reported: [kind |-> ..., path |-> ...]
  phase       \* "loading", then "loaded"

vars == <<program, pending, requested, symbols, merged, declared, classes,
          enums, interfaces, errors, phase>>
-----------------------------------------------------------------------------
(* Where a path leads. *)

LowerPath(p) == [i \in DOMAIN p |-> Lower[p[i]]]

IsStdPath(p) == Len(p) > 1 /\ p[1] = "gum"

(* The table of embedded modules ignores case, the file system does not. *)
Exists(prog, p) == IF IsStdPath(p) THEN LowerPath(p) \in DOMAIN Std
                                   ELSE p \in DOMAIN prog.files

ModuleOf(prog, p) == IF Exists(prog, p) THEN p ELSE Front(p)

(* A path of the library never leads to a local file: gum.x is not the     *)
(* symbol x of the file gum.gum.                                           *)
Resolves(prog, p) ==
  \/ Exists(prog, p)
  \/ Len(p) > 1 /\ IsStdPath(Front(p)) = IsStdPath(p) /\ Exists(prog, Front(p))

SymbolOf(prog, p) == IF Exists(prog, p) THEN Whole ELSE Last(p)

Source(prog, m) == IF IsStdPath(m) THEN Std[LowerPath(m)] ELSE prog.files[m]

(* Only a symbol still keyed by the spelling of its module is kept apart:  *)
(* gum.Defaults and gum.defaults are one source under two keys.            *)
Key(m, d) == <<m, d.name>>
-----------------------------------------------------------------------------
(* What a path asks for, as positions in the module's declarations. *)

DeclName(d) == IF d.kind = "use" THEN {} ELSE {Lower[d.name]}

DeclRefs(d) == IF d.kind \in {"use", "enum"} THEN {} ELSE {Lower[r] : r \in d.mentions}

(* Of two declarations with one name the later is the one that is found. *)
Index(ds, names) ==
  {i \in DOMAIN ds : /\ DeclName(ds[i]) \cap names # {}
                     /\ \A j \in i + 1 .. Len(ds) : DeclName(ds[j]) # DeclName(ds[i])}

(* Slip: only what the symbol's own signature mentions, not what that leads to. *)
OneLevelClosure(ds, symbol) ==
  LET start == Index(ds, {Lower[symbol]})
  IN  start \cup Index(ds, UNION {DeclRefs(ds[i]) : i \in start})

(* The members of found and what they link to. *)
Spread(links, found) == found \cup UNION {links[x] : x \in found}

(* The members of start and all that steps links lead to from them. *)
Following(links, start, steps) ==
  LET Found[n \in 0 .. steps] == IF n = 0 THEN start ELSE Spread(links, Found[n - 1])
  IN  Found[steps]

SymbolClosure(ds, symbol) ==
  Following([i \in DOMAIN ds |-> Index(ds, DeclRefs(ds[i]))],
            Index(ds, {Lower[symbol]}), Len(ds))

Wanted(ds, symbol) == IF symbol = Whole THEN DOMAIN ds ELSE SymbolClosure(ds, symbol)

(* The declarations at some positions, in their order. *)
At(ds, positions) ==
  [k \in 1 .. Cardinality(positions) |->
     ds[CHOOSE i \in positions : Cardinality({j \in positions : j <= i}) = k]]

Nested(ds) ==
  LET uses == At(ds, {i \in DOMAIN ds : ds[i].kind = "use"})
  IN  [k \in DOMAIN uses |-> uses[k].path]

(* The declarations among ds that have not been appended yet, each once. *)
Fresh(known, m, ds) ==
  At(ds, {i \in DOMAIN ds :
            /\ ds[i].kind # "use" /\ Key(m, ds[i]) \notin known
            /\ \A j \in 1 .. i - 1 : ds[j].kind = "use" \/ Key(m, ds[j]) # Key(m, ds[i])})
-----------------------------------------------------------------------------
(* The tables.  They are keyed by the bare name: a later declaration with  *)
(* the same name replaces the earlier, and the set of interfaces forgets   *)
(* nothing.                                                                *)

(* Slip: an interface is not a class. *)
IsPlainClass(d) == d.kind = "class"

IsClass(d) == d.kind \in {"class", "interface"}
IsEnum(d) == d.kind = "enum"

ClassesIn(ds) == At(ds, {i \in DOMAIN ds : IsClass(ds[i])})
EnumsIn(ds) == At(ds, {i \in DOMAIN ds : IsEnum(ds[i])})

LastNamed(ds, n) == ds[Max({i \in DOMAIN ds : ds[i].name = n})]

(* Slip: a name that is taken keeps its meaning. *)
RegisterFirst(table, ds) ==
  [n \in DOMAIN table \cup {d.name : d \in ToSet(ds)} |->
     IF n \in DOMAIN table THEN table[n] ELSE LastNamed(ds, n)]

Register(table, ds) ==
  LET names == {d.name : d \in ToSet(ds)}
  IN  [n \in DOMAIN table \cup names |-> IF n \in names THEN LastNamed(ds, n) ELSE table[n]]

InterfacesIn(ds) == {d.name : d \in {e \in ToSet(ds) : e.kind = "interface"}}

Tabulate(ds) ==
  /\ classes' = Register(classes, ClassesIn(ds))
  /\ enums' = Register(enums, EnumsIn(ds))
  /\ interfaces' = interfaces \cup InterfacesIn(ds)
-----------------------------------------------------------------------------
Init ==
  /\ program \in Programs
  /\ pending = Nested(program.main)
  /\ classes = Register(<<>>, ClassesIn(program.main))
  /\ enums = Register(<<>>, EnumsIn(program.main))
  /\ interfaces = InterfacesIn(program.main)
  /\ requested = {} /\ merged = {} /\ errors = {}
  /\ symbols = <<>> /\ declared = <<>> /\ phase = "loading"

Report(kind, path) == errors' = errors \cup {[kind |-> kind, path |-> path]}

Request(path) ==
  requested' = IF SymbolOf(program, path) = Whole THEN requested
               ELSE requested \cup {<<path, ModuleOf(program, path), SymbolOf(program, path)>>}

(* The path names neither a module nor a symbol of one. *)
Unresolved ==
  /\ phase = "loading" /\ pending # <<>>
  /\ ~Resolves(program, Last(pending))
  /\ pending' = Front(pending)
  /\ Report("unresolved", Last(pending))
  /\ UNCHANGED <<program, requested, symbols, merged, declared, classes, enums,
                 interfaces, phase>>

(* Slip: the import stays on the stack.                                    *)
BrokenAndKept ==
  LET path == Last(pending)
  IN  /\ phase = "loading" /\ pending # <<>>
      /\ Resolves(program, path) /\ Source(program, ModuleOf(program, path)) = Unparsable
      /\ Request(path)
      /\ Report("syntax", ModuleOf(program, path))
      /\ UNCHANGED <<program, pending, symbols, merged, declared, classes, enums, interfaces, phase>>

(* A module with a syntax error is left out, and read again when it is     *)
(* imported again.                                                         *)
Broken ==
  LET path == Last(pending)
  IN  /\ phase = "loading" /\ pending # <<>>
      /\ Resolves(program, path) /\ Source(program, ModuleOf(program, path)) = Unparsable
      /\ pending' = Front(pending)
      /\ Request(path)
      /\ Report("syntax", ModuleOf(program, path))
      /\ UNCHANGED <<program, symbols, merged, declared, classes, enums, interfaces, phase>>

(* What the path asks for is appended; the `use` lines among it are pushed *)
(* whether or not the module has been imported before.                     *)
Load ==
  LET path == Last(pending)
      m    == ModuleOf(program, path)
      ds   == Source(program, m)
  IN  /\ phase = "loading" /\ pending # <<>>
      /\ Resolves(program, path) /\ Source(program, ModuleOf(program, path)) # Unparsable
      /\ Request(path)
      /\ symbols' = [k \in DOMAIN symbols \cup {m} |->
                       IF k = m THEN UNION {DeclName(d) : d \in ToSet(ds)} ELSE symbols[k]]
      /\ \E wanted \in {Wanted(ds, SymbolOf(program, path))} :
           /\ pending' = Front(pending) \o Nested(At(ds, wanted))
           /\ \E new \in {Fresh(merged, m, At(ds, wanted))} :
                /\ merged' = merged \cup {Key(m, d) : d \in ToSet(new)}
                /\ declared' = declared \o [k \in DOMAIN new |-> [from |-> m, decl |-> new[k]]]
                /\ Tabulate(new)
      /\ UNCHANGED <<program, errors, phase>>

(* When nothing is pending, the symbols that were asked for and not found  *)
(* are reported.                                                           *)
(* Slip: names are compared as they are spelled. *)
MissingAsSpelled(r) == r[2] \in DOMAIN symbols /\ r[3] \notin symbols[r[2]]

Missing(r) == r[2] \in DOMAIN symbols /\ Lower[r[3]] \notin symbols[r[2]]

Finish ==
  /\ phase = "loading" /\ pending = <<>>
  /\ errors' = errors \cup {[kind |-> "missing", path |-> r[1]] : r \in {q \in requested : Missing(q)}}
  /\ phase' = "loaded"
  /\ UNCHANGED <<program, pending, requested, symbols, merged, declared, classes,
                 enums, interfaces>>

Next == Unresolved \/ Broken \/ Load \/ Finish

(* The loader is one loop in one thread: it takes its next step. *)
Spec == Init /\ [][Next]_vars /\ WF_vars(Next)
-----------------------------------------------------------------------------
(* What the `use` lines of a program mean, without a stack or an order. *)

Home(m) == IF IsStdPath(m) THEN LowerPath(m) ELSE m

Readable(prog, p) == Resolves(prog, p) /\ Source(prog, ModuleOf(prog, p)) # Unparsable

UsesOf(ds) == {d.path : d \in {e \in ToSet(ds) : e.kind = "use"}}

(* The imports an import leads to: those of a module taken whole. *)
LeadsTo(prog, p) ==
  IF Readable(prog, p) /\ SymbolOf(prog, p) = Whole
  THEN UsesOf(Source(prog, ModuleOf(prog, p))) ELSE {}

AllImports(prog) ==
  LET files == {prog.files[x] : x \in DOMAIN prog.files} \ {Unparsable}
  IN  UNION {UsesOf(ds) : ds \in {prog.main} \cup files \cup {Std[m] : m \in DOMAIN Std}}

ImportsFrom(prog, start) ==
  Following([p \in AllImports(prog) |-> LeadsTo(prog, p)], start, Cardinality(AllImports(prog)))

Imports(prog) == ImportsFrom(prog, UsesOf(prog.main))

Acyclic(prog) == \A p \in Imports(prog) : p \notin ImportsFrom(prog, LeadsTo(prog, p))

NamesOf(ds) == UNION {DeclName(d) : d \in ToSet(ds)}

(* A set of names that has, with a class or a function, what it mentions. *)
SelfContained(ds, names) ==
  \A i \in DOMAIN ds :
    (/\ DeclName(ds[i]) \cap names # {}
     /\ \A j \in i + 1 .. Len(ds) : DeclName(ds[j]) # DeclName(ds[i]))
      => (IF ds[i].kind = "enum" THEN {} ELSE {Lower[r] : r \in ds[i].mentions})
           \cap NamesOf(ds) \subseteq names

(* The least such set with the symbol in it. *)
LeastWith(ds, symbol) ==
  {n \in NamesOf(ds) : \A names \in SUBSET NamesOf(ds) :
                         (/\ {Lower[symbol]} \cap NamesOf(ds) \subseteq names
                          /\ SelfContained(ds, names)) => n \in names}

Brings(prog, p) ==
  LET ds == Source(prog, ModuleOf(prog, p))
  IN  IF SymbolOf(prog, p) = Whole THEN NamesOf(ds) ELSE LeastWith(ds, SymbolOf(prog, p))

Faults(prog, p) ==
  IF ~Resolves(prog, p) THEN {[kind |-> "unresolved", path |-> p]}
  ELSE IF ~Readable(prog, p) THEN {[kind |-> "syntax", path |-> ModuleOf(prog, p)]}
  ELSE IF SymbolOf(prog, p) # Whole
          /\ Lower[SymbolOf(prog, p)] \notin NamesOf(Source(prog, ModuleOf(prog, p)))
       THEN {[kind |-> "missing", path |-> p]} ELSE {}
-----------------------------------------------------------------------------
(* Properties. *)

(* Every variable has the type the code gives it. *)
TypeOK ==
  /\ program.main \in Seq(Declaration) /\ pending \in Seq(Paths) /\ phase \in {"loading", "loaded"}
  /\ \A r \in requested : r[1] \in Paths /\ r[2] \in Paths /\ r[3] \in Names
  /\ \A m \in DOMAIN symbols : m \in Paths /\ symbols[m] \subseteq Names
  /\ merged = {Key(declared[k].from, declared[k].decl) : k \in DOMAIN declared}
  /\ declared \in Seq([from : Paths, decl : Declaration])
  /\ \A n \in DOMAIN classes : n = classes[n].name /\ IsClass(classes[n])
  /\ \A n \in DOMAIN enums : n = enums[n].name /\ IsEnum(enums[n])
  /\ interfaces \subseteq DOMAIN classes
  /\ \A e \in errors : e.kind \in {"unresolved", "syntax", "missing"} /\ e.path \in Paths

(* Whatever the order in which the stack is worked off, and however often  *)
(* a module is met, the program ends up with what its imports mean: every  *)
(* declaration of a module imported whole, directly or through another     *)
(* such module, and of a module imported by symbol that declaration and    *)
(* what the signatures of classes and functions lead to (SPEC.md:866).     *)
(* The payload of an enum and the imports of that module are not followed. *)
BringsWhatIsReached ==
  phase = "loaded" =>
    {<<Home(d.from), Lower[d.decl.name]>> : d \in ToSet(declared)}
      = UNION {{<<Home(ModuleOf(program, p)), n>> : n \in Brings(program, p)} :
                 p \in {q \in Imports(program) : Readable(program, q)}}

(* Importing a symbol brings in what its signature reaches (SPEC.md:866),  *)
(* be it declared in its module or by what that module imports.  It holds  *)
(* neither for an enum's payload nor for the imports of a module that is   *)
(* imported by symbol: MCModuleLoaderSignature.cfg.                        *)
BringsItsSignature ==
  phase = "loaded" /\ errors = {} =>
    \A d \in ToSet(declared) : \A p \in {<<>>} \cup UsesOf(Source(program, d.from)) :
      LET known == IF p = <<>> THEN NamesOf(Source(program, d.from))
                   ELSE IF Readable(program, p) THEN Brings(program, p) ELSE {}
      IN  \A r \in {Lower[n] : n \in d.decl.mentions} \cap known :
            \E e \in ToSet(declared) : Lower[e.decl.name] = r

(* An import that leads nowhere is an error and no other import is, no     *)
(* matter what was read before it (SPEC.md:884): no such path, a module    *)
(* with a syntax error, a symbol the module lacks under any spelling.      *)
ReportsWhatIsNotThere == phase = "loaded" => errors = UNION {Faults(program, p) : p \in Imports(program)}

(* The list of declarations that code is generated from. *)
Merged == program.main \o [k \in DOMAIN declared |-> declared[k].decl]

(* A table of the declarations at some positions: it has their names, and  *)
(* for each the last one.                                                  *)
Current(table, ds, positions) ==
  /\ DOMAIN table = {ds[i].name : i \in positions}
  /\ \A i \in positions :
       \/ table[ds[i].name] = ds[i]
       \/ \E j \in positions : j > i /\ ds[j].name = ds[i].name

(* The tables the rest of the compiler looks names up in agree with the    *)
(* list of declarations it generates code from: for a name that two        *)
(* modules, or a module and the main file, both declare, each has the last *)
(* one; and every interface in the table is known to be one.               *)
TablesAreCurrent ==
  /\ Current(classes, Merged, {i \in DOMAIN Merged : IsClass(Merged[i])})
  /\ Current(enums, Merged, {i \in DOMAIN Merged : IsEnum(Merged[i])})
  /\ \A n \in DOMAIN classes : classes[n].kind = "interface" => n \in interfaces

(* The half of the next property that is a safety property.                *)
NeverEndsIfCyclic == ~ Acyclic(program) => [](phase = "loading")

(* Loading ends if no module that is imported whole leads back to itself,  *)
(* however often the same module is reached, and never ends if one does:   *)
(* its `use` lines are pushed again each time.                             *)
EndsUnlessCyclic ==
  /\ Acyclic(program) => <>(phase = "loaded")
  /\ NeverEndsIfCyclic
=============================================================================
