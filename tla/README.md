# A verification project for gum

gum is a language for Ethereum contracts. Its compiler, `gumc`, translates a
source file to Yul, which `solc` assembles; `SPEC.md` and `STORAGE.md` describe
the language and its storage model. This directory holds TLA+ models of the
parts of `gumc`, and of the code it emits, whose correctness depends on a long
sequence of steps, on several parties, or on a boundary that example-based
tests seldom meet. TLC checks them on small instances; TLAPS proves some of
their properties for every instance.

Paths below are relative to `gumc/src/`.

## 1. The system

### Pipeline

`main.rs` reads a source file and runs, in this order: the indentation pass
(`indent.rs`), the parser (`lexer/`, `parser/`), the type checker with module
loading, inheritance and the flow checks (`semantic/mod.rs`), the layout engine
and its manifest (`codegen/layout.rs`, `codegen/mod.rs:generate`), the
translation to Yul (`codegen/translator.rs`, the `tr_*.rs` files and the
helpers in `yul.rs`), and `solc`. Each stage may fail; only the manifest
survives from one compile to the next. `runner.rs` runs test functions in an
embedded EVM.

The compiler is sequential. What is concurrent is the contract it makes: it
calls other contracts, they call back, any call may revert and roll its effects
back, and the contract may later be replaced by another compile of an edited
source over the same storage.

| component | state | operations | what makes it correct |
|---|---|---|---|
| Layout and `--lock` manifest | manifest on disk, layouts, packing cursor, high-water marks | load, check, pin, place newcomers, pack, save, emit | no two fields share a byte; committed fields never move; the manifest is never behind what is deployed |
| Constructor, dispatcher, guards, try thunks | code, storage, transient slots, EVM frames | creation, entry, call out, re-entry, revert, try/catch, once | no re-entry while an outside call is under way; try blocks are atomic; every flag means what its reader takes it for |
| Storage collections | storage words | push, pop, indexed store, delete, for-in, text store | a field behaves as the sequence or value it is; nothing removed comes back |
| Flow checks, view/pure, bodies | the run of one method | every control statement | the emitted code does what the statements say; every verdict holds on every path |
| Arithmetic | locals in machine words | operators, folding, checked helpers, masks | the exact result or a panic; a local holds a value of its type |
| Inheritance | class table, calls under way, errors | enter, descend, join a parent, finish | each class gets exactly what its ancestors give it; every fault is reported, and nothing else |
| Indentation | column stack, pending header, unsafe block | one line, end of file | braces follow indentation; all close |
| ABI codec | memory, the data under way | check a signature, encode, decode | the wire holds the ABI's own encoding; the decoder reads what is there and refuses the rest |
| Module loader | stack of imports, what was merged, class and enum tables, errors | load a module or a symbol, report | the program gets what its imports mean, each once; loading ends |
| Generics, deployment of other contracts, parser | see sections 7 and 8 | | |

The parts meet in few places. The layout tells the translation where a field
is; `StorageCollections` assumes that no two fields are given the same bytes
(`PlaceAssumption`), which is the theorem `LayoutDisjoint` about `StorageLayout`. The call-out analysis decides
which entry points have a guard; `CallFrames` starts from that verdict, and
`MethodBodies` shows where the verdict is right about what the code does. A try
block's locals travel to its thunk and back as ABI data: `CallFrames` knows
whether that data is a returned value or the locals, `AbiCodec` what becomes of
it. `ModuleLoader` ends with the class table `Inheritance` starts from. The
manifest's order relative to code generation and `solc` decides what a failed
build leaves behind; that order is in `StorageLayout`.

### What is hard to test here

`PROJECT.json` lists the hazards with their lines. They are of six kinds.

* **Sequences of compiles.** Where a new field goes depends on what several
  earlier compiles committed, which of them failed after saving the manifest,
  and which of them was deployed.
* **Re-entry and rollback.** Guards, try capabilities and return flags are
  transient words shared by all frames of a transaction, and a failing frame
  restores them.
* **State read twice.** The length in for-in, the bounds check before an index
  expression runs, the condition of an `if` with an `else`, the parent read
  before it is flattened.
* **Boundaries.** The last slot of a field, texts around 31 bytes, signed
  division of the least value, literals folded at the limit of `u128`.
* **Data from elsewhere.** Whoever calls a contract, or answers it, chooses the
  bytes: offsets that overlap, lengths the data cannot back, an end cut off.
* **Analyses by fixpoint.** view, pure and no-call-out are computed over call
  graphs with cycles, and imports are followed through modules that use each
  other.

## 2. The modules

Each state machine is in a module without instance-specific values; `MC...`
modules give the constants their values. A definition whose comment begins with
"Slip:" is a mutated form of a definition below it, such as a dropped guard or a
missing reset. `PROJECT.json` names the property that notices it; no
specification uses it.

| module | models | implements |
|---|---|---|
| `StorageLayout` | `codegen/layout.rs`, `generate` and the driver's order of steps | |
| `CallFrames` | constructor, guards, once, try blocks; EVM frames | |
| `StorageCollections` | emitted code for storage arrays, structs, texts | `StoredValues` |
| `MethodBodies` | flow checks, mutability, control statements | |
| `NumericTypes`, `CheckedArithmetic` | number types; emitted arithmetic | `ExactArithmetic` |
| `Inheritance` | `flatten_inheritance` | |
| `Indentation` | `preprocess` | |
| `AbiCodec` | the emitted encoders and decoders, and `tr_codec.rs`, which picks them | compared with `AbiWire` |
| `ModuleLoader` | the import loop of `check`, `symbol_closure`, `stdlib.rs` | |

The proofs about a module `M` are in `MProofs`.

### StorageLayout

A behaviour is a sequence of compiles of one contract. `Begin` lets the author
rewrite the source; one step per iteration of the loops of `layout.rs` follows:
the check that no committed field is missing (`check`), pinning of committed fields
(`pin`), placement of newcomers in gaps or behind everything (`place`), packing
of a contract that has no entry (`fresh`), packing of transient fields
(`transient`), saving (`laid`, `saved`). Then `Emit` or `BuildFails`. `Exit`
stands for every place where the compiler stops with an error. `RestoreLock`
puts the committed manifest back after one that cannot be parsed, which an
interrupted `fs::write` leaves. `Upgrade` deploys what was last built, at any
later moment. `lock` and `lockFile` are the manifest; `high` is `high_water`,
`append` the append position, `cursor` the packer's slot and offset; `built` and
`live` are the layouts of the last bytecode and of the deployed contract.

Fields are numbers in name order, because the code breaks ties by name; their
types are their byte widths. What an upgradeable contract needs is said by two
properties: `UpgradeKeepsFields`, that every upgrade keeps each field where it was,
and `NoOverlap`, that new ones are on bytes no field holds.

### CallFrames

`frames[1 .. depth]` is the EVM's call stack. A frame knows the unit it runs
(a method, a try thunk, or outside code), the internal calls in it, what it
waits for, and the `world` to restore if it fails: whether the account has code,
data, the once flags, the lock, the try capability and the return flag. The
compiler's decisions are operators: `HasRet`, `Hoisted` (`plan_capture`), `Round`
and `CallsOut` (a round of `analyze_external_calls`, and the least set no round
enlarges), `GuardedEntries` and the marked returns (`mark_returns_with_flag`).

The compiler decides on guards twice over, and neither time from what a body does.
`analyze_external_calls` looks calls up by name: `LooksUp` gives, for each unit, the
names, so that `Round` works on names while `Internal` and `External` say what
runs. `super.m()` is looked up as `m`, the method that replaced the one it runs.
And no entry has a guard unless `has_external_calls` is set
(`HasExternalCalls`), which the type checker does where it happens to evaluate an
outside call; `Noted` are the places where it does. In the contract of the run
`frames` every call is looked up as what it runs, and one of four outside calls is
noted. `CallsAsMade` and `CallsAreFound` say what a guard needs of the two.

 A method's statements come in any order, so the
actions cover every program over the same calls. Outside code calls any
selector, including a thunk's, any number of times while it runs. A frame may
also fail on its own, by depth or by gas.

A behaviour begins without the contract if it has a `fn new`. `Create` runs it in
an account that has no code yet; `Deployed` gives it its code when the
constructor ends well. Meanwhile a call to the account succeeds at once and runs
nothing (`NoCall(TRUE, ..)`, `answer.ran = FALSE`), which is what happens to a
hoisted try of the constructor: its caller goes on, unless it must decode locals
the empty return data lacks (`TryLacks`).

### StorageCollections

`cells` maps a region (the contract's own slots, or the keccak region of one
array or text) to words of bytes. A scalar of n bytes writes its byte n times,
so that a wrong address, offset or mask shows as a wrong byte. Operations follow
the emitted helpers: read-modify-write of a packed word, whole-word structs,
clearing on pop and delete, the two forms of a text and the move between them.
`pending` splits the two statements that are not atomic: an access whose index
expression runs other statements, and a for-in. `StoredValues` knows sequences
and bytes only; the refinement mapping reads the sequences out of the words.

The assumptions on the constants are what other parts of the compiler
guarantee: the parts of a struct do not overlap in it and a scalar divides a
word (`PartsAssumption`), no two fields are given the same bytes
(`PlaceAssumption`), and what the bounds let a field hold is among the modelled
words (`BoundsAssumption`). They do not make the code right. The emitted code
has three rules for the words of a field: the layout's, `struct_elem_slots` for
elements, `pack_params` for clearing. `Agree` says where the rules agree, and
`Sound` that they do for every field of the contract and that no index
expression shortens the array it indexes. `MCStorageCollections` has TLC
evaluate that `Sound` holds in the run `collections`; it fails in
`collections_alias`.

### MethodBodies

A body is a tree of statements and a run of it a list of statements left to do.
`Diverges`, `Assigns`, `EffectOf` and `CallsOutOf` are the compiler's
analyses; the last two look at `Inside[b]`, the statements of a block however
deep. The actions do what the emitted Yul does, including the second
evaluation of an `if` condition, the loop of a for-in and the `switch` over
arms. `Runs` is what the statements mean, defined on the tree alone. The two
are independent: `Runs` evaluates a condition once, chooses an arm by variant
and rolls a failed try back by definition.

`mutability.rs` judges calls by name. `self.m()` counts as writing whatever `m` does
(but for the names `length`, `len` and `get`, which are view), and as calling out if
`m` does (but for those and `push` and `pop`). `super.f()` is judged by the verdict of
`f` itself, the override, although it runs the version `f` replaced, unless its name
has an arm of its own. `C.f()` counts like a call of `self`, and a payment to an
account that is a field is first looked up among the contract's own methods. `NameOf`
says what kind of name `f` and `g` have; `g` is a helper, or the version `f` replaced.
`CallEffect`, `CallJudgedOut` and `JudgedOut` are those rules. `JudgedAsRun` says that
they judge every call at least as the method it runs. It does not say that the
verdict on that method is right, which is what `MutabilityHonest` and
`CallsOutHonest` are about. With `MayMisjudge = FALSE` the programs are those for which
it holds; the others are findings, with configurations that have `MayMisjudge = TRUE`.

The recursion of these definitions is over the constant `Code`, the blocks of
the program and what is left of each after a statement, so that they are
recursive functions and can be reasoned about. `CodeAssumption` says that `Code`
is closed in this way, `InsideAssumption` that nothing but statements is found
inside a block: blocks are nested finitely deep, which the syntax of a program
ensures and the equation of `Inside` alone does not. TLC evaluates both.
`NoCreate` and `Ordered` are hypotheses of theorems; `MCMethodBodies` has TLC
evaluate that the bodies of the run `bodies` meet them.

### CheckedArithmetic

Two locals hold words. A statement is `x = l op r` and its relatives with types
and operands chosen freely among what the type checker accepts; `Fetch` takes
the next one, `Store` writes its word, `Revert` panics. The checked helpers,
`gum_muldiv` with its 512-bit product and its inverse by Newton steps,
saturation, folding of literals and the masking of declarations are those of
`yul.rs`, `tr_binop.rs` and `translator.rs`. `ExactArithmetic` computes on whole
numbers. Locals are read as numbers by `Decoded`, which is the refinement
mapping. The constant `Careless` lists kinds of statement which the type checker accepts
and the emitted code does not check; the arithmetic run has none of them, and
each is a finding below.

### Inheritance

`flatten_class` recurses; its calls are `stack`. `Begin` is an iteration of
`flatten_inheritance` (it picks the next class in order), `Descend` the
recursive call, `UnknownParent` and `Join` what the loop over parents does with
one, `Finish` the part behind that loop: overriding and super names, interface
obligations, qualified copies. A body stands for code some class wrote. The
lists keep their order because later passes look up the first method of a name.
The properties compare the table with what the declarations mean class by class
(`Version`, `AllFields`, `AncestorsOf`, ...), which do not use the table: they are
recursive functions of the parents' lists.

`ProgramsAssumption` says what a program is; its one restriction is that a class
declares no field and no method twice. The compiler does not refuse such a class
where it has no parents, and where it has some its fields are refused as if they
were inherited and the first of its methods is taken for a replaced one. That is
left out.

`FaultsAreReported` has two halves. `BlamesFaults` says that a class is flattened
only if neither it nor an ancestor is at fault, and that whoever is blamed is at
fault for the reason given; `NothingForgotten`, that a class that is not
flattened is blamed or has an ancestor that is. `BlamesFaults` exempts errors with the reason `"copy"`, because they concern names the compiler made up, not the author: two
parents that both replaced a method each bring a `super_f`; two parents with a
common ancestor each bring its `Base__f`; and the qualified copies which an
interface that extends another interface carries become obligations of their
own. The second finding on inheritance describes them.

### Indentation

`read` is the source as line kinds and columns, `lines` what was written for
each line: whether it opens a brace and how many close behind it. `stack` has the
columns of the blocks under way, `pending` is set behind a header, and `unsafe`
holds the column of an unsafe block that is being copied. What a file means
(`Encloses`, `Raw`, `Blocks`, `Aligned`) is computed from its columns alone, and the
braces that are open after a line (`OpenAfter`) from what was written alone; the
properties compare the two.

### AbiCodec

A behaviour is one crossing of values between two contracts by one of four
routes: the arguments of an entry (`call`), of a constructor (`deploy`), the
value an entry hands back (`return`), the captures of a try (`locals`). `Check` is
the type checker's verdict on the signature, `Encode` builds the sender's
variables in memory and runs the helpers on them, `Alter` replaces one word of
the data and `Cut` drops its end, because any program may be the other end, and
`Accept` is the whole prologue of the receiver: it decodes or reverts. The data
of the last route stays between two frames of one contract and is not altered.

Memory is a row of bytes with a free pointer. A scalar variable holds its
value and any other an address; arrays and structs pack their parts, a
struct's the widest first, while the wire has them in declared order, a word
each. `Put`, `Size`, `BlobFrom` and `Returned` follow the encoders of `yul.rs` and
their callers, `Decode`, `DecodeText` and `Fetched` the decoders, with their
tests in the order and the width of arithmetic the code has (`Plus` wraps).
`dirty` says that memory above the free pointer holds old data, which is what a
padding that is not written shows.

`AbiWire` is the ABI's own definition of encoding, and of reading by a decoder
that looks at nothing outside the data. `EncodesCanonically`, `ReadsWhatIsThere`
and `RefusesWhatIsNot` compare the code's with it; the operator `Untested` lists
what the code is known not to test. Types that are `Accepted` by the checker and not
`Carried` by a helper are not among the crossings: they are a finding.

### ModuleLoader

`pending` is the stack of import paths. Each step takes the top: `Load` appends
what the path asks for to the program, registers it in the class and enum
tables, and pushes the `use` lines of a module taken whole; `Broken` is a module
that does not parse, `Unresolved` a path that leads nowhere; `Finish` reports the
symbols that were asked for and not found. `Wanted` and `SymbolClosure` choose
the declarations, `Fresh` leaves out what was `merged`. `requested` remembers the
symbols asked for and `symbols` the names of every module read; `declared` is the
list that code is generated from, and `classes`, `enums` and `interfaces` are the
tables the type checker looks names up in.

The properties do not use the stack. `Imports` is the set of paths the main file
reaches, `Brings` the least set of names a path stands for, `Faults` what is wrong
with it; `BringsWhatIsReached` and `ReportsWhatIsNotThere` say that the loop ends
with exactly these, in whichever order it met the paths.

## 3. What is checked

Every run is exhaustive for its bounds.

| run | instance | distinct states | what it shows |
|---|---|---|---|
| `layout` | 3 fields, widths 16, 32, 40, persistent or transient | 877,810 | disjointness, slots, manifest covers deployment, upgrades keep fields |
| `frames` | 6 methods with a constructor, 4 tries, 8 frames, 7 writes or calls | 184,107 | lock, no re-entry, capability, return flag, once, atomic try |
| `frames_try` | the same contract, every try | | finding: an inline try is not rolled back |
| `collections` | two-byte words, 6 fields, arrays of 2 and 3, texts of 3 bytes, two fields in use at a time | 37,550 | implements `StoredValues`, nothing left behind |
| `collections_alias` | two fixed arrays of structs of one and a half words | | finding: one array overwrites the next |
| `bodies` | one compound, or one in another, with a helper that may call back, or the version the method replaced | 176,500 | runs as written; verdicts hold |
| `arithmetic` | four-bit words, three-bit narrow types | 611,823 | exact or panics; in range |
| `inheritance` | 4 classes in five families of programs, two orders | 116,060 | inherits what it should, blames what it should, ends |
| `indentation` | 5 lines, 4 columns | 102,987 | braces follow indentation |
| `codec` | two-byte words, every shape of type, four routes, one word altered, any cut | 61,933 | the ABI's encoding, and exactly its readings |
| `codec_locals` | the same types and `bytes1` and a nested struct, as captures | | finding: a captured local is lost |
| `loader` | main file with up to 2 imports, 21 file systems, a cut of the library | 9,364 | brings what is meant, reports what is missing, ends or never does |

Twelve more configurations show a finding and are not among the runs:
`MCStorageLayoutDrop.cfg`; `MCMethodBodiesElse.cfg`, `MCMethodBodiesSuper.cfg`,
`MCMethodBodiesGet.cfg` and `MCMethodBodiesPay.cfg`; `MCInheritanceSuper.cfg`;
`MCModuleLoaderSignature.cfg`; `MCCallFramesReturn.cfg`, `MCCallFramesUnsafe.cfg`,
`MCCallFramesNew.cfg`, `MCCallFramesSuper.cfg` and `MCCallFramesUnnoted.cfg`.
TLC finds each property they name violated.

### Why these bounds are enough to meet the hard cases

* **layout.** Widths 16, 32 and 40 are half a slot, a slot and a field that ends
  in the middle of its second slot. Three fields suffice for a committed field,
  a newcomer put into a gap below an appended one, and one removed or changed
  in kind between the compiles. The number of compiles is not bounded: the
  state space is finite because layouts are.
* **frames.** The contract has a method of each kind: with a return type and
  nested tries of which the outer may return, reached from two places, calling
  out through a helper only, writing without ever calling out, once and unsafe,
  and a constructor that calls out, calls a helper and has a try that assigns a
  local. Depth 8 holds an entry, its two thunks, an outside call from the inner
  one, a re-entry with its own outside call and try. `MaxGas` bounds the writes and
  calls of one transaction and `MaxData` the writes kept; the number of
  transactions is not bounded.
* **collections.** Two bytes to a word put two packed values in a word, three
  packed values in two words, a struct of three bytes in two words of its own
  and two plain fields in one word; a text of 1 byte has the short form and
  one of 2 or 3 the long form, with a full or a partly used last word. `MaxBusy = 2` lets
  any two fields hold something at a time: an error of addressing shows in a
  field and at most one neighbour.
* **bodies.** Every compound statement meets every pair of simple blocks, with a
  statement before or after it, and a selection of compounds is put inside
  others. Helpers read, write, call out and call back, which gives the
  analyses' fixpoints cycles. Overriding bodies call the version they replaced, as
  super or by its class's name, and pay a stored account, in every compound and next
  to a statement that writes or calls out itself, which makes the override's own
  verdict the same as that of what it runs, or not (those programs are left to
  `MCMethodBodiesSuper.cfg`). `MaxCalls = 2` bounds recursion, a deeper call
  runs out of gas.
* **arithmetic.** Word 16 and narrow 8 keep what the code relies on: both even,
  two different widths, a sign bit. All values of both locals are tried. With
  1.0 as 6, a product of two fixed-point numbers needs its upper word and the
  divisor has an odd and an even factor. The literals are 0, one in the range of every number type and
  one outside the signed narrow range; `FoldLimit` 8 lets literal arithmetic
  exceed the compiler's `u128`.
* **inheritance.** Four classes hold a chain of four, a diamond, a cycle that
  the class under way is not on, and a class below a faulty one.
* **indentation.** Five lines in four columns hold a line that closes three
  blocks at once, an unsafe block inside another, and empty blocks at each
  depth.
* **codec.** With two bytes of 32 values to a word, the number range is 1024 and
  the data some tens of bytes, so an altered offset or length may point into
  the data, just past its end, far beyond it, or wrap (`MCAltered` has values of
  each kind). A text of three bytes needs a padded second word. The types have
  each helper and each helper inside another: arrays of arrays, of texts, of
  structs, structs with texts and arrays, fixed arrays of either. `MemoryTop` is
  large enough for all of them and small enough that a length of 511 is not paid
  for, as gas forbids in the EVM.
* **loader.** `a` and `b` may import each other whole, by symbol or not at all,
  import themselves, the library, a file that does not parse or none; `a/b` is a
  file where `a.b` might be a symbol, and `gum` one where `gum.c`, a path of the library,
  might be taken for a symbol but is an error. Two imports of the main file reach a module
  twice, whole and by symbol, in both orders, and in two spellings. The file
  systems and the main file's names shadow one another.

`collections` and `collections_alias` leave `MayShrink` empty: the index
expression of an access does not pop the very array that is accessed. See the
findings for what happens otherwise, and in general for every constant that
keeps a known divergence out of a passing run.

### Fairness, stopping and deadlock

`Inheritance` and `ModuleLoader` state fairness, `WF_vars(Next)`: each is one loop
in one thread, nothing waits, so each enabled step is eventually taken.
`Terminates` is then the question whether the recursion ends for cyclic and
unknown parents; `EndsUnlessCyclic` says that loading ends when no module taken
whole leads back to itself, and that it never does otherwise. The other machines
have no liveness property: compiles are loops over finite lists, the EVM's gas
bounds every run, outside code owes nothing, and no party waits for another.
`arithmetic`, `bodies`, `indentation`, `codec` and `loader` stop when the method,
the file or the crossing is done, and their configurations switch deadlock
checking off; elsewhere TLC checks that the system can always go on.

## 4. What is proved

Eight modules hold theorems. They assume only the
named `ASSUME`s of the constants, and what a theorem's own ASSUME says. Of the 39
properties of the passing runs, 32 are theorems for every value of the constants.

**`StorageLayoutProofs`** proves, for any fields and any positive widths:

* `TypeCorrect`: `Spec => []TypeOK`.
* `LayoutDisjoint`: `Spec => []NoOverlap`, no two fields share a byte in any
  layout computed, committed, built or deployed.
* `StaysWithinSlots`: `Spec => []WithinSlots`, a field of at most a word lies in
  one slot and a wider one starts on a slot boundary. Its invariant `AlignInv`
  adds the last build's layout; `PlacedFits` shows it of a newcomer in a gap.

`NoOverlap` is not inductive: that a newcomer fits is known only because
something bounds the fields already placed. `LayInv` adds, for each phase, what
does: `CursorInv` (a packer's cursor is behind everything it placed), `AppendInv`
(the append position is behind every committed or appended field), `HighInv`
(`high[s]` is behind every byte used in slot `s`, and slots without an entry
below `append` are not touched), and that the transient layout is empty before
its phase. Each action has a lemma (`PinStep`, `PlaceStep`, ...); the arithmetic
of slots is in `SpannedBounds` and `UsedInReaches`, and what adding one location
to a disjoint layout needs is in `AddDisjoint`.

The same module proves, if every source compiled holds the contract
(`MayDrop = FALSE`):

* `ManifestCovers`: the manifest commits whatever the last build and the
  deployed contract use.
* `UpgradesKeepFields`: no upgrade moves or drops a live field.

The invariant `CoverInv` adds `PinInv`, which says what a compile under way
has kept of the manifest in each phase (a field is checked, then pinned,
before it leaves `todo`), and `FileInv`, which relates the state of the file to
its entry. The assumption is necessary: `MCStorageLayoutDrop.cfg` violates `UpgradeKeepsFields` without it.

**`CheckedArithmeticProofs`** proves, for any even word size, any narrower even
width, any fixed-point unit and literals, if no statement is careless:

* `ArithmeticTypeOK`, and `StaysInRange`: a local's word is always a value of
  its type. `Inv` adds that the statement fetched is one the method may
  run with the present types and values. One lemma per helper bounds its result
  (`SDivFits`, `SModFits`, `MulDivInWords`, ...).
* `SumsAreExact`: for every integral type and operands of it, the checked sums
  and differences panic exactly when the true result is outside the type, and
  otherwise are that result.

**`CallFramesProofs`** proves, for any contract, call graph, depth and gas:

* `FramesInvariant` and `FramesTypes`: `Spec => []Known` and `Spec => []TypeOK`.
* `LockIsHeld`: the lock is set exactly while a guarded entry is on the call
  stack, and there is never a second one.
* `NoneReenters`: no two entries that are not `unsafe` wait for another contract,
  if no method inferred to be view or pure calls out (`ReadersStay`), the analysis
  finds every entry that may hand control over, and the type checker notes an outside
  call if there is one (`CallsAreFound`). `MCCallFramesSuper.cfg` and
  `MCCallFramesUnnoted.cfg` violate it where one half of `CallsAreFound` fails.
* `RoundsFindCalls`: the first half of `CallsAreFound` follows, for any call graph, if
  each call is looked up under the name of what it runs (`CallsAsMade`).
* `ThunksAreCalledByTries`: a thunk runs only as the self-call of its try, the
  capability is never left for outside code, and no try goes on whose thunk did
  not run, if the constructor does not call out (`ConstructorsStay`).
* `OnceMeansOnce`: a once method's effects happen once, if the contract does not
  call it with `self.m()` (`OnceFromOutside`).
* `TriesRollBack`: a try without an untyped capture is undone before its catch
  block runs, if `plan_capture` gives up on no other (`TypedAreHoisted`).
* `ReturnsAreReadRight`: a try statement takes its thunk's return data for what the
  thunk encoded, if an entry that may come to a combined thunk has a guard
  (`CombiningIsGuarded`), no combined thunk calls a method that may come to one
  (`ValuesRunNoTry`), and none has a return statement in the catch block of a try
  hoisted from it (`CatchesStay`).

A frame that fails puts back the world it started from, so whatever holds of the
lock, the capability, the flags and the code now must hold of every snapshot on
the stack, about the frames below it. `Known` is the conjunction of `TypeInv`,
`UnitInv` (what runs was judged to call out if there is a frame above it),
`LockInv`, `CapInv` and `CodeInv`; `RanInv`, `OnceInv` and `TryInv` are added for
single theorems. Each action is, to all of them, one of a few moves: a
transaction starts (`Starts`), only the answer changes (`Rests`), the frame on top goes
on (`GoesOn`), calls (`Calls`) or ends (`Ends`). `NextMoves` shows this once, and
every part of the invariant is proved for the moves.

`ReturnsReadRight` is about one transient word that every try of a transaction
uses. `RetInv` follows it: from the return statement of a combined thunk to the end
of its frame the flag is set, now and in the world of every frame above, and nothing
above the statement may come to a combined thunk, which would clear it. That holds
as such a unit is only ever run above a guarded entry, so no second one is let in,
and as the activations that compute the value call none. `Combining`, what may come
to a combined thunk, is a least closed set, like `CallsOut`; `HasRetFacts` solves
`HasRet`'s equation. To return data an action is again one of a few moves
(`Proceeds`, `Descends`, `Yields`; `NextReturns`). Without any one of the three
conditions TLC finds the property violated: with `UnsafeFns` as in
`MCCallFramesUnsafe.cfg`, in `MCCallFramesReturn.cfg`, and with
`CatchReturns <- MCCatchReturns` in `MCCallFrames.cfg`.

The theorems' conditions are conditions on a contract. All but `ConstructorsStay`
hold of the contract of the run `frames`; that one does not, since
that constructor calls out: there `ThunkOnlyByTry` holds for a reason the theorem
does not use, that its try assigns a local and so reverts. `MCCallFramesNew.cfg`
shows what happens when it assigns none.

**`StorageCollectionsProofs`** proves, for any words, fields, structs, arrays and
texts that satisfy the assumptions:

* `CollectionsTypeOK`: `Spec => []TypeOK`; no statement reaches behind the words
  of its field. It needs no more than the assumptions.
* `CollectionsLeaveNothingBehind`, if `Sound`: every byte of a region that is not
  part of a value held now is zero.
* `CollectionsAreValues`, if `Sound`: the code on words, offsets, masks and lengths
  implements `StoredValues`. A statement changes the value it names and no other.

The first half of the argument is about addresses, by division and remainder: two
parts of a field do not share a byte (`ApartInField`), nor do two fields
(`ApartFields`), nor a part and the whole words that some other statement clears
(`ApartWords`, `DeletedWords`). The invariant `TidyInv` is `Types`, that the length
read before an index expression is still within the array (`IndexInv`), and that
each region is zero behind its values (`Tidy`). The last two are mutually
necessary: a store behind the end would leave a byte there, and a byte behind the
end would show in the next `push()`. The refinement follows from what one write
(`StoreEffect`) and one clearing (`ZeroEffect`) do to the values read back;
`LeavesOthers` says that the other fields read the same, and `StatementStep` makes a
step of `StoredValues` of it. Each part of `Sound` answers to a finding: with a
field in `MayShrink` a store lands behind the end; a struct of at most half a word
survives `dpk_clear`; a struct that does not fill its words overlaps its neighbour,
or is deleted along with it.

**`IndentationProofs`** proves, for files of any length and indents of any depth:

* `IndentationTypeOK`: `Spec => []TypeOK`.
* `BracesFollowIndents`: the braces open at a line are those of the headers that
  enclose it by indentation, and all are closed at the end.
* `RefusesExactlyMisaligned`: a file is refused exactly if a line outside unsafe
  blocks is out of line with its block.

The properties quantify over the whole file and the pass knows a stack of
columns. The invariant says what the stack stands for: the headers whose braces
are open are exactly those the next line could still belong to (`OpenInv`), the
stack has their columns, but for a last one that waits in `pending` or `unsafe`
(`StackInv`), and every block under way already has a line at its column
(`AlignInv`), so that a line which is refused contradicts a line that was read.
`OpenAfter` is a recursive function of the lines written; what the proof needs of
it (`OpenAfterPrefix`, `OpenAfterAppend`, `OpenAfterClosing`) is shown by the least
counterexample (`LeastNatural`).

**`ModuleLoaderProofs`** proves, for any library, file systems and main files:

* `LoaderTypeOK`, and `LoaderTablesAreCurrent`: after every step the tables have, for
  each name, its last declaration.
* `LoaderBringsWhatIsReached` and `LoaderReportsWhatIsNotThere`: loading ends with
  exactly the declarations and errors its imports stand for, in whatever order the
  stack is worked off and however often a module is met.
* `LoaderNeverEndsIfCyclic`: if a module that is imported whole leads back to itself,
  loading never ends. This is the safety half of `EndsUnlessCyclic`.

`Following`, which iterates a relation as often as there are elements, reaches the
least closed set: an iteration either adds an element or changes nothing ever
after (`UptoReaches`, `FollowingLeast`, `FollowingCloses`), and so does
`symbol_closure` (`ClosureIsLeast`). The invariant says that every import on the
stack is one the files call for and that every one they call for has been
followed, is on the stack, or is led to by one that is (`OnTheWay`); that nothing
was asked, read, brought or blamed without an import that calls for it
(`AskedFor`, `ReadRight`, `BroughtRightly`, `BlamedRightly`); and that the tables
are those of the list so far. That loading never ends follows from one more: for
every import on a cycle, something on the stack leads to it (`Busy`).

**`MethodBodiesProofs`** proves, for any code, bodies, helpers and stack, and
blocks nested however deep:

* `TypeCorrect`: `Spec => []TypeOK`; internal calls stay within the stack.
* `ReturnsOnEveryPath`: no path through a method with a return type comes to the
  end of its body, without any hypothesis. `EveryPathComplete` adds that
  constructors assign the const field, if they have no return statement
  (`NewMayReturn = FALSE`).
* `VerdictHolds` and `UnguardedStaysInside`: the verdicts on mutability and on
  calls out hold on every path, if no method uses `Account.create` (`NoCreate`) and
  every call is judged at least as the method it runs (`MayMisjudge = FALSE`, so
  `JudgedAsRun`).
* `OwnCallsAreJudged`: that is so in every contract that calls its methods with `self`
  only and gives none of them a name the analyses know (`OwnNames`).
* `BodiesRunAsWritten`: the emitted code ends as the statements say and leaves the
  storage they say it leaves, if elses test parameters and arms stand in
  declaration order (`Ordered`).

Each hypothesis excludes findings and no more: without it TLC finds the
property violated (see section 5). There are three invariants.

`JudgeInv` says that every item left to run comes from the body of `f` or of a
method whose verdict is counted in that of `f` (`FromMethods`). It needs that the
verdicts are fixed points: four rounds suffice for two methods and three effects
(`EffectOfStable`, `CallsOutStable`).

`PathInv` looks ahead: on the way to every place where a call of `f` ends, the
list has something `Good`, an item that returns, reverts or, in a constructor,
assigns; and no try's mark stands between that would catch the revert and go on
(`Flow`, `AfterFrames`). A try is the delicate case: its catch block takes the
place of what was good in its body.

`RunInv` relates the list to `Runs`. An end is passed on by each item of the list
to the ends it makes of it (`Passes`): a statement adds its own, the end of a call
turns "returned" into "next", the mark of a try turns "reverted" into the ends of
its catch block from the store at its start. `Leading(todo)` are the ends that
lead to ends of `f` only, and the invariant is that (next, `store`) is one of
them. Each action has a lemma that keeps it (`CallLeads`, `IfLeads`, `LoopLeads`,
`TryLeads`, `Reverts`, `Returns`, ...). A loop's ends are the closure of its turns
(`TurnEnds`); a block put before a list leads on if its outcomes do
(`LeadingBlock`).

Induction over statements is out of the prover's reach. Where it would be used,
`FixedPoint` (a monotone function on the subsets of a set has a fixed point) shows
that the recursive functions satisfy their equations, and the equations suffice.

**`InheritanceProofs`** proves, for any finite set of classes, any programs over it
and any orders of registration, cycles and unknown parents included:

* `TypeCorrect`: `Spec => []TypeOK`; no class is under way twice, or after it is
  flattened.
* `MembersInherited`: `Spec => []InheritsMembers`. A flattened class has the fields
  of its bases, in their order, and then its own; the method found by a written name
  is its own version or the one it inherits; a qualified name finds the ancestor's.
* `FaultsReported`: `Spec => []FaultsAreReported`. Nothing is flattened that is at
  fault or has an ancestor that is, whoever is blamed is at fault (but for the
  clashes of generated names, above), and at the end no class is forgotten.

The first part is about the declarations alone. `AncestorsOf` goes up as many steps
as there are classes; each step adds a class or changes nothing ever after, so what
it finds is the least set closed under parents (`AncestorsClosed`, `AncestorsLeast`).
`Version` and `AllFields` recurse over it. Their equations hold of a class above
which there is no cycle (`Grounded`): each parent has fewer ancestors, and a least
counterexample has none (`VersionIs`, `AllFieldsIs`). On a cycle they mean
nothing, and the theorems say nothing of them there: a class on a cycle is never
flattened, which is part of what is proved.

No property is inductive: what a class is given depends on what its parents have
been given, and what makes a call on the stack right is not in the table yet. `IInv`
adds four things to the types (`StateTyped`). `Flattened`: every class in `done` is
`Sound`, that is, it has its fields, at most one method of each written name
(`Once`), which is exactly that of its `Version`, nothing but true copies under
qualified names, a copy for each ancestor's method, and no guilt; and every class not
in `done` is as declared. `Waiting`: each call has gathered exactly what the parents
it has met give (`Gathered`) and waits for the class of the call above it. `Blamed`,
and `Accounted`: a class is flattened, under way, still in `order`, or below someone who is
blamed. `Join` is then a matter of what a prefix of the parents gives and one more
parent (`MethodsGathered`, `FromFirst`), `Finish` of the first method of a name after
each of the three lists that `Overridden` and `Copies` append. A cycle found by
`Enter` is one because the stack is a chain of parents (`Waiting`).

**Only model-checked.** `ComputesExactly` beyond sums and differences: products,
quotients and powers. Everything of `AbiCodec`, whose recursion
over shapes of types uses RECURSIVE operators, which the prover
cannot take, nor induction over such data; what it can show of recursive
*functions* is shown through fixed points, least counterexamples and least
closed sets, as above. Liveness: `Terminates` and the other half of
`EndsUnlessCyclic`.

## 5. Findings

Where the code and its documents disagree, `PROJECT.json` quotes both. Three have
runs of their own, which TLC must find violated; others have the
configurations named above; of the rest, most name the constant that lets a model show them.

* **Manifest.** One compile of a source without the contract drops its
  commitment (`MCStorageLayoutDrop.cfg`).
* **Try.** A block that captures a for-iterator or a match payload is not
  hoisted and not atomic (`frames_try`). A `return` in the catch block of a try
  nested in a try is not marked, and the caller continues instead
  (`CatchReturns`); a return whose value runs another try loses its mark
  to it (`MCCallFramesReturn.cfg`), or to the method's own re-entry if that is
  `unsafe` (`MCCallFramesUnsafe.cfg`). A try in `fn new` is skipped
  without a trace, or makes the contract undeployable (`MCCallFramesNew.cfg`).
* **once** does not hold for internal calls.
* **Collections.** Fixed arrays of structs whose size is not a multiple of 32
  reserve less than they use (`collections_alias`); `delete` of a dynamic array
  of small structs leaves words behind (`qs` in `MCStorageCollections`); a
  struct field packed behind another field is addressed from the start of the slot,
  and `delete` of a struct field clears whatever shares its last word.
* **Bodies.** The condition of an `if` with an `else` is evaluated twice
  (`MCMethodBodiesElse.cfg`); match arms are numbered by position; a `return` in a
  constructor skips const fields (`NewMayReturn`); `Account.create` counts as
  pure and makes no guard (`CreateBodies`).
* **Guards and verdicts by name.** `super.m()` is judged as the override
  (`MCMethodBodiesSuper.cfg`, `MCCallFramesSuper.cfg`), `self.get()` and its like as a
  collection's operation (`MCMethodBodiesGet.cfg`), a payment to a stored account as
  the contract's own method of that name (`MCMethodBodiesPay.cfg`): a writing method is
  view, or an entry that calls out has no guard. No entry has one if the type
  checker evaluates none of the outside calls (`MCCallFramesUnnoted.cfg`).
* **Arithmetic.** Assignment does not mask; signed division of the least value,
  saturation of narrow and signed types and literals on the left go unchecked;
  mixing fixed point and integers is checked at the top of an expression only;
  `gum_muldiv` reports some divisions by zero as overflow (`Careless`).
* **Inheritance.** Overriding twice gives two methods one super name
  (`MCInheritanceSuper.cfg`); diamonds clash over generated names; interface
  obligations bind the direct child only.
* **Codec.** Locals of a narrow `bytes` type, or of a type no helper carries, do
  not survive a try (`codec_locals`); a narrow `bytes` argument of an outgoing
  call is misaligned; two shapes of type the checker accepts have no helper;
  fixed arrays of dynamic parts are taken for addresses where they are inline; a
  text parameter's offset and length, returned scalars and some enums go
  untested (`Untested`); negative narrow integers in an array or a struct are
  written zero-extended.
* **Modules.** Modules that import each other whole load for ever
  (`EndsUnlessCyclic`); a symbol brings neither an enum's payload nor what its
  module imports (`MCModuleLoaderSignature.cfg`); a library module in two
  spellings is merged twice; declarations of one name replace each other in the
  tables without an error.

## 6. Running it

    tlc -workers 2 -config MCStorageLayout.cfg MCStorageLayout.tla
    tlapm StorageLayoutProofs.tla

Each `MC*.cfg` belongs to the MC module its name starts with. The longest runs
are `layout`, `inheritance` and `collections`, a minute or so each;
`MethodBodiesProofs`, with some 5,600 obligations, is the longest proof.

## 7. What the models leave out

* The text of programs: the lexer, the parser and wording of messages. They
  keep no state.
* Generics: the instantiation of generic classes and functions. `Inheritance`
  has only the refusal of a generic parent.
* Classes that declare a field or a method twice.
* The deployment of other gum contracts: `collect_deployed_contracts`, the
  nesting of objects and its cycle, immutables (`setimmutable`), create and
  create2, and the `extcodesize` check before a call.
* `Abi.encode_packed`, the topics of events, and what an error's data looks like.
* The token contracts in the standard library, which are user programs.
* The test runner, which keeps nothing between tests; examples, scripts, tools.
* `solc` and the EVM are external: frames, revert, transient storage and word
  arithmetic are modelled as the generated code uses them.
* `**` on integers, unchecked by design; string comparison; memory arrays and
  struct construction but for the layout `AbiCodec` reads; HashMap keys (each
  entry is a region of its own).
* Sign extension of reads from packed storage, and types of committed fields:
  the manifest compares widths only, so a field may be reinterpreted.

## 8. Plan

Done: layout and manifest, frames with construction, collections, bodies,
arithmetic, inheritance, indentation, the ABI codec, module loading; the proofs
of layout, manifest, frames, arithmetic, collections, bodies, inheritance,
indentation and module loading. Next:

1. **Proofs**: products in the refinement of `ExactArithmetic`; the codec, with
   its shapes of types as indices of recursive functions.
2. **Deployment of other contracts**: `collect_deployed_contracts` and the nesting
   of objects, immutables, the failure of a create inside a try.
3. **Generics**: instantiation to a fixpoint.
