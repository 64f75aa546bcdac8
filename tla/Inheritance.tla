------------------------------ MODULE Inheritance ------------------------------
(***************************************************************************)
(* flatten_inheritance, of the type checker: every class is given a copy of *)
(* its ancestors' fields and methods.  Classes are taken in the order the     *)
(* modules declared them, parents first, with the classes under way on a      *)
(* stack.  What the later passes look up is the first method of a name.       *)
(*                                                                         *)
(* A body stands for the code some class wrote for a method; calls in it are  *)
(* resolved by the names below in whatever class the body was copied to.      *)
(***************************************************************************)
EXTENDS Integers, Sequences, SequencesExt, FiniteSets, FiniteSetsExt

CONSTANTS
  Classes,        \* the classes of a program
  Methods,        \* method names a programmer writes
  New,            \* the constructor's name
  Programs,       \* the programs: class -> [kind, parents, fields, methods]
  Orders          \* the orders their classes are registered in

Kinds == {"class", "contract", "generic", "interface"}
None == "none"

(* A class declares no field and no method twice.  Every class is registered.  *)
IsList(s) == s \in Seq(ToSet(s))

ASSUME ClassesAssumption == IsFiniteSet(Classes) /\ {"", "super", None} \cap Classes = {}

ASSUME ProgramsAssumption ==
  /\ \A p \in Programs, c \in Classes :
       /\ p[c].kind \in Kinds /\ IsList(p[c].parents)
       /\ IsList(p[c].fields) /\ IsInjective(p[c].fields)
       /\ IsList(p[c].methods) /\ IsInjective([i \in DOMAIN p[c].methods |-> p[c].methods[i].method])
       /\ \A i \in DOMAIN p[c].methods : p[c].methods[i].method \in Methods
  /\ \A o \in Orders : o \in Seq(Classes) /\ ToSet(o) = Classes

VARIABLES
  program,        \* the declarations, as written
  order,          \* class_order: the classes still to be flattened
  loaded,         \* loaded_classes: class -> [fields, methods, ancestors]
  done,           \* the classes that are flattened
  stack,          \* the calls of flatten_class under way
  errors          \* what was reported: [class, why]

vars == <<program, order, loaded, done, stack, errors>>

-----------------------------------------------------------------------------
(* Names.  A method's name in a flattened class is the written one, the one   *)
(* super_name gives the version it replaced, or the qualified one that reaches *)
(* a named ancestor's version.                                               *)
Plain(m) == <<"", m>>
Super(m) == <<"super", m>>
Qualified(a, m) == <<a, m>>

Names == ({"", "super"} \cup Classes) \X Methods

Named(seq, name) == SelectInSeq(seq, LAMBDA e : e.name = name)
Has(seq, name) == Named(seq, name) # 0

(* The method the type checker and the translator find by a name in class c.  *)
Lookup(c, name) == loaded[c].methods[Named(loaded[c].methods, name)]

(* The declaration of class c, before it is flattened.                       *)
Own(c) ==
  [fields |-> [i \in DOMAIN program[c].fields |-> [name |-> program[c].fields[i], of |-> c]],
   methods |-> [i \in DOMAIN program[c].methods |->
                  [name |-> Plain(program[c].methods[i].method),
                   sig |-> program[c].methods[i].sig, body |-> c]],
   ancestors |-> {}]

-----------------------------------------------------------------------------
(* What a call of flatten_class has gathered from the parents so far.         *)
NewFrame(c) ==
  [class |-> c, next |-> 1, fields |-> <<>>, methods |-> <<>>, ancestors |-> {}, required |-> <<>>]

OnStack == {stack[i].class : i \in DOMAIN stack}
Top == Last(stack)
ParentsLeft == stack # <<>> /\ Top.next <= Len(program[Top.class].parents)
Parent == program[Top.class].parents[Top.next]

(* Slip: only the outermost call reports.                                    *)
FailInside(c, why) ==
  /\ errors' = IF Len(stack) > 1 THEN errors ELSE errors \cup {[class |-> c, why |-> why]}
  /\ stack' = <<>>
  /\ UNCHANGED <<loaded, done>>

(* An error leaves every call under way: the classes on the stack stay as      *)
(* they were declared.                                                       *)
Fail(c, why) ==
  /\ errors' = errors \cup {[class |-> c, why |-> why]}
  /\ stack' = <<>>
  /\ UNCHANGED <<loaded, done>>

(* Slip: no look at the calls under way.                                     *)
EnterAgain(c) ==
  /\ c \notin done /\ Len(stack) <= Cardinality(Classes)
  /\ stack' = Append(stack, NewFrame(c))
  /\ UNCHANGED <<loaded, done, errors>>

(* Slip: a class under way counts as flattened.                              *)
EnterOrSkip(c) ==
  \/ /\ c \in done \cup OnStack
     /\ UNCHANGED <<loaded, done, stack, errors>>
  \/ /\ c \notin done \cup OnStack
     /\ stack' = Append(stack, NewFrame(c))
     /\ UNCHANGED <<loaded, done, errors>>

(* The entry of flatten_class.                                              *)
Enter(c) ==
  \/ /\ c \in done
     /\ UNCHANGED <<loaded, done, stack, errors>>
  \/ /\ c \notin done /\ c \in OnStack
     /\ Fail(Top.class, "cycle")
  \/ /\ c \notin done /\ c \notin OnStack /\ program[c].parents = <<>>
     /\ done' = done \cup {c}
     /\ UNCHANGED <<loaded, stack, errors>>
  \/ /\ c \notin done /\ c \notin OnStack /\ program[c].parents # <<>>
     /\ stack' = Append(stack, NewFrame(c))
     /\ UNCHANGED <<loaded, done, errors>>

Begin ==
  /\ stack = <<>> /\ order # <<>>
  /\ order' = Tail(order)
  /\ Enter(Head(order))
  /\ UNCHANGED program

Descend ==
  /\ ParentsLeft /\ Parent \in Classes \ done
  /\ Enter(Parent)
  /\ UNCHANGED <<program, order>>

UnknownParent ==
  /\ ParentsLeft /\ Parent \notin Classes
  /\ Fail(Top.class, "unknown")
  /\ UNCHANGED <<program, order>>

-----------------------------------------------------------------------------
(* The parent's fields and methods join those of the parents before it.       *)
Clashes(fields, more) == \E i \in DOMAIN fields, j \in DOMAIN more : fields[i].name = more[j].name

(* A method a second parent, or the same one again, brings by a name that is    *)
(* taken: it is dropped, if the class declares the method itself.              *)
Taken(methods, more, i) ==
  Has(methods, more[i].name) \/ Has(SubSeq(more, 1, i - 1), more[i].name)

Joined(methods, more) ==
  LET free == [i \in DOMAIN more |-> IF Taken(methods, more, i) THEN <<>> ELSE <<more[i]>>]
  IN  methods \o FlattenSeq(free)

(* The first of them that the class does not declare, 0 if there is none.       *)
Undecided(c, methods, more) ==
  LET S == {i \in DOMAIN more : Taken(methods, more, i) /\ ~ Has(Own(c).methods, more[i].name)}
  IN  IF S = {} THEN 0 ELSE Min(S)

(* Why a parent cannot be joined, in the order of the checks.                *)
Refusal(c, p) ==
  LET clash == Undecided(c, Top.methods, loaded[p].methods)
  IN  CASE program[p].kind = "generic"             -> "generic"
        [] program[p].kind = "contract"            -> "contract"
        [] program[p].kind = "interface"           -> "none"
        [] program[p].kind = "class" /\ Clashes(Top.fields, loaded[p].fields) -> "field"
        [] OTHER -> IF clash = 0 THEN "none"
                    ELSE IF loaded[p].methods[clash].name[1] = "" THEN "method" ELSE "copy"

WithParent(frame, p) ==
  LET met == [frame EXCEPT !.next = @ + 1, !.ancestors = @ \cup {p} \cup loaded[p].ancestors]
  IN  IF program[p].kind = "interface"
      THEN [met EXCEPT !.required = @ \o loaded[p].methods]
      ELSE [met EXCEPT !.fields = @ \o loaded[p].fields,
                       !.methods = Joined(@, loaded[p].methods)]

Join ==
  /\ ParentsLeft /\ Parent \in done
  /\ \/ /\ Refusal(Top.class, Parent) # "none"
        /\ Fail(Top.class, Refusal(Top.class, Parent))
     \/ /\ Refusal(Top.class, Parent) = "none"
        /\ stack' = Append(Front(stack), WithParent(Top, Parent))
        /\ UNCHANGED <<loaded, done, errors>>
  /\ UNCHANGED <<program, order>>

-----------------------------------------------------------------------------
(* Slip: the class's own methods go behind those they replace.               *)
OverriddenBehind(methods, own) == methods \o own

(* The class's own methods replace the inherited ones where they stand; the    *)
(* replaced ones follow under their super names.                             *)
Overridden(methods, own) ==
  LET At(m) == Named(own, m.name)
      kept == [i \in DOMAIN methods |->
                 IF At(methods[i]) # 0 /\ Named(methods, methods[i].name) = i
                 THEN own[At(methods[i])] ELSE methods[i]]
      SuperOf(m) == [methods[Named(methods, m.name)] EXCEPT !.name = Super(m.name[2])]
      added == [i \in DOMAIN own |-> IF Has(methods, own[i].name) THEN <<>> ELSE <<own[i]>>]
      supers == [i \in DOMAIN own |->
                   IF Has(methods, own[i].name) THEN <<SuperOf(own[i])>> ELSE <<>>]
  IN  kept \o FlattenSeq(added) \o FlattenSeq(supers)

(* Every ancestor's methods under their qualified names, constructors and      *)
(* copies aside.                                                             *)
Copies(methods, ancestors) ==
  LET Of(a) == {[m EXCEPT !.name = Qualified(a, m.name[2])] :
                  m \in {n \in ToSet(loaded[a].methods) : n.name[1] = "" /\ n.name[2] # New}}
  IN  SetToSeq({m \in UNION {Of(a) : a \in ancestors} : ~ Has(methods, m.name)})

(* The first interface method that is not there, or not with its signature.    *)
Breach(methods, required) ==
  LET Missing(want) == ~ Has(methods, want.name)
      Differs(want) == ~ Missing(want) /\ methods[Named(methods, want.name)].sig # want.sig
      first == SelectInSeq(required, LAMBDA want : Missing(want) \/ Differs(want))
  IN  CASE first = 0                        -> "none"
        [] first # 0 /\ required[first].name[1] # "" -> "copy"
        [] OTHER -> IF Missing(required[first]) THEN "missing" ELSE "signature"

Finish ==
  /\ stack # <<>> /\ ~ ParentsLeft
  /\ LET own == Own(Top.class) IN
     \E methods \in {Overridden(Top.methods, own.methods)} :
     LET breach == Breach(methods, Top.required)
     IN  \/ /\ Clashes(Top.fields, own.fields)
            /\ Fail(Top.class, "field")
         \/ /\ ~ Clashes(Top.fields, own.fields) /\ breach # "none"
            /\ Fail(Top.class, breach)
         \/ /\ ~ Clashes(Top.fields, own.fields) /\ breach = "none"
            /\ loaded' = [loaded EXCEPT ![Top.class] =
                            [fields |-> Top.fields \o own.fields,
                             methods |-> methods \o Copies(methods, Top.ancestors),
                             ancestors |-> Top.ancestors]]
            /\ done' = done \cup {Top.class}
            /\ stack' = Front(stack)
            /\ UNCHANGED errors
  /\ UNCHANGED <<program, order>>

-----------------------------------------------------------------------------
Init ==
  /\ program \in Programs
  /\ order \in Orders
  /\ loaded = [c \in Classes |-> Own(c)]
  /\ done = {} /\ stack = <<>> /\ errors = {}

(* flatten_inheritance returns; the checks of the bodies follow.              *)
Finished == stack = <<>> /\ order = <<>>

Stop == Finished /\ UNCHANGED vars

Next == Begin \/ Descend \/ UnknownParent \/ Join \/ Finish \/ Stop

(* One thread runs the loop to its end.                                      *)
Spec == Init /\ [][Next]_vars /\ WF_vars(Next)

-----------------------------------------------------------------------------
(* What the declarations mean, class by class.                               *)
Parents(c) == program[c].parents
ParentsOf(c) == IF c \in Classes THEN ToSet(Parents(c)) ELSE {}
Declares(c, m) == Has(Own(c).methods, Plain(m))

(* The places of the parents whose members a class has.                       *)
Bases(c) == {i \in DOMAIN Parents(c) :
               Parents(c)[i] \in Classes /\ program[Parents(c)[i]].kind # "interface"}

(* The classes above c: its parents, theirs, and so on.  No way up that repeats  *)
(* no class is longer than there are classes.                                *)
AncestorsOf(c) ==
  LET within[n \in 0 .. Cardinality(Classes)] ==
        LET below == IF n = 0 THEN {c} ELSE within[n - 1]
        IN  {a \in Classes : (n > 0 /\ a \in below) \/ \E p \in below : a \in ParentsOf(p)}
  IN  within[Cardinality(Classes)]

Lineage(c) == {c} \cup AncestorsOf(c)

(* The class whose body of m an object of class c has: its own, or that of its  *)
(* first base that has one.                                                   *)
Version(c, m) ==
  LET version[d \in Lineage(c)] ==
        LET from == {i \in Bases(d) : version[Parents(d)[i]] # None}
        IN  IF Declares(d, m) THEN d
            ELSE IF from = {} THEN None ELSE version[Parents(d)[Min(from)]]
  IN  version[c]

(* The bases of c that have m, and the body that m of class c replaces.         *)
Giving(c, m) == {i \in Bases(c) : Version(Parents(c)[i], m) # None}

Replaced(c, m) ==
  IF Declares(c, m) /\ Giving(c, m) # {} THEN Version(Parents(c)[Min(Giving(c, m))], m) ELSE None

(* The bases' fields, then the class's own.                                  *)
AllFields(c) ==
  LET all[d \in Lineage(c)] ==
        FlattenSeq([i \in DOMAIN Parents(d) |->
                      IF i \in Bases(d) THEN all[Parents(d)[i]] ELSE <<>>])
        \o Own(d).fields
  IN  all[c]

(* The fields of the base at a place, of the class itself at place 0.           *)
FieldsAt(c, i) == IF i = 0 THEN Own(c).fields ELSE AllFields(Parents(c)[i])

(* The errors a class can be guilty of.  SignatureOf is of the written method. *)
SignatureOf(c, m) == Own(c).methods[Named(Own(c).methods, Plain(m))].sig

Obliging(c) == {i \in ParentsOf(c) \cap Classes : program[i].kind = "interface"}

Guilty(c, why) ==
  CASE why = "unknown"  -> ~ ParentsOf(c) \subseteq Classes
    [] why = "cycle"    -> c \in AncestorsOf(c)
    [] why \in {"generic", "contract"} -> \E p \in ParentsOf(c) \cap Classes : program[p].kind = why
    [] why = "field"    -> \E i, j \in Bases(c) \cup {0} :
                             i # j /\ Clashes(FieldsAt(c, i), FieldsAt(c, j))
    [] why = "method"   -> \E m \in Methods : \E i, j \in Giving(c, m) : i # j /\ ~ Declares(c, m)
    [] why = "missing"  -> \E i \in Obliging(c), m \in Methods :
                             Version(i, m) # None /\ Version(c, m) = None
    [] why = "signature" -> \E i \in Obliging(c), m \in Methods :
                             /\ Version(i, m) # None /\ Version(c, m) # None
                             /\ SignatureOf(Version(c, m), m) # SignatureOf(Version(i, m), m)
    [] OTHER            -> FALSE

Faults == {"unknown", "cycle", "generic", "contract", "field", "method", "missing", "signature"}

-----------------------------------------------------------------------------
(* Fields and methods are what the structure of the state says, the classes     *)
(* under way are not finished, and no class is under way twice.              *)
TypeOK ==
  /\ done \subseteq Classes
  /\ \A c \in Classes :
       /\ \A f \in ToSet(loaded[c].fields) : f.of \in Classes
       /\ \A m \in ToSet(loaded[c].methods) : m.name \in Names /\ m.body \in Classes
       /\ loaded[c].ancestors \subseteq Classes
  /\ \A i \in DOMAIN stack : stack[i].class \notin done
  /\ Cardinality(OnStack) = Len(stack)
  /\ \A e \in errors : e.class \in Classes /\ e.why \in Faults \cup {"copy"}

(* A flattened class's fields are its parents', in the parents' order, then its *)
(* own: an inherited field has the slot it has in the parent, and a field added  *)
(* to the child moves none.                                                  *)
InheritsFields == \A c \in done : loaded[c].fields = AllFields(c)

(* The method found by a written name is the class's own version, else the one   *)
(* it inherits, whatever order the classes came in.                          *)
InheritsMethods ==
  \A c \in done, m \in Methods :
    IF Version(c, m) = None THEN ~ Has(loaded[c].methods, Plain(m))
    ELSE Has(loaded[c].methods, Plain(m)) /\ Lookup(c, Plain(m)).body = Version(c, m)

(* Child.Ancestor.method() finds the ancestor's version, of every ancestor that  *)
(* has one.                                                                  *)
ReachesAncestors ==
  \A c \in done, m \in Methods \ {New} : \A a \in AncestorsOf(c) :
    (program[a].kind # "interface" /\ Version(a, m) # None) =>
      /\ Has(loaded[c].methods, Qualified(a, m))
      /\ Lookup(c, Qualified(a, m)).body = Version(a, m)

(* What a flattened class has: its fields, its methods, its ancestors' methods. *)
InheritsMembers == InheritsFields /\ InheritsMethods /\ ReachesAncestors

(* super.method() runs the version the class replaced: there is one method of    *)
(* that name, and it has that body.                                          *)
SuperIsReplaced ==
  \A c \in done, m \in Methods :
    Replaced(c, m) # None =>
      /\ Cardinality({i \in DOMAIN loaded[c].methods : loaded[c].methods[i].name = Super(m)}) = 1
      /\ Lookup(c, Super(m)).body = Replaced(c, m)

(* A class is flattened only if it and all its ancestors are without fault, and  *)
(* whoever is blamed is at fault.  A clash of two copies under one mangled name   *)
(* is blamed on classes that have no fault: the README says when.              *)
BlamesFaults ==
  /\ \A c \in done : AncestorsOf(c) \subseteq done /\ \A why \in Faults : ~ Guilty(c, why)
  /\ \A e \in errors : e.why # "copy" => Guilty(e.class, e.why)

(* Nothing is dropped in silence: at the end a class that is not flattened is     *)
(* blamed, or has an ancestor that is.                                       *)
NothingForgotten ==
  Finished => \A c \in Classes \ done :
                \E e \in errors : e.class \in {c} \cup AncestorsOf(c)

(* The errors are right: none is made up, and none is missing.                 *)
FaultsAreReported == BlamesFaults /\ NothingForgotten

(* The recursion ends, on every shape of parents, cycles included.            *)
Terminates == <> Finished
=============================================================================
