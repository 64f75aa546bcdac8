------------------------------ MODULE MethodBodies ------------------------------
(***************************************************************************)
(* The body of a method, as the compiler judges it and as the code it emits  *)
(* runs it.  The analyses are those of semantic/mod.rs (does every path       *)
(* return, does every path of `fn new` assign a const field) and of           *)
(* mutability.rs (what may the method write, may it call out).  The state      *)
(* machine runs the Yul translator.rs emits for the statements.               *)
(*                                                                         *)
(* f is the method that is called and g another of the same contract, or the   *)
(* version of f it replaced in an ancestor; either may call either.  All data   *)
(* is one storage field, one parameter, one enum value to match on, and        *)
(* whether the contract's const field was assigned.                           *)
(***************************************************************************)
EXTENDS Integers, Sequences, FiniteSets

CONSTANTS
  Code,     \* the blocks of the program: bodies, blocks in them, and what is
            \* left of a block after a statement
  Bodies,   \* bodies of f
  Helpers,  \* bodies of g
  NewMayReturn,  \* constructors may have return statements
  NameOf,   \* method -> what kind of name it has; see Names
  MayMisjudge,  \* calls may be judged as less than what they run; see JudgedAsRun
  MaxCalls  \* internal calls the stack holds; one more runs out of gas

ASSUME CallsAssumption ==
  MaxCalls \in Nat /\ NewMayReturn \in BOOLEAN /\ MayMisjudge \in BOOLEAN

(* A block is a sequence of statements, a statement a record whose op says     *)
(* what it is:                                                              *)
(*   set to, read         the storage field                                 *)
(*   const                assigns the const field                           *)
(*   external             calls another contract, reverts if that fails      *)
(*   pay                  self.account.pay(..) or .transfer(..), alike       *)
(*   create               Account.create(..), reverts if that fails          *)
(*   call to as           self.to(); or the version f replaced, by super.f()  *)
(*                        or by its class's name ("qualified")               *)
(*   return, revert                                                         *)
(*   if cond then else    else is <<>> where there is none                   *)
(*   while cond body, for body                                              *)
(*   match arms           each arm has a variant and a body                  *)
(*   try body catch                                                         *)
(* A cond is "param" or "field", the storage field.                          *)
Methods == {"f", "g"}
Bit == 0 .. 1
Conds == {"param", "field"}

(* Names mutability.rs has arms for: "get" (length, len), "push" (pop),          *)
(* "balance" (delegated_to, is_delegated, verify_p256), "slice" (saturate,       *)
(* as_bytes, as_bits, serialize, concat), "pay" (transfer, create, create2).      *)
Names == {"plain", "get", "push", "balance", "slice", "pay"}
ASSUME NamesAssumption == NameOf \in [Methods -> Names]

Statements ==
  [op : {"read", "const", "external", "pay", "create", "return", "revert"}]
  \cup [op : {"set"}, to : Bit]
  \cup [op : {"call"}, to : Methods, as : {"self"}]
  \cup [op : {"call"}, to : {"g"}, as : {"super", "qualified"}]
  \cup [op : {"if"}, cond : Conds, then : Code, else : Code]
  \cup [op : {"while"}, cond : Conds, body : Code]
  \cup [op : {"for"}, body : Code]
  \cup [op : {"match"}, arms : {a \in Seq([variant : Bit, body : Code]) :
                                 \A v \in Bit : \E i \in DOMAIN a : a[i].variant = v}]
  \cup [op : {"try"}, body : Code, catch : Code]

ASSUME CodeAssumption ==
  /\ Bodies \subseteq Code /\ Helpers \subseteq Code
  /\ Code \subseteq Seq(Statements)
  /\ \A b \in Code : \A i \in DOMAIN b : SubSeq(b, i + 1, Len(b)) \in Code

Blocks(s) ==
  CASE s.op = "if"             -> {s.then, s.else}
    [] s.op \in {"while", "for"} -> {s.body}
    [] s.op = "match"          -> {s.arms[i].body : i \in DOMAIN s.arms}
    [] s.op = "try"            -> {s.body, s.catch}
    [] OTHER                   -> {}

-----------------------------------------------------------------------------
(* What the compiler decides.                                               *)

(* The statements of a block, however deep: what the analyses below visit.      *)
Inside[b \in Code] ==
  UNION {{b[i]} \cup UNION {Inside[c] : c \in Blocks(b[i])} : i \in DOMAIN b}

(* Blocks are nested finitely deep: there is nothing else inside one.            *)
ASSUME InsideAssumption == \A b \in Code : Inside[b] \subseteq Statements

Holds(b, ops) == \E s \in Inside[b] : s.op \in ops

(* has_loop, body_has_return: of a try's body.                               *)
InTry(b, ops) == \E s \in Inside[b] : s.op = "try" /\ Holds(s.body, ops)

Diverges[b \in Code] ==
  \E i \in DOMAIN b :
    \/ b[i].op \in {"return", "revert"}
    \/ b[i].op \in {"if", "match", "try"} /\ \A c \in Blocks(b[i]) : Diverges[c]

(* check_returns asks the same of a method with a return type.               *)
CheckReturns(b) == Diverges[b]

(* Slip: one branch or arm that assigns is enough.                           *)
SometimesAssigns(b) == Holds(b, {"const"})

Assigns[b \in Code] ==
  \E i \in DOMAIN b :
    \/ b[i].op = "const"
    \/ b[i].op \in {"if", "match"} /\ \A c \in Blocks(b[i]) : (Assigns[c] \/ Diverges[c])

DefinitelyAssigns(b) == Assigns[b]

(* Mut.                                                                    *)
Pure == 0
View == 1
NonPayable == 2

CondEffect(s) == IF s.op \in {"if", "while"} /\ s.cond = "field" THEN View ELSE Pure

(* The method whose name and verdict a call is judged by: the versions that f   *)
(* replaced have names of their own, yet are called by that of f.             *)
JudgedAs(s) == IF s.as = "self" THEN s.to ELSE "f"

(* What is called on storage, self or a class, writes, whatever it does.        *)
CallEffect(s, known) ==
  LET m == JudgedAs(s) IN
  IF s.as # "super" THEN IF NameOf[m] = "get" THEN View ELSE NonPayable
  ELSE CASE NameOf[m] = "balance" -> View
         [] NameOf[m] = "slice"   -> Pure
         [] OTHER                 -> known[m]

(* Slip: conditions are not looked at.                                       *)
EffectButConditions(s, known) ==
  CASE s.op \in {"set", "const", "external", "pay", "try"} -> NonPayable
    [] s.op = "read" -> View
    [] s.op = "call" -> CallEffect(s, known)
    [] OTHER         -> Pure

StatementEffect(s, known) ==
  CASE s.op \in {"set", "const", "external", "pay"} -> NonPayable
    [] s.op = "try"  -> NonPayable   \* hoisted: a ScopedTryCall
    [] s.op = "read" -> View
    [] s.op = "call" -> CallEffect(s, known)
    [] OTHER         -> CondEffect(s)   \* create too: of a StaticCall only the arguments count

StmtsEffect(b, known) ==
  LET effects == {Pure} \cup {StatementEffect(s, known) : s \in Inside[b]}
  IN  CHOOSE e \in effects : \A d \in effects : d <= e

(* A round of analyze_class.                                                *)
EffectRound(bodies, known) == [m \in Methods |-> StmtsEffect(bodies[m], known)]
NoEffects == [m \in Methods |-> Pure]

(* A round for each of the two methods and two more.                         *)
EffectOf(bodies) ==
  LET Round(known) == EffectRound(bodies, known)
  IN  Round(Round(Round(Round(NoEffects))))

CallJudgedOut(s, known) ==
  LET m == JudgedAs(s) IN
  IF s.as # "super" THEN NameOf[m] \notin {"get", "push"} /\ m \in known
  ELSE NameOf[m] = "pay" \/ (NameOf[m] \notin {"balance", "slice"} /\ m \in known)

(* A payment to a stored account is taken for self.pay(), if there is one.      *)
JudgedOut(s, known) ==
  \/ s.op \in {"external", "try"}
  \/ s.op = "pay" /\ \A m \in Methods : NameOf[m] = "pay" => m \in known
  \/ s.op = "call" /\ CallJudgedOut(s, known)

StmtsCallOut(b, known) == \E s \in Inside[b] : JudgedOut(s, known)

CallsOutRound(bodies, known) == {m \in Methods : m \in known \/ StmtsCallOut(bodies[m], known)}

(* Slip: methods are judged one by one, without a second look.               *)
CallsOutOnce(bodies) == CallsOutRound(bodies, {})

CallsOutOf(bodies) ==
  LET Round(known) == CallsOutRound(bodies, known)
  IN  Round(Round(Round(Round({}))))

(* Each call is judged at least as what it runs, and each payment to call out.  *)
JudgedAsRun(bodies) ==
  LET effects == EffectOf(bodies)
      out     == CallsOutOf(bodies)
  IN  \A m \in Methods : \A s \in Inside[bodies[m]] :
        /\ s.op = "call" => /\ effects[s.to] <= StatementEffect(s, effects)
                            /\ s.to \in out => JudgedOut(s, out)
        /\ s.op = "pay" => JudgedOut(s, out)

CallStatements(b) == {s \in Inside[b] : s.op = "call"}

(* g is a method of the contract or what f replaced, whose super is another's.   *)
Overrides(bodies) ==
  /\ LET calls == CallStatements(bodies["f"]) \cup CallStatements(bodies["g"]) IN
     \A s, t \in {c \in calls : c.to = "g"} : s.as = "self" <=> t.as = "self"
  /\ \A s \in CallStatements(bodies["g"]) : s.as # "super"

(* A contract the semantic analysis lets through.  f is an ordinary method     *)
(* ("fn"), one with a return type ("value") or the constructor ("new"), which  *)
(* nothing calls and which, of the two, may assign the const field.  Every try  *)
(* is one that runs as a frame of its own: CallFrames has the others, and in a  *)
(* constructor its thunk is called where no code is yet.                      *)
Accepted(kind, bodies) ==
  /\ Overrides(bodies)
  /\ \A m \in Methods : ~InTry(bodies[m], {"for", "while"})
  /\ ~Holds(bodies["g"], {"const"}) /\ ~InTry(bodies["g"], {"return"})
  /\ CASE kind = "fn"    -> ~Holds(bodies["f"], {"const"}) /\ ~InTry(bodies["f"], {"return"})
       [] kind = "value" -> ~Holds(bodies["f"], {"const"}) /\ CheckReturns(bodies["f"])
       [] kind = "new"   -> /\ DefinitelyAssigns(bodies["f"])
                            /\ \A m \in Methods :
                                 /\ ~Holds(bodies[m], {"try"})
                                 /\ \A s \in CallStatements(bodies[m]) : s.to = "g" /\ s.as = "self"

-----------------------------------------------------------------------------
(* What the statements say: the ends a block may come to.  An end is how       *)
(* ("next", "returned", "reverted") and the store it leaves.                  *)

Store == [field : Bit, assigned : BOOLEAN]
End(how, st) == [how |-> how, store |-> st]

True(cond, in, st) == IF cond = "param" THEN in.param ELSE st.field = 1

EndsOf(s, st, calls, bodies, in, ends) ==
  CASE s.op = "set"      -> {End("next", [st EXCEPT !.field = s.to])}
    [] s.op = "const"    -> {End("next", [st EXCEPT !.assigned = TRUE])}
    [] s.op = "read"     -> {End("next", st)}
    [] s.op \in {"external", "pay", "create"} -> {End("next", st), End("reverted", st)}
    [] s.op = "return"   -> {End("returned", st)}
    [] s.op = "revert"   -> {End("reverted", st)}
    [] s.op = "call" ->
         IF calls = 0 THEN {End("reverted", st)}
         ELSE {IF e.how = "returned" THEN End("next", e.store) ELSE e :
                 e \in ends[<<bodies[s.to], st, calls - 1>>]}
    [] s.op = "if" -> ends[<<IF True(s.cond, in, st) THEN s.then ELSE s.else, st, calls>>]
    [] s.op = "match" ->
         ends[<<(CHOOSE a \in {s.arms[i] : i \in DOMAIN s.arms} : a.variant = in.tag).body, st, calls>>]
    [] s.op = "try" ->
         UNION {IF e.how = "reverted" THEN ends[<<s.catch, st, calls>>] ELSE {e} :
                  e \in ends[<<s.body, st, calls>>]}
    [] s.op \in {"while", "for"} ->
         LET goes  == {t \in Store : s.op = "for" \/ True(s.cond, in, t)}
             stops == {t \in Store : s.op = "for" \/ ~True(s.cond, in, t)}
             turns == UNION {{<<t, e>> : e \in ends[<<s.body, t, calls>>]} : t \in goes}
             Closed(heads) == \A x \in turns :
                                x[1] \in heads /\ x[2].how = "next" => x[2].store \in heads
             tests == {t \in Store : \A heads \in SUBSET Store :
                                      st \in heads /\ Closed(heads) => t \in heads}
         IN {End("next", t) : t \in tests \cap stops}
              \cup {x[2] : x \in {y \in turns : y[1] \in tests /\ y[2].how # "next"}}

(* Where a block may run: from a store, with so many calls left.               *)
Points == Code \X Store \X (0 .. MaxCalls)

Runs(bodies, in) ==
  LET ends[p \in Points] ==
        IF p[1] = <<>> THEN {End("next", p[2])}
        ELSE UNION {IF e.how = "next" THEN ends[<<Tail(p[1]), e.store, p[3]>>] ELSE {e} :
                      e \in EndsOf(Head(p[1]), p[2], p[3], bodies, in, ends)}
  IN  ends

-----------------------------------------------------------------------------
(* What the emitted code does.                                              *)

VARIABLES
  kind,   \* of f
  body,   \* of f and g
  input,  \* the parameter and the enum value
  store,
  did,    \* the strongest effect so far and whether the contract called out
  todo,   \* what is left to run: statements, and marks that end a call or a try
  how     \* "running", or how the call of f ended

vars == <<kind, body, input, store, did, todo, how>>
program == <<kind, body, input>>

Input == [param : BOOLEAN, tag : Bit]
New == [field |-> 0, assigned |-> FALSE]

(* Marks: the end of self.m(), the end of a try's frame with what undoes it,    *)
(* and the second test of an if's condition.                                *)
EndCall(m) == [op |-> "end_call", of |-> m]
EndTry(catch, st) == [op |-> "end_try", catch |-> catch, snap |-> st]
Else(s) == [op |-> "else", cond |-> s.cond, body |-> s.else]

Init ==
  /\ kind \in {"fn", "value", "new"}
  /\ body \in [f : Bodies, g : Helpers]
  /\ Accepted(kind, body)
  /\ kind = "new" => NewMayReturn \/ ~Holds(body.f, {"return"})
  /\ MayMisjudge \/ JudgedAsRun(body)
  /\ input \in Input
  /\ store = New
  /\ did = [effect |-> Pure, out |-> FALSE]
  /\ todo = body.f
  /\ how = "running"

At(ops) == how = "running" /\ todo # <<>> /\ Head(todo).op \in ops
S == Head(todo)
Rest == Tail(todo)

Having(effect) == [did EXCEPT !.effect = IF effect > @ THEN effect ELSE @]

Continue(with) == todo' = with /\ UNCHANGED <<program, how>>

Read ==
  /\ At({"read"})
  /\ did' = Having(View)
  /\ Continue(Rest) /\ UNCHANGED store

Assign ==
  /\ At({"set", "const"})
  /\ store' = IF S.op = "set" THEN [store EXCEPT !.field = S.to]
                              ELSE [store EXCEPT !.assigned = TRUE]
  /\ did' = Having(NonPayable)
  /\ Continue(Rest)

External ==
  /\ At({"external", "pay", "create"})
  /\ did' = [effect |-> NonPayable, out |-> TRUE]
  /\ Continue(Rest) /\ UNCHANGED store

(* Slip: a try's frame is left with its writes kept.                         *)
KeepStore(mark) == store

Restored(mark) == mark.snap

First(ops) == LET places == {i \in DOMAIN todo : todo[i].op \in ops} IN
  CHOOSE i \in places : \A j \in places : i <= j

Marked(op) == \E i \in DOMAIN todo : todo[i].op = op
After(i) == SubSeq(todo, i + 1, Len(todo))

(* A frame reverts: the catch block of the try it was made for runs, or the    *)
(* whole call is undone.                                                    *)
Fails ==
  /\ UNCHANGED program
  /\ IF Marked("end_try")
     THEN LET i == First({"end_try"}) IN
          /\ todo' = todo[i].catch \o After(i)
          /\ store' = Restored(todo[i])
          /\ UNCHANGED how
     ELSE todo' = <<>> /\ how' = "reverted" /\ UNCHANGED store

ExternalFails ==
  /\ At({"external", "pay", "create"})
  /\ did' = [effect |-> NonPayable, out |-> TRUE]
  /\ Fails

Revert == At({"revert"}) /\ Fails /\ UNCHANGED did

Return ==
  /\ At({"return"})
  /\ IF Marked("end_call") THEN Continue(After(First({"end_call"})))
     ELSE todo' = <<>> /\ how' = "returned" /\ UNCHANGED program
  /\ UNCHANGED <<store, did>>

Depth(items) == Cardinality({i \in DOMAIN items : items[i].op = "end_call"})

(* Slip: one call more than there is room for.                               *)
StackFullLate(items) == Depth(items) > MaxCalls

StackFull(items) == Depth(items) = MaxCalls

Call ==
  /\ At({"call"})
  /\ IF StackFull(todo)
     THEN Fails
     ELSE Continue(body[S.to] \o <<EndCall(S.to)>> \o Rest) /\ UNCHANGED store
  /\ UNCHANGED did

EndMark == At({"end_call", "end_try"}) /\ Continue(Rest) /\ UNCHANGED <<store, did>>

(* if c { then } if iszero(c) { else }                                       *)
If ==
  /\ At({"if"})
  /\ did' = Having(CondEffect(S))
  /\ Continue((IF True(S.cond, input, store) THEN S.then ELSE <<>>)
              \o (IF S.else = <<>> THEN <<>> ELSE <<Else(S)>>) \o Rest)
  /\ UNCHANGED store

ElseTest ==
  /\ At({"else"})
  /\ Continue((IF True(S.cond, input, store) THEN <<>> ELSE S.body) \o Rest)
  /\ UNCHANGED <<store, did>>

While ==
  /\ At({"while"})
  /\ did' = Having(CondEffect(S))
  /\ Continue(IF True(S.cond, input, store) THEN S.body \o todo ELSE Rest)
  /\ UNCHANGED store

(* The array of a for loop has any number of elements left.                   *)
For ==
  /\ At({"for"})
  /\ Continue(S.body \o todo) \/ Continue(Rest)
  /\ UNCHANGED <<store, did>>

(* Slip: arms are counted from one.                                         *)
NextArm(arms, tag) == IF tag + 2 \in DOMAIN arms THEN arms[tag + 2].body ELSE <<>>

(* switch tag: an arm's case is its place among the arms.                     *)
ArmFor(arms, tag) == IF tag + 1 \in DOMAIN arms THEN arms[tag + 1].body ELSE <<>>

Match ==
  /\ At({"match"})
  /\ Continue(ArmFor(S.arms, input.tag) \o Rest)
  /\ UNCHANGED <<store, did>>

(* A hoisted try: a self-call, with two transient stores around it.            *)
Try ==
  /\ At({"try"})
  /\ did' = Having(NonPayable)
  /\ Continue(S.body \o <<EndTry(S.catch, store)>> \o Rest)
  /\ UNCHANGED store

FallOff ==
  /\ how = "running" /\ todo = <<>>
  /\ how' = "fell"
  /\ UNCHANGED <<program, store, did, todo>>

Next ==
  \/ Read \/ Assign \/ External \/ ExternalFails \/ Revert \/ Return \/ Call \/ EndMark
  \/ If \/ ElseTest \/ While \/ For \/ Match \/ Try \/ FallOff

Spec == Init /\ [][Next]_vars

-----------------------------------------------------------------------------
(* Properties.                                                              *)

(* Every variable has the values the code gives it, and internal calls stay    *)
(* within the stack.                                                        *)
TypeOK ==
  /\ store \in Store
  /\ did \in [effect : {Pure, View, NonPayable}, out : BOOLEAN]
  /\ how \in {"running", "returned", "fell", "reverted"}
  /\ how # "running" => todo = <<>>
  /\ Depth(todo) <= MaxCalls

(* A body ends the way its statements say it does, and leaves the storage they *)
(* say it leaves: one branch of an if, the arm of the variant, a try's writes   *)
(* or its catch block's.                                                    *)
RunsAsWritten ==
  LET ends == Runs(body, input)[<<body.f, New, MaxCalls>>] IN
  CASE how = "running"  -> TRUE
    [] how = "reverted" -> \E e \in ends : e.how = "reverted"
    [] OTHER -> End(IF how = "fell" THEN "next" ELSE how, store) \in ends

(* No path through a method with a return type comes to the end of its body     *)
(* ("does not guarantee a return on all paths" is an error), be it called from  *)
(* outside or as a helper.                                                  *)
NeverFallsOff ==
  kind = "value" => how # "fell" /\ ~(At({"end_call"}) /\ S.of = "f")

(* When the constructor is done and the contract is deployed, the const field   *)
(* was assigned ("every path reaching the end of fn new() has assigned it",      *)
(* STORAGE.md).                                                             *)
ConstAssigned == kind = "new" /\ how \in {"fell", "returned"} => store.assigned

(* What check_returns and the check of const fields promise for every path.     *)
PathsComplete == NeverFallsOff /\ ConstAssigned

(* What the ABI calls view writes nothing, and what it calls pure reads nothing *)
(* either, on any path, in helpers and reverted blocks as well ("calling a       *)
(* writing function view invites callers to reach it with eth_call", SPEC.md).  *)
MutabilityHonest == did.effect <= EffectOf(body).f

(* A method judged not to call out, which gets no guard for it, never hands      *)
(* control to another contract.                                             *)
CallsOutHonest == did.out => "f" \in CallsOutOf(body)

-----------------------------------------------------------------------------
(* What the compiler gets right only so far, and the hypotheses of theorems:    *)
(* the analyses look at no more than the arguments of Account.create             *)
(* (mutability.rs:246); an else tests its condition again after the then branch   *)
(* (translator.rs:637); a match takes the arm at the place of the variant        *)
(* (translator.rs:753).                                                     *)
NoCreate == \A b \in Bodies \cup Helpers : ~Holds(b, {"create"})

OrderedStatement(s) ==
  /\ s.op = "if" /\ s.else # <<>> => s.cond = "param"
  /\ s.op = "match" => \A i \in DOMAIN s.arms : s.arms[i].variant = i - 1
Ordered == \A b \in Bodies \cup Helpers : \A s \in Inside[b] : OrderedStatement(s)

=============================================================================
