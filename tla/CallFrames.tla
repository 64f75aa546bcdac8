------------------------------ MODULE CallFrames ------------------------------
(***************************************************************************)
(* What runs when a gum contract is deployed and called: the constructor,     *)
(* the dispatcher's reentrancy guard and capability check, `once`, the        *)
(* self-call that a hoisted try block becomes, and the EVM's call frames     *)
(* under them, whose failure rolls storage and transient storage back        *)
(* (codegen/mod.rs, translator.rs, mutability.rs).                           *)
(*                                                                         *)
(* The contract is given by the constants, its statements' order by          *)
(* nondeterminism: a body may do any of its own steps in any order.  Other    *)
(* contracts are one "outside" that calls any selector whenever it runs.      *)
(* A catch block and an inline try hold no try statement of their own.        *)
(***************************************************************************)
EXTENDS Integers, Sequences, FiniteSets

CONSTANTS
  Methods,       \* the contract's fn declarations
  New,           \* `fn new`, if there is one
  Tries,         \* its try statements
  Exports,       \* methods with a selector
  UnsafeFns,     \* `unsafe fn`: opted out of the guard
  OnceFns,       \* `once fn`
  ReadOnly,      \* methods mutability.rs infers to be view or pure
  HasReturn,     \* methods with a return type
  Internal,      \* unit -> methods its body calls with self.m(..)
  External,      \* units whose body calls another contract
  LooksUp,       \* unit -> the names analyze_external_calls looks its calls up
                 \* under, with "outside" for those it takes to call out
  Noted,         \* units, or the rest of the program ("outside"), in which the
                 \* type checker comes to what sets has_external_calls
  Within,        \* try -> the method or try whose body holds it
  Untyped,       \* tries that capture a local plan_capture has no type for
  BodyReturns,   \* tries with a return statement in their body
  CatchReturns,  \* tries with a return statement in their catch block
  Mutates,       \* tries that assign a captured local
  MaxDepth,      \* call frames the EVM allows
  MaxGas,        \* writes and calls one transaction may make
  MaxData        \* writes in all

Units == Methods \cup Tries

ASSUME MethodsAssumption ==
  /\ Methods \cap Tries = {}
  /\ Exports \subseteq Methods /\ UnsafeFns \subseteq Methods
  /\ New \subseteq Methods \ Exports
  /\ OnceFns \subseteq Methods /\ HasReturn \subseteq Methods
  /\ ReadOnly \subseteq Methods
ASSUME UnitsAssumption ==
  /\ Internal \in [Units -> SUBSET Methods]
  /\ Within \in [Tries -> Units]
  /\ External \subseteq Units
  /\ LooksUp \in [Units -> SUBSET (Methods \cup {"outside"})]
  /\ Noted \subseteq Units \cup {"outside"}
(* Words the model keeps for itself.                                        *)
ASSUME NamesAssumption == Units \cap {"outside", "nothing", "call", "none"} = {}
ASSUME BoundsAssumption ==
  /\ MaxDepth \in Nat \ {0} /\ MaxGas \in Nat /\ MaxData \in Nat

VARIABLES
  world,   \* storage and transient storage; see World
  frames,  \* the EVM call stack, frames[1 .. depth]
  depth,
  answer,  \* how the frame that just ended ended, until its caller looks
  gas

vars == <<world, frames, depth, answer, gas>>

-----------------------------------------------------------------------------
(* What the compiler decides before anything runs.                          *)

(* body_has_return: the body, or a block of a try inside it, returns.        *)
HasRet[t \in Tries] ==
  \/ t \in BodyReturns
  \/ \E s \in Tries : Within[s] = t /\ (HasRet[s] \/ s \in CatchReturns)

(* The method a try statement was written in.                               *)
Home[t \in Tries] == IF Within[t] \in Methods THEN Within[t] ELSE Home[Within[t]]

(* Slip: no block is hoisted.                                               *)
NeverHoisted(t) == FALSE

(* plan_capture: a block it has no plan for keeps the inline form.           *)
Hoisted(t) == t \notin Untyped /\ (HasRet[t] => Home[t] \in HasReturn)

Thunks == {t \in Tries : Hoisted(t)}

(* Thunks that must say whether they returned or fell through.              *)
Combined(t) == HasRet[t] /\ t \in Mutates

(* A round of analyze_external_calls: a unit is or holds a hoisted try (every  *)
(* thunk has an unsafe block), or has a call that is looked up under a name    *)
(* known to call out.  self.m() is looked up as m; super.m(), C.A.m() and any  *)
(* other x.m() as m too, which is then the method that replaced the one they  *)
(* run; interface casts, pay, `new Contract()` and names that are nobody's are  *)
(* taken to call out, get, len, push and pop of self never are.              *)
Round(known) ==
  {u \in Units : \/ u \in Thunks
                 \/ \E t \in Thunks : Within[t] = u
                 \/ LooksUp[u] \cap (known \cup {"outside"}) # {}}

(* Slip: one round is made, so only callees that are known at the start count.       *)
CallsOutOneRound == Round({})

(* Rounds are made until one adds nothing: what is known then is in every set *)
(* that a round does not enlarge.                                           *)
CallsOut ==
  {u \in Units : \A known \in SUBSET Units : Round(known) \subseteq known => u \in known}

(* has_external_calls: eval_type or verify_statement came to an interface      *)
(* call, pay, transfer, Account.create or an unsafe block, anywhere in the     *)
(* program.  They do not look at the arguments of a method's or a free         *)
(* function's call, and `new Contract()` sets nothing.                       *)
HasExternalCalls == Noted # {}

GuardedEntries ==
  IF HasExternalCalls THEN ((Exports \cap CallsOut) \ UnsafeFns) \ ReadOnly ELSE {}

Guarded(u) == u \in GuardedEntries

Entries == Exports \cup Thunks

-----------------------------------------------------------------------------
(* The world is what a revert undoes: the contract's fields (the number of    *)
(* writes made to them), the once flags, and three transient slots, the      *)
(* reentrancy lock, TRY_CAPABILITY_SLOT and TRY_RETURNED_SLOT, with the       *)
(* exception flag of inline tries.  runs counts, per once method, how often   *)
(* its body was entered and not undone.  code is 1 when the contract's        *)
(* account has code: while `fn new` runs it has none.                        *)

Bit == 0 .. 1

World == [code : Bit,
          data : 0 .. MaxData, flags : SUBSET OnceFns, runs : [OnceFns -> Nat],
          lock : Bit, cap : Bit, returned : Bit, exc : Bit]

Fresh == [code |-> IF New = {} THEN 1 ELSE 0,
          data |-> 0, flags |-> {}, runs |-> [m \in OnceFns |-> 0],
          lock |-> 0, cap |-> 0, returned |-> 0, exc |-> 0]

ClearTransient(w) == [w EXCEPT !.lock = 0, !.cap = 0, !.returned = 0, !.exc = 0]

(* A frame runs one unit of the contract, or outside code.  It holds the     *)
(* activations of internal calls, the newest first, what it waits for, and   *)
(* the world it reverts to.  An activation is in its body, in an "inline"     *)
(* try, in the "catch" of a hoisted one or the "handler" of an inline one;    *)
(* try and before say which try that is and what data was when it began.     *)
Outside == "outside"

Activations == [unit : Units, mode : {"body", "inline", "catch", "handler"},
                returning : BOOLEAN, try : Tries \cup {"none"}, before : 0 .. MaxData]

Frame == [runs : Units \cup {Outside}, snap : World,
          waits : Tries \cup {"nothing", "call"}, acts : Seq(Activations)]

Activation(u) == [unit |-> u, mode |-> "body", returning |-> FALSE,
                  try |-> "none", before |-> 0]

NewFrame(u, w) ==
  [runs |-> u, snap |-> w, waits |-> "nothing",
   acts |-> IF u = Outside THEN <<>> ELSE <<Activation(u)>>]

NoFrame  == NewFrame(Outside, Fresh)

(* What is known of a call that is over: how it ended, whether it ran a        *)
(* frame, and what is in the return data.                                   *)
Answers == [ended : BOOLEAN, ok : BOOLEAN, ran : BOOLEAN,
            data : {"none", "value", "captures"}]

NoAnswer == [ended |-> FALSE, ok |-> FALSE, ran |-> FALSE, data |-> "none"]

Top == frames[depth]
Act == Head(Top.acts)

(* Slip: an entry point is translated like a helper.                        *)
EntryNever == FALSE

Entry == Len(Top.acts) = 1

(* A contract frame is on top and nothing keeps it from its next statement.  *)
Running == /\ depth > 0 /\ ~answer.ended
           /\ Top.runs # Outside /\ Top.waits = "nothing"

OutsideRuns == depth > 0 /\ ~answer.ended /\ Top.runs = Outside

Init ==
  /\ world = Fresh
  /\ frames = [i \in 1 .. MaxDepth |-> NoFrame]
  /\ depth = 0
  /\ answer = NoAnswer
  /\ gas = 0

-----------------------------------------------------------------------------
(* Steps of the EVM.                                                        *)

SetTop(f) == frames' = [frames EXCEPT ![depth] = f]

(* The frame on top ends; its caller sees the answer.                       *)
EndFrame(ok, data, w) ==
  /\ frames' = [frames EXCEPT ![depth] = NoFrame]
  /\ depth' = depth - 1
  /\ answer' = [ended |-> TRUE, ok |-> ok, ran |-> TRUE, data |-> data]
  /\ world' = IF ok THEN w ELSE Top.snap
  /\ UNCHANGED gas

(* CALL: u's frame starts in world w2, and reverts to w1.  The caller's own   *)
(* frame becomes f.                                                         *)
Enter(f, u, w1, w2) ==
  /\ depth < MaxDepth
  /\ depth' = depth + 1
  /\ frames' = [frames EXCEPT ![depth] = f, ![depth + 1] = NewFrame(u, w1)]
  /\ world' = w2
  /\ UNCHANGED answer

(* A CALL that never gets to run the callee's body: it fails for want of       *)
(* depth or is refused, and one to an account without code succeeds.         *)
NoCall(ok, f, w) ==
  /\ SetTop(f)
  /\ world' = w
  /\ answer' = [ended |-> TRUE, ok |-> ok, ran |-> FALSE, data |-> "none"]
  /\ UNCHANGED depth

(* The dispatcher's checks for unit u and the first lines of u_impl.          *)
Refuses(w, u) == \/ Guarded(u) /\ w.lock = 1
                 \/ u \in OnceFns /\ u \in w.flags
                 \/ u \in Tries /\ w.cap = 0

(* Slip: the flag is kept where the next transaction does not see it.        *)
FlagsForgotten(w, u) == w.flags

FlagsAfter(w, u) == IF u \in OnceFns THEN w.flags \cup {u} ELSE w.flags

(* The body of a once method is entered.                                    *)
RunsAfter(w, u) == IF u \in OnceFns THEN [w.runs EXCEPT ![u] = @ + 1] ELSE w.runs

(* Slip: the thunk leaves the capability set.                               *)
CapKept(w, u) == w.cap

CapAfter(w, u) == IF u \in Tries THEN 0 ELSE w.cap

(* What they leave behind when they let the call in.                        *)
Prologue(w, u) ==
  [w EXCEPT !.lock = IF Guarded(u) THEN 1 ELSE @,
            !.flags = FlagsAfter(w, u),
            !.runs = RunsAfter(w, u),
            !.cap = CapAfter(w, u)]

(* Slip: a way out of an entry point that keeps the lock.                    *)
UnlockNever(w, u) == w

(* The lock is given back where an entry point ends well.                   *)
Unlock(w, u) == IF Guarded(u) THEN [w EXCEPT !.lock = 0] ELSE w

(* The deploy code returns the runtime code once `fn new` is done.            *)
Deployed(w, u) == IF u \in New THEN [w EXCEPT !.code = 1] ELSE w

-----------------------------------------------------------------------------
(* The outside: transactions, and other contracts called by this one.        *)

StartTransaction ==
  /\ depth = 0 /\ ~answer.ended
  /\ world' = ClearTransient(world)
  /\ frames' = [frames EXCEPT ![1] = NewFrame(Outside, ClearTransient(world))]
  /\ depth' = 1
  /\ gas' = MaxGas
  /\ UNCHANGED answer

EndTransaction ==
  /\ depth = 0 /\ answer.ended
  /\ answer' = NoAnswer
  /\ UNCHANGED <<world, frames, depth, gas>>

(* CREATE: the deploy code decodes the arguments and calls `fn new`.  The      *)
(* address is taken from here on.                                           *)
Create(m) ==
  /\ OutsideRuns
  /\ world.code = 0 /\ \A i \in 1 .. depth : frames[i].runs \notin New
  /\ gas > 0 /\ gas' = gas - 1
  /\ IF depth = MaxDepth THEN NoCall(FALSE, Top, world) ELSE Enter(Top, m, world, world)

(* Any selector may be called, those of try thunks included.                *)
CallEntry(u) ==
  /\ OutsideRuns
  /\ gas > 0 /\ gas' = gas - 1
  /\ IF depth = MaxDepth \/ (world.code = 1 /\ Refuses(world, u))
     THEN NoCall(FALSE, Top, world)
     ELSE IF world.code = 0 THEN NoCall(TRUE, Top, world)
     ELSE Enter(Top, u, world, Prologue(world, u))

(* Outside code learns how a call of its own ended, and goes on.             *)
OutsideGoesOn ==
  /\ depth > 0 /\ answer.ended /\ Top.runs = Outside
  /\ answer' = NoAnswer
  /\ UNCHANGED <<world, frames, depth, gas>>

OutsideEnds(ok) ==
  /\ OutsideRuns
  /\ EndFrame(ok, "none", world)

-----------------------------------------------------------------------------
(* Statements of the contract.                                              *)

SetAct(a) == SetTop([Top EXCEPT !.acts = <<a>> \o Tail(@)])

Write ==
  /\ Running /\ Act.unit \notin ReadOnly /\ ~Act.returning
  /\ gas > 0 /\ gas' = gas - 1
  /\ world.data < MaxData
  /\ world' = [world EXCEPT !.data = @ + 1]
  /\ UNCHANGED <<frames, depth, answer>>

(* self.m(..) is a Yul function call: no dispatcher, no once check.          *)
CallInternal(m) ==
  /\ Running /\ m \in Internal[Act.unit]
  /\ gas > 0 /\ gas' = gas - 1
  /\ SetTop([Top EXCEPT !.acts = <<Activation(m)>> \o @])
  /\ world' = [world EXCEPT !.runs = RunsAfter(world, m)]
  /\ UNCHANGED <<depth, answer>>

CallOutside ==
  /\ Running /\ Act.unit \in External
  /\ gas > 0 /\ gas' = gas - 1
  /\ LET f == [Top EXCEPT !.waits = "call"] IN
     IF depth = MaxDepth THEN NoCall(FALSE, f, world)
                         ELSE Enter(f, Outside, world, world)

(* A failure goes on by the form of the call: pay and the like hand it to the *)
(* program, an interface call and transfer bubble it, and an interface call   *)
(* in an inline try raises the exception flag instead.                       *)
CallReturns ==
  /\ depth > 0 /\ answer.ended /\ Top.waits = "call"
  /\ answer' = NoAnswer
  /\ SetTop([Top EXCEPT !.waits = "nothing"])
  /\ UNCHANGED <<world, depth, gas>>

CallRaises ==
  /\ depth > 0 /\ answer.ended /\ ~answer.ok /\ Top.waits = "call"
  /\ Act.mode = "inline"
  /\ world' = [world EXCEPT !.exc = 1]
  /\ answer' = NoAnswer
  /\ SetTop([Top EXCEPT !.waits = "nothing"])
  /\ UNCHANGED <<depth, gas>>

CallBubbles ==
  /\ depth > 0 /\ answer.ended /\ ~answer.ok /\ Top.waits = "call"
  /\ EndFrame(FALSE, "none", world)

(* assert, revert, checked arithmetic, running out of gas.                   *)
Revert == Running /\ EndFrame(FALSE, "none", world)

(* An internal call is over: its caller goes on with its statement.          *)
Leave(w) ==
  /\ SetTop([Top EXCEPT !.acts = Tail(@)])
  /\ world' = w
  /\ UNCHANGED <<depth, answer, gas>>

(* The blocks of unit u that hold a return statement.                       *)
MayReturn(a) ==
  \/ a.unit \in Methods
  \/ a.mode = "body" /\ a.unit \in BodyReturns
  \/ a.mode = "inline" /\ a.try \in BodyReturns
  \/ a.mode \in {"catch", "handler"} /\ a.try \in CatchReturns

(* Slip: no return is marked.                                               *)
MarksNone(a) == FALSE

(* `return value`.  In a combined thunk mark_returns_with_flag put a store    *)
(* before the statement, and reached no return of a nested try's catch.      *)
Marks(a) == a.unit \in Tries /\ Combined(a.unit) /\ a.mode # "catch"

Return ==
  /\ Running /\ ~Act.returning /\ MayReturn(Act)
  /\ SetAct([Act EXCEPT !.returning = TRUE])
  /\ world' = IF Marks(Act) THEN [world EXCEPT !.returned = 1] ELSE world
  /\ UNCHANGED <<depth, answer, gas>>

ReturnData(u) == IF u \in Tries \/ u \in HasReturn THEN "value" ELSE "none"

(* Its value is there: leave the Yul function, or give the lock back and      *)
(* leave the frame.                                                         *)
Returned ==
  /\ Running /\ Act.returning
  /\ IF Entry
     THEN EndFrame(TRUE, ReturnData(Top.runs), Deployed(Unlock(world, Top.runs), Top.runs))
     ELSE Leave(world)

(* The end of a body.  check_returns keeps a method with a return type from   *)
(* getting here; a thunk encodes the captured locals it assigned.            *)
FallThrough ==
  /\ Running /\ ~Act.returning /\ Act.mode = "body"
  /\ Act.unit \notin HasReturn
  /\ IF ~Entry THEN Leave(world)
     ELSE IF Act.unit \in Methods
     THEN EndFrame(TRUE, "none", Deployed(Unlock(world, Top.runs), Top.runs))
     ELSE EndFrame(TRUE, IF Act.unit \in Mutates THEN "captures" ELSE "none",
                   IF Combined(Act.unit) THEN [world EXCEPT !.returned = 0] ELSE world)

-----------------------------------------------------------------------------
(* try / catch.                                                             *)

MayTry(t) == /\ Running /\ ~Act.returning /\ Act.mode = "body"
             /\ Within[t] = Act.unit

(* translate_scoped_try: set the capability and call the thunk.             *)
BeginTry(t) ==
  /\ MayTry(t) /\ Hoisted(t)
  /\ gas > 0 /\ gas' = gas - 1
  /\ LET f == [Top EXCEPT !.waits = t,
                          !.acts = <<[Act EXCEPT !.try = t, !.before = world.data]>>
                                     \o Tail(@)]
         w == [world EXCEPT !.cap = 1]
     IN IF depth = MaxDepth THEN NoCall(FALSE, f, w)
        ELSE IF world.code = 0 THEN NoCall(TRUE, f, w)
        ELSE Enter(f, t, w, Prologue(w, t))

(* What the caller takes the thunk's return data for.                       *)
Reads(t) ==
  IF HasRet[t] /\ answer.data # "none" /\ (t \in Mutates => world.returned = 1)
  THEN "value"
  ELSE IF t \in Mutates THEN "captures" ELSE "none"

AwaitsTry(t) == depth > 0 /\ answer.ended /\ Top.waits = t

(* It is too short for the locals that are decoded from it.                  *)
Lacks(t) == Reads(t) = "captures" /\ answer.data = "none"

TryLacks(t) ==
  /\ AwaitsTry(t) /\ answer.ok /\ Lacks(t)
  /\ EndFrame(FALSE, "none", world)

(* The thunk fell through: its locals are decoded, the next statement runs.  *)
TryFallsThrough(t) ==
  /\ AwaitsTry(t) /\ answer.ok /\ Reads(t) # "value" /\ ~Lacks(t)
  /\ answer' = NoAnswer
  /\ SetTop([Top EXCEPT !.waits = "nothing",
                        !.acts = <<[Act EXCEPT !.try = "none", !.before = 0]>> \o Tail(@)])
  /\ world' = [world EXCEPT !.cap = 0]
  /\ UNCHANGED <<depth, gas>>

(* The thunk returned: so does the method, or the thunk, around it.          *)
TryReturns(t) ==
  /\ AwaitsTry(t) /\ answer.ok /\ Reads(t) = "value"
  /\ LET w == [world EXCEPT !.cap = 0, !.returned = 1] IN
     IF Entry THEN EndFrame(TRUE, "value", Unlock(w, Top.runs))
     ELSE /\ SetTop([Top EXCEPT !.waits = "nothing", !.acts = Tail(@)])
          /\ world' = w
          /\ answer' = NoAnswer
          /\ UNCHANGED <<depth, gas>>

(* The thunk reverted: the catch block runs.                                *)
TryCatches(t) ==
  /\ AwaitsTry(t) /\ ~answer.ok
  /\ SetTop([Top EXCEPT !.waits = "nothing",
                        !.acts = <<[Act EXCEPT !.mode = "catch"]>> \o Tail(@)])
  /\ world' = [world EXCEPT !.cap = 0]
  /\ answer' = NoAnswer
  /\ UNCHANGED <<depth, gas>>

(* The inline form: the body runs in place; after each of its statements the  *)
(* exception flag is looked at.                                             *)
BeginInlineTry(t) ==
  /\ MayTry(t) /\ ~Hoisted(t)
  /\ SetAct([Act EXCEPT !.mode = "inline", !.try = t, !.before = world.data])
  /\ UNCHANGED <<world, depth, answer, gas>>

CheckException ==
  /\ Running /\ ~Act.returning /\ Act.mode = "inline"
  /\ world.exc = 1
  /\ SetAct([Act EXCEPT !.mode = "handler"])
  /\ world' = [world EXCEPT !.exc = 0]
  /\ UNCHANGED <<depth, answer, gas>>

EndBlock ==
  /\ Running /\ ~Act.returning
  /\ Act.mode \in {"catch", "handler"} \/ (Act.mode = "inline" /\ world.exc = 0)
  /\ SetAct([Act EXCEPT !.mode = "body", !.try = "none", !.before = 0])
  /\ UNCHANGED <<world, depth, answer, gas>>

Next ==
  \/ StartTransaction \/ EndTransaction \/ OutsideGoesOn
  \/ \E ok \in BOOLEAN : OutsideEnds(ok)
  \/ \E m \in New : Create(m)
  \/ \E u \in Entries : CallEntry(u)
  \/ Write \/ CallOutside \/ CallReturns \/ CallRaises \/ CallBubbles \/ Revert
  \/ \E m \in Methods : CallInternal(m)
  \/ Return \/ Returned \/ FallThrough
  \/ \E t \in Tries : \/ BeginTry(t) \/ TryLacks(t) \/ TryFallsThrough(t)
                      \/ TryReturns(t) \/ TryCatches(t) \/ BeginInlineTry(t)
  \/ CheckException \/ EndBlock

Spec == Init /\ [][Next]_vars

-----------------------------------------------------------------------------
(* Properties.                                                              *)

(* Every variable has the shape the EVM and the generated code give it.      *)
TypeOK ==
  /\ world \in World
  /\ depth \in 0 .. MaxDepth
  /\ gas \in 0 .. MaxGas
  /\ answer \in Answers
  /\ frames \in [1 .. MaxDepth -> Frame]
  /\ \A i \in 1 .. depth : frames[i].runs = Outside <=> frames[i].acts = <<>>

GuardedFrames == {i \in 1 .. depth : Guarded(frames[i].runs)}

(* The lock is set exactly while a guarded entry point is on the call stack,  *)
(* of which there is then one: whatever chain of outside calls, try           *)
(* self-calls and reverts ran, one that ended by any of its exits can be     *)
(* entered again in the same transaction.                                   *)
LockHeld == world.lock = Cardinality(GuardedFrames)

(* Of the entry points on the call stack that are not `unsafe`, one at most   *)
(* has handed control to another contract, through however many helpers and  *)
(* try blocks ("the guard lands on exactly the functions that can actually   *)
(* be re-entered", SPEC.md).                                                *)
HandedOver ==
  {i \in 1 .. depth : /\ frames[i].runs \in Methods \ UnsafeFns
                      /\ \E j \in (i + 1) .. depth : frames[j].runs = Outside}
NoReentry == Cardinality(HandedOver) <= 1

(* A try thunk has a selector anyone can call, yet runs only as the self-call *)
(* of the try it was cut from: TRY_CAPABILITY_SLOT is never left set where    *)
(* outside code could use it.  And the try goes on after its block only when  *)
(* the thunk did run.                                                       *)
ThunkOnlyByTry ==
  /\ \A i \in 1 .. depth :
       frames[i].runs \in Tries => i > 1 /\ frames[i - 1].waits = frames[i].runs
  /\ OutsideRuns => world.cap = 0
  /\ \A t \in Tries : AwaitsTry(t) /\ answer.ok /\ ~Lacks(t) => answer.ran

(* What a try statement takes its thunk's return data for, the value of a     *)
(* return statement in the block or the locals it assigned, is what the thunk *)
(* encoded there (TRY_RETURNED_SLOT).                                       *)
ReturnsReadRight ==
  \A t \in Tries : AwaitsTry(t) /\ answer.ok /\ answer.ran => Reads(t) = answer.data

(* "one-time function: reverts on any call after the first" (SPEC.md): the    *)
(* effects of a once method never happen twice.                             *)
OnceOnly == \A m \in OnceFns : world.runs[m] <= 1

(* When the catch block of a try in ts starts, storage is as it was when the  *)
(* try block started.                                                       *)
CatchBegins(t) ==
  /\ depth > 0 /\ depth' = depth
  /\ Top.acts # <<>> /\ Len(frames'[depth].acts) = Len(Top.acts)
  /\ Act.try = t /\ Head(frames'[depth].acts).try = t
  /\ Act.mode \in {"body", "inline"}
  /\ Head(frames'[depth].acts).mode \in {"catch", "handler"}

RollsBack(ts) == \A t \in ts : CatchBegins(t) => world'.data = Act.before

(* A block without an untyped capture is undone before its catch block runs  *)
(* ("state rolls back cleanly on failure, then catch runs", README.md), if no *)
(* such block of a method without a return type holds a return statement.    *)
TypedTryAtomic == [][RollsBack(Tries \ Untyped)]_vars

(* The same of every try block.                                             *)
TryAtomic == [][RollsBack(Tries)]_vars

-----------------------------------------------------------------------------
(* What the guard rests on, and the hypothesis of NoneReenters.  A round that  *)
(* follows the calls as they are made finds the units that may really hand     *)
(* control over: CallsOut finds them too if every call is looked up under the  *)
(* name of what it runs (CallsAsMade), and otherwise only by luck.            *)
RealRound(known) ==
  {u \in Units : \/ u \in External \cup Thunks
                 \/ \E t \in Thunks : Within[t] = u
                 \/ Internal[u] \cap known # {}}

MayCallOut ==
  {u \in Units : \A known \in SUBSET Units : RealRound(known) \subseteq known => u \in known}

CallsAsMade ==
  /\ \A u \in External : "outside" \in LooksUp[u]
  /\ \A u \in Units : Internal[u] \subseteq LooksUp[u]

CallsAreFound ==
  /\ (Exports \cap MayCallOut) \ UnsafeFns \subseteq CallsOut
  /\ External # {} => HasExternalCalls

=============================================================================
