--------------------------- MODULE CallFramesProofs ---------------------------
(***************************************************************************)
(* Theorems about CallFrames, for every contract and every bound.            *)
(*                                                                         *)
(* The properties speak of the world as it is, but a frame that fails puts    *)
(* back the world it started from: what holds of the lock, the capability    *)
(* and the once flags now must hold, of the frames below, of every world a   *)
(* frame keeps.  The invariant has a part for each, and every action of the  *)
(* machine is, to all of them, one of four moves: a transaction starts, the  *)
(* frame on top goes on, calls, or ends.                                    *)
(***************************************************************************)
EXTENDS CallFrames, TLAPS, FiniteSetTheorems

(* A frame's bottom activation is of the unit it runs, those on top of it are *)
(* of methods; and if any of them may call out, the unit may.  What waits for a *)
(* try is a body that has come to it; a try in the inline form is one that    *)
(* could not be hoisted.                                                    *)
WellFormed(f) ==
  /\ f \in Frame
  /\ f.runs = Outside => f.acts = <<>> /\ f.waits = "nothing"
  /\ f.runs # Outside =>
       /\ f.acts # <<>> /\ f.acts[Len(f.acts)].unit = f.runs
       /\ \A k \in 1 .. Len(f.acts) :
            /\ k < Len(f.acts) => f.acts[k].unit \in Methods
            /\ f.acts[k].unit \in MayCallOut => f.runs \in MayCallOut
            /\ f.acts[k].mode = "inline" => ~Hoisted(f.acts[k].try)
       /\ f.waits \in Tries => f.acts[1].mode = "body" /\ f.acts[1].try = f.waits

TypeInv ==
  /\ world \in World
  /\ depth \in 0 .. MaxDepth
  /\ gas \in 0 .. MaxGas
  /\ answer \in Answers
  /\ frames \in [1 .. MaxDepth -> Frame]
  /\ \A i \in 1 .. MaxDepth : WellFormed(frames[i])

(* Of the frames' units: methods are entered by their selector or to create   *)
(* the contract, and one with a frame above it may call out; no outside code   *)
(* runs but the transaction's if nothing calls out.                          *)
UnitInv ==
  /\ \A i \in 1 .. depth : frames[i].runs \in Methods => frames[i].runs \in Exports \cup New
  /\ \A i \in 1 .. depth - 1 : frames[i].runs \in Methods => frames[i].runs \in MayCallOut
  /\ \A i \in 2 .. depth : frames[i].runs = Outside => External # {}

(* The lock now, and in the world each frame would go back to, tells whether  *)
(* a guarded entry point is below; there are never two.                     *)
LockInv ==
  /\ world.lock = 1 <=> \E i \in 1 .. depth : Guarded(frames[i].runs)
  /\ \A i \in 1 .. depth :
       frames[i].snap.lock = 1 <=> \E j \in 1 .. i - 1 : Guarded(frames[j].runs)
  /\ \A i, j \in 1 .. depth : Guarded(frames[i].runs) /\ Guarded(frames[j].runs) => i = j

(* The capability is set, now or in a frame's world, only where the try that  *)
(* set it is about to find out how its thunk ended.                         *)
CapInv ==
  /\ world.cap = 1 => depth > 0 /\ answer.ended /\ Top.waits \in Tries
  /\ \A i \in 1 .. depth :
       /\ frames[i].snap.cap = 1 => i > 1 /\ frames[i - 1].waits \in Tries
       /\ frames[i].runs \in Tries => i > 1 /\ frames[i - 1].waits = frames[i].runs

(* The once flag of a method counts its effects, in every world.             *)
Counted(w) == \A m \in OnceFns : w.runs[m] = IF m \in w.flags THEN 1 ELSE 0
OnceInv == Counted(world) /\ \A i \in 1 .. depth : Counted(frames[i].snap)

(* The contract has code, now and in the world each frame would go back to,   *)
(* exactly when a frame below runs it and is not its constructor's.           *)
Fits(w, u) == u \in Units => (w.code = 1 <=> u \notin New)
CodeInv ==
  /\ \A i \in 1 .. depth : Fits(world, frames[i].runs)
  /\ \A i \in 1 .. depth : \A j \in 1 .. i - 1 : Fits(frames[i].snap, frames[j].runs)
  /\ \A i, j \in 1 .. depth : frames[i].runs \in New /\ frames[j].runs \in New => i = j

(* What a try would go back to is storage as it was when its block began.     *)
TryInv ==
  /\ \A i \in 1 .. depth - 1 :
       frames[i].waits \in Tries => frames[i + 1].snap.data = frames[i].acts[1].before
  /\ depth > 0 /\ answer.ended /\ ~answer.ok /\ Top.waits \in Tries =>
       world.data = Top.acts[1].before

(* A try that is told of success had its thunk run.                          *)
RanInv == depth > 0 /\ answer.ended /\ answer.ok /\ Top.waits \in Tries => answer.ran

(* No constructor calls out, nor comes to a hoisted try.                     *)
ConstructorsStay == New \cap MayCallOut = {}

(* No method calls a once method with self.m().                             *)
OnceFromOutside == \A u \in Units : Internal[u] \cap OnceFns = {}
-----------------------------------------------------------------------------
(* The four moves. *)

(* The frame on top goes on, as f in the world w. *)
GoesOn(f, w) ==
  /\ depth > 0 /\ depth' = depth
  /\ WellFormed(f) /\ f.runs = Top.runs /\ f.snap = Top.snap
  /\ frames' = [frames EXCEPT ![depth] = f]
  /\ world' = w /\ w \in World
  /\ w.lock = world.lock /\ w.code = world.code
  /\ w.cap = 1 => answer'.ended /\ f.waits \in Tries
  /\ w.flags = world.flags /\ (OnceFromOutside => w.runs = world.runs)
  /\ f.waits \in Tries /\ ~answer'.ok => w.data = f.acts[1].before
  /\ f.waits \in Tries /\ ConstructorsStay => ~answer'.ok

(* It becomes f and calls u, whose frame starts in the world w and would go   *)
(* back to v.                                                               *)
Calls(f, u, v, w) ==
  /\ depth > 0 /\ depth < MaxDepth /\ depth' = depth + 1
  /\ WellFormed(f) /\ f.runs = Top.runs /\ f.snap = Top.snap
  /\ u \in Entries \cup New \cup {Outside}
  /\ frames' = [frames EXCEPT ![depth] = f, ![depth + 1] = NewFrame(u, v)]
  /\ v \in World /\ w \in World /\ world' = w
  /\ v.lock = world.lock /\ (v.cap = 1 => f.waits \in Tries)
  /\ v.flags = world.flags /\ v.runs = world.runs
  /\ v.code = world.code /\ w.code = world.code /\ Fits(world, u)
  /\ u \in New => \A i \in 1 .. depth : frames[i].runs \notin New
  /\ IF Guarded(u) THEN world.lock = 0 /\ w.lock = 1 ELSE w.lock = world.lock
  /\ w.cap = 0
  /\ u \in Tries => f.waits = u
  /\ Counted(v) => Counted(w)
  /\ f.runs \in Methods => f.runs \in MayCallOut
  /\ u = Outside => External # {}
  /\ f.waits \in Tries => v.data = f.acts[1].before

(* It ends, well in the world w or with its own world put back.               *)
Ends(ok, w) ==
  /\ depth > 0 /\ depth' = depth - 1
  /\ frames' = [frames EXCEPT ![depth] = NoFrame]
  /\ answer'.ended /\ answer'.ran /\ answer'.ok = ok
  /\ world' = IF ok THEN w ELSE Top.snap
  /\ ok => /\ w \in World /\ w.cap = 0
           /\ w.lock = IF Guarded(Top.runs) THEN 0 ELSE world.lock
           /\ w.flags = world.flags /\ w.runs = world.runs
           /\ w.code = world.code \/ (Top.runs \in New /\ w.code = 1)

(* A transaction starts.                                                    *)
Starts ==
  /\ depth = 0 /\ depth' = 1
  /\ frames' = [frames EXCEPT ![1] = NewFrame(Outside, ClearTransient(world))]
  /\ world' = ClearTransient(world)

(* Only the answer is taken.                                                *)
Rests == UNCHANGED <<world, frames, depth>> /\ ~answer'.ended /\ (depth > 0 => world.cap = 0)

Move ==
  \/ \E f, w : GoesOn(f, w)
  \/ \E f, u, v, w : Calls(f, u, v, w)
  \/ \E ok \in BOOLEAN : \E w : Ends(ok, w)
  \/ Starts \/ Rests
-----------------------------------------------------------------------------
(* The compiler's verdicts. *)

(* A guarded unit is an exported method, so neither outside code nor a thunk. *)
LEMMA GuardedFacts ==
  ASSUME NEW u, Guarded(u)
  PROVE  u \in Exports /\ u \in Methods /\ u \notin Tries /\ u # Outside /\ u \in Units
BY MethodsAssumption, NamesAssumption DEF Guarded, GuardedEntries, Units, Outside

(* The units that may call out are closed under the rounds that find them.    *)
LEMMA MayCallOutClosed == RealRound(MayCallOut) \subseteq MayCallOut
<1> SUFFICES ASSUME NEW u \in RealRound(MayCallOut),
                    NEW known \in SUBSET Units, RealRound(known) \subseteq known
             PROVE  u \in known
  BY DEF MayCallOut, RealRound
<1>1. MayCallOut \subseteq known
  BY DEF MayCallOut
<1>2. u \in RealRound(known)
  BY <1>1 DEF RealRound
<1> QED BY <1>2

(* A unit whose statements hand control over may call out.                     *)
LEMMA MayCallOutFacts ==
  /\ External \subseteq MayCallOut
  /\ \A t \in Thunks : Within[t] \in MayCallOut
  /\ \A u \in Units : Internal[u] \cap MayCallOut # {} => u \in MayCallOut
<1>1. External \subseteq MayCallOut
  BY MayCallOutClosed, UnitsAssumption DEF RealRound
<1>2. \A t \in Thunks : Within[t] \in MayCallOut
  BY MayCallOutClosed, UnitsAssumption DEF RealRound, Thunks
<1>3. \A u \in Units : Internal[u] \cap MayCallOut # {} => u \in MayCallOut
  BY MayCallOutClosed DEF RealRound
<1> QED BY <1>1, <1>2, <1>3

-----------------------------------------------------------------------------
(* Frames. *)

LEMMA FreshInWorld == Fresh \in World
<1>1. (IF New = {} THEN 1 ELSE 0) \in Bit /\ 0 \in Bit
  BY DEF Bit
<1>2. [m \in OnceFns |-> 0] \in [OnceFns -> Nat] /\ {} \in SUBSET OnceFns /\ 0 \in 0 .. MaxData
  BY BoundsAssumption
<1> QED BY <1>1, <1>2 DEF Fresh, World

LEMMA NewActivation ==
  ASSUME NEW u \in Units
  PROVE  Activation(u) \in Activations /\ Activation(u).unit = u /\ Activation(u).mode = "body"
BY BoundsAssumption DEF Activation, Activations

LEMMA NewFrameFacts ==
  ASSUME NEW u \in Units \cup {Outside}, NEW w \in World
  PROVE  /\ WellFormed(NewFrame(u, w))
         /\ NewFrame(u, w).runs = u /\ NewFrame(u, w).snap = w /\ NewFrame(u, w).waits = "nothing"
<1>1. CASE u = Outside
  BY <1>1 DEF NewFrame, WellFormed, Frame
<1>2. CASE u # Outside
  <2>1. u \in Units /\ <<Activation(u)>> \in Seq(Activations)
    BY <1>2, NewActivation
  <2>2. NewFrame(u, w) = [runs |-> u, snap |-> w, waits |-> "nothing", acts |-> <<Activation(u)>>]
    BY <1>2 DEF NewFrame
  <2>3. Activation(u).unit = u /\ Activation(u).mode = "body" /\ "nothing" \notin Tries
    BY <2>1, NewActivation, NamesAssumption DEF Units
  <2> HIDE DEF Activations, World
  <2>4. NewFrame(u, w) \in Frame
    BY <2>1, <2>2 DEF Frame
  <2> QED BY <1>2, <2>1, <2>2, <2>3, <2>4 DEF WellFormed
<1> QED BY <1>1, <1>2

(* Two frames that differ in what they wait for. *)
LEMMA WaitingFrame ==
  ASSUME NEW f, WellFormed(f), f.runs # Outside, NEW x \in {"nothing", "call"}
  PROVE  LET g == [f EXCEPT !.waits = x]
         IN  WellFormed(g) /\ g.runs = f.runs /\ g.snap = f.snap /\ g.waits = x
<1> DEFINE g == [f EXCEPT !.waits = x]
<1>1. g \in Frame /\ g.runs = f.runs /\ g.snap = f.snap /\ g.waits = x /\ g.acts = f.acts
  BY DEF WellFormed, Frame
<1>2. x \notin Tries
  BY NamesAssumption DEF Units
<1> QED BY <1>1, <1>2 DEF WellFormed

(* A frame of the contract with another activation of the same unit on top.   *)
LEMMA ActingFrame ==
  ASSUME NEW f, WellFormed(f), f.runs # Outside, NEW x \in Tries \cup {"nothing", "call"},
         NEW a \in Activations, a.unit = Head(f.acts).unit,
         x \in Tries => a.mode = "body" /\ a.try = x, a.mode = "inline" => ~Hoisted(a.try)
  PROVE  LET g == [f EXCEPT !.waits = x, !.acts = <<a>> \o Tail(@)]
         IN  WellFormed(g) /\ g.runs = f.runs /\ g.snap = f.snap /\ g.waits = x
<1> DEFINE g == [f EXCEPT !.waits = x, !.acts = <<a>> \o Tail(@)]
<1>1. f.acts \in Seq(Activations) /\ f.acts # <<>>
  BY DEF WellFormed, Frame
<1> DEFINE s == <<a>> \o Tail(f.acts)
<1>2. /\ s \in Seq(Activations) /\ Len(s) = Len(f.acts) /\ s # <<>> /\ Len(s) > 0
      /\ s[1] = a /\ \A k \in 2 .. Len(s) : s[k] = f.acts[k]
  BY <1>1
<1>3. g \in Frame /\ g.runs = f.runs /\ g.snap = f.snap /\ g.waits = x /\ g.acts = s
  BY <1>2 DEF WellFormed, Frame
<1>4. \A k \in 1 .. Len(s) : s[k].unit = f.acts[k].unit
  BY <1>1, <1>2
<1> HIDE DEF s, g
<1>5. Len(f.acts) \in 1 .. Len(s)
  BY <1>1, <1>2
<1>6. s[Len(s)].unit = f.runs
  BY <1>2, <1>4, <1>5 DEF WellFormed
<1>7. \A k \in 1 .. Len(s) : /\ k < Len(s) => s[k].unit \in Methods
                             /\ s[k].unit \in MayCallOut => f.runs \in MayCallOut
                             /\ s[k].mode = "inline" => ~Hoisted(s[k].try)
  <2> TAKE k \in 1 .. Len(s)
  <2>1. /\ k < Len(s) => s[k].unit \in Methods
        /\ s[k].unit \in MayCallOut => f.runs \in MayCallOut
    BY <1>2, <1>4 DEF WellFormed
  <2>2. CASE k = 1
    BY <1>2, <2>1, <2>2
  <2>3. CASE k # 1
    BY <1>2, <2>1, <2>3 DEF WellFormed
  <2> QED BY <2>2, <2>3
<1>8. WellFormed(g)
  BY <1>2, <1>3, <1>6, <1>7 DEF WellFormed
<1> QED BY <1>3, <1>8 DEF g

(* The same without a change of what it waits for. *)
LEMMA SameWait ==
  ASSUME NEW f, WellFormed(f), NEW a
  PROVE  [f EXCEPT !.acts = <<a>> \o Tail(@)] = [f EXCEPT !.waits = f.waits, !.acts = <<a>> \o Tail(@)]
BY DEF WellFormed, Frame

(* With an internal call under way. *)
LEMMA CallingFrame ==
  ASSUME NEW f, WellFormed(f), f.runs # Outside, f.waits = "nothing", NEW m \in Methods,
         m \in Internal[Head(f.acts).unit]
  PROVE  LET g == [f EXCEPT !.acts = <<Activation(m)>> \o @]
         IN  WellFormed(g) /\ g.runs = f.runs /\ g.snap = f.snap /\ g.waits = f.waits
<1> DEFINE g == [f EXCEPT !.acts = <<Activation(m)>> \o @]
           s == <<Activation(m)>> \o f.acts
<1>1. f.acts \in Seq(Activations) /\ f.acts # <<>> /\ Head(f.acts) = f.acts[1]
  BY DEF WellFormed, Frame
<1>2. /\ Activation(m) \in Activations /\ Activation(m).unit = m /\ Activation(m).mode = "body"
      /\ "nothing" \notin Tries
  BY NewActivation, NamesAssumption DEF Units
<1>3. /\ s \in Seq(Activations) /\ Len(s) = Len(f.acts) + 1 /\ s # <<>>
      /\ s[1] = Activation(m) /\ \A k \in 2 .. Len(s) : s[k] = f.acts[k - 1]
  BY <1>1, <1>2
<1>4. g \in Frame /\ g.runs = f.runs /\ g.snap = f.snap /\ g.waits = f.waits /\ g.acts = s
  BY <1>3 DEF WellFormed, Frame
<1>5. Len(f.acts) \in Nat \ {0}
  BY <1>1
<1>6. f.acts[1].unit \in Units
  <2>1. f.acts[1] \in Activations
    BY <1>1, <1>5
  <2> QED BY <2>1 DEF Activations
<1>7. m \in MayCallOut => f.acts[1].unit \in MayCallOut
  BY <1>1, <1>6, MayCallOutFacts
<1> HIDE DEF s, g
<1>8. s[Len(s)].unit = f.runs
  BY <1>3, <1>5 DEF WellFormed
<1>9. \A k \in 1 .. Len(s) : /\ k < Len(s) => s[k].unit \in Methods
                             /\ s[k].unit \in MayCallOut => f.runs \in MayCallOut
                             /\ s[k].mode = "inline" => ~Hoisted(s[k].try)
  <2> TAKE k \in 1 .. Len(s)
  <2>1. CASE k = 1
    <3>1. 1 \in 1 .. Len(f.acts)
      BY <1>5
    <3> QED BY <2>1, <3>1, <1>2, <1>3, <1>7 DEF WellFormed
  <2>2. CASE k # 1
    <3>1. k \in 2 .. Len(s) /\ k - 1 \in 1 .. Len(f.acts) /\ (k < Len(s) => k - 1 < Len(f.acts))
      BY <2>2, <1>3, <1>5
    <3> QED BY <3>1, <1>3 DEF WellFormed
  <2> QED BY <2>1, <2>2
<1>10. WellFormed(g)
  BY <1>2, <1>3, <1>4, <1>8, <1>9 DEF WellFormed
<1> QED BY <1>4, <1>10 DEF g

LEMMA TailFacts ==
  ASSUME NEW S, NEW q \in Seq(S), q # <<>>
  PROVE  /\ Tail(q) \in Seq(S) /\ Len(Tail(q)) = Len(q) - 1 /\ Len(q) \in Nat \ {0}
         /\ \A k \in 1 .. Len(q) - 1 : Tail(q)[k] = q[k + 1]
OBVIOUS

(* With an internal call left. *)
LEMMA LeavingFrame ==
  ASSUME NEW f, WellFormed(f), f.runs # Outside, Len(f.acts) # 1, NEW x \in {"nothing", "call"}
  PROVE  LET g == [f EXCEPT !.waits = x, !.acts = Tail(@)]
         IN  WellFormed(g) /\ g.runs = f.runs /\ g.snap = f.snap /\ g.waits = x
<1> DEFINE g == [f EXCEPT !.waits = x, !.acts = Tail(@)]
           s == Tail(f.acts)
<1>1. f.acts \in Seq(Activations) /\ f.acts # <<>>
  BY DEF WellFormed, Frame
<1>2. /\ s \in Seq(Activations) /\ Len(s) = Len(f.acts) - 1 /\ Len(s) > 0 /\ s # <<>>
      /\ \A k \in 1 .. Len(s) : s[k] = f.acts[k + 1]
  <2> HIDE DEF g
  <2>1. /\ s \in Seq(Activations) /\ Len(s) = Len(f.acts) - 1 /\ Len(f.acts) \in Nat \ {0}
        /\ \A k \in 1 .. Len(f.acts) - 1 : s[k] = f.acts[k + 1]
    BY <1>1, TailFacts
  <2> HIDE DEF s
  <2>2. Len(s) \in Nat /\ Len(s) > 0
    <3> SUFFICES ASSUME NEW n \in Nat, n # 0, n # 1 PROVE n - 1 \in Nat /\ n - 1 > 0
      BY <2>1, <1>1
    <3> QED OBVIOUS
  <2>3. s # <<>>
    BY <2>2
  <2>4. \A k \in 1 .. Len(s) : s[k] = f.acts[k + 1]
    BY <2>1
  <2> QED BY <2>1, <2>2, <2>3, <2>4
<1>3. g \in Frame /\ g.runs = f.runs /\ g.snap = f.snap /\ g.waits = x /\ g.acts = s
  BY <1>2 DEF WellFormed, Frame
<1>4. Len(f.acts) \in Nat
  BY <1>1
<1> HIDE DEF s, g
<1>5. s[Len(s)].unit = f.runs
  BY <1>2, <1>4 DEF WellFormed
<1>6. \A k \in 1 .. Len(s) : /\ k < Len(s) => s[k].unit \in Methods
                             /\ s[k].unit \in MayCallOut => f.runs \in MayCallOut
                             /\ s[k].mode = "inline" => ~Hoisted(s[k].try)
  <2> TAKE k \in 1 .. Len(s)
  <2>1. k + 1 \in 1 .. Len(f.acts) /\ (k < Len(s) => k + 1 < Len(f.acts))
    BY <1>2, <1>4
  <2> QED BY <2>1, <1>2 DEF WellFormed
<1>7. x \notin Tries
  BY NamesAssumption DEF Units
<1>8. WellFormed(g)
  BY <1>2, <1>3, <1>5, <1>6, <1>7 DEF WellFormed
<1> QED BY <1>3, <1>8 DEF g

-----------------------------------------------------------------------------
(* Every move keeps every part of the invariant. *)

Typed == gas' \in 0 .. MaxGas /\ answer' \in Answers

(* A transaction starts in a world of the right shape, without transients.    *)
LEMMA ClearFacts ==
  ASSUME NEW w \in World
  PROVE  LET c == ClearTransient(w)
         IN  /\ c \in World /\ c.lock = 0 /\ c.cap = 0
             /\ c.flags = w.flags /\ c.runs = w.runs /\ c.code = w.code
<1>1. 0 \in Bit
  BY DEF Bit
<1>2. [w EXCEPT !.lock = 0, !.cap = 0, !.returned = 0, !.exc = 0] \in World
  BY <1>1 DEF World
<1> QED BY <1>2 DEF ClearTransient, World

(* Which frame a move changes. *)
LEMMA FramesAfter ==
  ASSUME TypeInv
  PROVE  /\ \A f, w : GoesOn(f, w) =>
              /\ depth \in 1 .. MaxDepth
              /\ \A i \in 1 .. MaxDepth : frames'[i] = IF i = depth THEN f ELSE frames[i]
         /\ \A f, u, v, w : Calls(f, u, v, w) =>
              /\ depth \in 1 .. MaxDepth /\ depth + 1 \in 1 .. MaxDepth
              /\ \A i \in 1 .. MaxDepth :
                   frames'[i] = IF i = depth + 1 THEN NewFrame(u, v)
                                ELSE IF i = depth THEN f ELSE frames[i]
         /\ \A ok, w : Ends(ok, w) =>
              /\ depth \in 1 .. MaxDepth
              /\ \A i \in 1 .. MaxDepth : frames'[i] = IF i = depth THEN NoFrame ELSE frames[i]
         /\ Starts => \A i \in 1 .. MaxDepth :
              frames'[i] = IF i = 1 THEN NewFrame(Outside, ClearTransient(world)) ELSE frames[i]
<1>1. DOMAIN frames = 1 .. MaxDepth /\ depth \in 0 .. MaxDepth /\ MaxDepth \in Nat \ {0}
  BY BoundsAssumption DEF TypeInv
<1>2. ASSUME NEW f, NEW w, GoesOn(f, w)
      PROVE  /\ depth \in 1 .. MaxDepth
             /\ \A i \in 1 .. MaxDepth : frames'[i] = IF i = depth THEN f ELSE frames[i]
  BY <1>1, <1>2 DEF GoesOn
<1>3. ASSUME NEW f, NEW u, NEW v, NEW w, Calls(f, u, v, w)
      PROVE  /\ depth \in 1 .. MaxDepth /\ depth + 1 \in 1 .. MaxDepth
             /\ \A i \in 1 .. MaxDepth :
                  frames'[i] = IF i = depth + 1 THEN NewFrame(u, v)
                               ELSE IF i = depth THEN f ELSE frames[i]
  BY <1>1, <1>3 DEF Calls
<1>4. ASSUME NEW ok, NEW w, Ends(ok, w)
      PROVE  /\ depth \in 1 .. MaxDepth
             /\ \A i \in 1 .. MaxDepth : frames'[i] = IF i = depth THEN NoFrame ELSE frames[i]
  BY <1>1, <1>4 DEF Ends
<1>5. ASSUME Starts, NEW i \in 1 .. MaxDepth
      PROVE  frames'[i] = IF i = 1 THEN NewFrame(Outside, ClearTransient(world)) ELSE frames[i]
  BY <1>1, <1>5 DEF Starts
<1> QED BY <1>2, <1>3, <1>4, <1>5

(* The frame on top is well formed, and what it goes back to is a world.      *)
LEMMA TopFacts ==
  ASSUME TypeInv, depth > 0
  PROVE  depth \in 1 .. MaxDepth /\ WellFormed(Top) /\ Top.snap \in World /\ Top \in Frame
<1>1. depth \in 1 .. MaxDepth
  BY BoundsAssumption DEF TypeInv
<1>2. WellFormed(Top) /\ Top \in Frame
  BY <1>1 DEF TypeInv, WellFormed, Top
<1> QED BY <1>1, <1>2 DEF Frame

LEMMA MoveTypes ==
  ASSUME TypeInv, Move, Typed
  PROVE  TypeInv'
<1> USE BoundsAssumption
<1> SUFFICES /\ world' \in World /\ depth' \in 0 .. MaxDepth
             /\ DOMAIN frames' = 1 .. MaxDepth /\ frames' = [i \in 1 .. MaxDepth |-> frames'[i]]
             /\ \A i \in 1 .. MaxDepth : WellFormed(frames'[i])
  <2>1. frames' \in [1 .. MaxDepth -> Frame]
    BY DEF WellFormed
  <2> QED BY <2>1 DEF TypeInv, Typed
<1>0. /\ frames = [i \in 1 .. MaxDepth |-> frames[i]] /\ DOMAIN frames = 1 .. MaxDepth
      /\ world \in World /\ depth \in 0 .. MaxDepth
      /\ \A i \in 1 .. MaxDepth : WellFormed(frames[i])
  BY DEF TypeInv
<1>1. ASSUME NEW f, NEW w, GoesOn(f, w)
      PROVE  /\ world' \in World /\ depth' \in 0 .. MaxDepth
             /\ \A i \in 1 .. MaxDepth : WellFormed(frames'[i])
  BY <1>0, <1>1, FramesAfter DEF GoesOn
<1>2. ASSUME NEW f, NEW u, NEW v, NEW w, Calls(f, u, v, w)
      PROVE  /\ world' \in World /\ depth' \in 0 .. MaxDepth
             /\ \A i \in 1 .. MaxDepth : WellFormed(frames'[i])
  <2>1. u \in Units \cup {Outside} /\ v \in World
    BY <1>2, MethodsAssumption DEF Calls, Entries, Thunks, Units
  <2>2. WellFormed(NewFrame(u, v))
    BY <2>1, NewFrameFacts
  <2> QED BY <1>0, <1>2, <2>2, FramesAfter DEF Calls
<1>3. ASSUME NEW ok \in BOOLEAN, NEW w, Ends(ok, w)
      PROVE  /\ world' \in World /\ depth' \in 0 .. MaxDepth
             /\ \A i \in 1 .. MaxDepth : WellFormed(frames'[i])
  <2>1. WellFormed(NoFrame)
    BY FreshInWorld, NewFrameFacts DEF NoFrame
  <2>2. depth > 0
    BY <1>3 DEF Ends
  <2>3. Top.snap \in World
    BY <2>2, TopFacts
  <2>4. world' \in World
    BY <1>3, <2>3 DEF Ends
  <2> QED BY <1>0, <1>3, <2>1, <2>4, FramesAfter DEF Ends
<1>4. ASSUME Starts
      PROVE  /\ world' \in World /\ depth' \in 0 .. MaxDepth
             /\ \A i \in 1 .. MaxDepth : WellFormed(frames'[i])
  <2>1. ClearTransient(world) \in World
    BY <1>0, ClearFacts
  <2>2. WellFormed(NewFrame(Outside, ClearTransient(world)))
    BY <2>1, NewFrameFacts
  <2> QED BY <1>0, <1>4, <2>1, <2>2, FramesAfter DEF Starts
<1>5. DOMAIN frames' = 1 .. MaxDepth /\ frames' = [i \in 1 .. MaxDepth |-> frames'[i]]
  BY <1>0 DEF Move, GoesOn, Calls, Ends, Starts, Rests
<1> QED BY <1>0, <1>1, <1>2, <1>3, <1>4, <1>5 DEF Move, Rests

(* Only the frames up to depth are looked at, and they are frames.           *)
LEMMA BelowTop ==
  ASSUME TypeInv
  PROVE  /\ depth \in Nat /\ MaxDepth \in Nat /\ depth <= MaxDepth
         /\ \A i \in 1 .. depth : i \in 1 .. MaxDepth
         /\ \A i \in 1 .. depth : frames[i].runs \in Units \cup {Outside} /\ frames[i].snap \in World
BY BoundsAssumption DEF TypeInv, Frame

(* What the parts of the invariant look at, in the frames up to depth.        *)
LEMMA FramesOn ==
  ASSUME TypeInv, NEW f, NEW w, GoesOn(f, w)
  PROVE  /\ \A i \in 1 .. depth : frames'[i].runs = frames[i].runs /\ frames'[i].snap = frames[i].snap
         /\ \A i \in 1 .. depth - 1 : frames'[i] = frames[i]
         /\ frames'[depth] = f
<1>1. depth \in 1 .. MaxDepth
      /\ \A i \in 1 .. MaxDepth : frames'[i] = IF i = depth THEN f ELSE frames[i]
  BY FramesAfter
<1>2. f.runs = frames[depth].runs /\ f.snap = frames[depth].snap /\ MaxDepth \in Nat
  BY BoundsAssumption DEF GoesOn, Top
<1> QED BY <1>1, <1>2

LEMMA FramesCalled ==
  ASSUME TypeInv, NEW f, NEW u, NEW v, NEW w, Calls(f, u, v, w)
  PROVE  /\ u \in Units \cup {Outside} /\ (u \in Methods => u \in Exports \cup New)
         /\ \A i \in 1 .. depth : frames'[i].runs = frames[i].runs /\ frames'[i].snap = frames[i].snap
         /\ \A i \in 1 .. depth - 1 : frames'[i] = frames[i]
         /\ frames'[depth] = f
         /\ frames'[depth + 1].runs = u /\ frames'[depth + 1].snap = v
<1>1. depth \in 1 .. MaxDepth /\ depth + 1 \in 1 .. MaxDepth
      /\ \A i \in 1 .. MaxDepth : frames'[i] = IF i = depth + 1 THEN NewFrame(u, v)
                                          ELSE IF i = depth THEN f ELSE frames[i]
  BY FramesAfter
<1>2. u \in Units \cup {Outside} /\ v \in World /\ (u \in Methods => u \in Exports \cup New)
  BY MethodsAssumption, NamesAssumption DEF Calls, Entries, Thunks, Units, Outside
<1>3. NewFrame(u, v).runs = u /\ NewFrame(u, v).snap = v
  BY <1>2, NewFrameFacts
<1>4. f.runs = frames[depth].runs /\ f.snap = frames[depth].snap /\ MaxDepth \in Nat
  BY BoundsAssumption DEF Calls, Top
<1> QED BY <1>1, <1>2, <1>3, <1>4

LEMMA MoveUnits ==
  ASSUME TypeInv, UnitInv, Move
  PROVE  UnitInv'
<1>0. depth \in Nat /\ MaxDepth \in Nat /\ depth <= MaxDepth /\ Outside \notin Methods
  BY BelowTop, NamesAssumption DEF Outside, Units
<1>1. ASSUME NEW f, NEW w, GoesOn(f, w) PROVE UnitInv'
  <2>1. \A i \in 1 .. depth : frames'[i].runs = frames[i].runs
    BY <1>1, FramesOn
  <2> QED BY <1>0, <1>1, <2>1 DEF UnitInv, GoesOn
<1>2. ASSUME NEW f, NEW u, NEW v, NEW w, Calls(f, u, v, w) PROVE UnitInv'
  <2>1. /\ \A i \in 1 .. depth : frames'[i].runs = frames[i].runs
        /\ frames'[depth + 1].runs = u /\ (u \in Methods => u \in Exports \cup New)
    BY <1>2, FramesCalled
  <2>2. frames[depth].runs \in Methods => frames[depth].runs \in MayCallOut
    BY <1>2 DEF Calls, Top
  <2>3. depth' = depth + 1
    BY <1>2 DEF Calls
  <2>4. u = Outside => External # {}
    BY <1>2 DEF Calls
  <2> QED BY <1>0, <2>1, <2>2, <2>3, <2>4 DEF UnitInv
<1>3. ASSUME NEW ok \in BOOLEAN, NEW w, Ends(ok, w) PROVE UnitInv'
  <2>1. \A i \in 1 .. depth - 1 : frames'[i].runs = frames[i].runs
    BY <1>0, <1>3, FramesAfter DEF Ends
  <2> QED BY <1>0, <1>3, <2>1 DEF UnitInv, Ends
<1>4. ASSUME Starts PROVE UnitInv'
  <2>1. frames'[1].runs = Outside
    BY <1>4, FramesAfter, BoundsAssumption, ClearFacts, NewFrameFacts DEF TypeInv
  <2> QED BY <1>0, <1>4, <2>1 DEF UnitInv, Starts
<1>5. ASSUME Rests PROVE UnitInv'
  BY <1>5 DEF UnitInv, Rests
<1> QED BY <1>1, <1>2, <1>3, <1>4, <1>5 DEF Move

LEMMA MoveLock ==
  ASSUME TypeInv, LockInv, Move
  PROVE  LockInv'
<1>0. depth \in Nat /\ MaxDepth \in Nat /\ depth <= MaxDepth /\ ~Guarded(Outside) /\ world.lock \in Bit
  BY BelowTop, GuardedFacts DEF TypeInv, World
<1>1. ASSUME NEW f, NEW w, GoesOn(f, w) PROVE LockInv'
  <2>1. \A i \in 1 .. depth : frames'[i].runs = frames[i].runs /\ frames'[i].snap = frames[i].snap
    BY <1>1, FramesOn
  <2> QED BY <1>0, <1>1, <2>1 DEF LockInv, GoesOn
<1>2. ASSUME NEW f, NEW u, NEW v, NEW w, Calls(f, u, v, w) PROVE LockInv'
  <2>3. /\ \A i \in 1 .. depth : frames'[i].runs = frames[i].runs /\ frames'[i].snap = frames[i].snap
        /\ frames'[depth + 1].runs = u /\ frames'[depth + 1].snap = v
    BY <1>2, FramesCalled
  <2>4. depth' = depth + 1 /\ world' = w /\ v.lock = world.lock
        /\ IF Guarded(u) THEN world.lock = 0 /\ w.lock = 1 ELSE w.lock = world.lock
    BY <1>2 DEF Calls
  <2>5. (world'.lock = 1 <=> \E i \in 1 .. depth' : Guarded(frames'[i].runs))
    BY <1>0, <2>3, <2>4 DEF LockInv
  <2>6. ASSUME NEW i \in 1 .. depth'
        PROVE  frames'[i].snap.lock = 1 <=> \E j \in 1 .. i - 1 : Guarded(frames'[j].runs)
    <3>1. CASE i = depth + 1
      BY <1>0, <2>3, <2>4, <3>1 DEF LockInv
    <3>2. CASE i \in 1 .. depth
      BY <1>0, <2>3, <3>2 DEF LockInv
    <3> QED BY <1>0, <2>4, <3>1, <3>2
  <2>7. \A i, j \in 1 .. depth' : Guarded(frames'[i].runs) /\ Guarded(frames'[j].runs) => i = j
    <3>1. Guarded(u) => \A i \in 1 .. depth : ~Guarded(frames[i].runs)
      BY <2>4 DEF LockInv
    <3> QED BY <1>0, <2>3, <2>4, <3>1 DEF LockInv
  <2> QED BY <2>5, <2>6, <2>7 DEF LockInv
<1>3. ASSUME NEW ok \in BOOLEAN, NEW w, Ends(ok, w) PROVE LockInv'
  <2>1. \A i \in 1 .. depth - 1 : frames'[i].runs = frames[i].runs /\ frames'[i].snap = frames[i].snap
    BY <1>0, <1>3, FramesAfter DEF Ends
  <2>2. depth > 0 /\ depth' = depth - 1
    BY <1>3 DEF Ends
  <2>3. world'.lock = 1 <=> \E i \in 1 .. depth - 1 : Guarded(frames[i].runs)
    <3>1. CASE ok
      BY <1>0, <1>3, <2>2, <3>1 DEF LockInv, Ends, Top
    <3>2. CASE ~ok
      BY <1>0, <1>3, <2>2, <3>2 DEF LockInv, Ends, Top
    <3> QED BY <3>1, <3>2
  <2> QED BY <1>0, <2>1, <2>2, <2>3 DEF LockInv
<1>4. ASSUME Starts PROVE LockInv'
  <2>1. frames'[1].runs = Outside /\ frames'[1].snap.lock = 0 /\ world'.lock = 0
    BY <1>4, FramesAfter, BoundsAssumption, ClearFacts, NewFrameFacts DEF TypeInv, Starts
  <2> QED BY <1>0, <1>4, <2>1 DEF LockInv, Starts
<1>5. ASSUME Rests PROVE LockInv'
  BY <1>5 DEF LockInv, Rests
<1> QED BY <1>1, <1>2, <1>3, <1>4, <1>5 DEF Move

LEMMA MoveCap ==
  ASSUME TypeInv, CapInv, Move
  PROVE  CapInv'
<1>0. depth \in Nat /\ MaxDepth \in Nat /\ depth <= MaxDepth
  BY BelowTop
<1>1. ASSUME NEW f, NEW w, GoesOn(f, w) PROVE CapInv'
  <2>1. /\ \A i \in 1 .. depth : frames'[i].runs = frames[i].runs /\ frames'[i].snap = frames[i].snap
        /\ \A i \in 1 .. depth - 1 : frames'[i].waits = frames[i].waits
        /\ frames'[depth] = f
    BY <1>1, FramesOn
  <2> QED BY <1>0, <1>1, <2>1 DEF CapInv, GoesOn, Top
<1>2. ASSUME NEW f, NEW u, NEW v, NEW w, Calls(f, u, v, w) PROVE CapInv'
  <2>3. /\ \A i \in 1 .. depth : frames'[i].runs = frames[i].runs /\ frames'[i].snap = frames[i].snap
        /\ \A i \in 1 .. depth - 1 : frames'[i].waits = frames[i].waits
        /\ frames'[depth] = f
        /\ frames'[depth + 1].runs = u /\ frames'[depth + 1].snap = v
    BY <1>2, FramesCalled
  <2>4. /\ depth' = depth + 1 /\ depth > 0 /\ world' = w /\ w.cap = 0
        /\ (v.cap = 1 => f.waits \in Tries) /\ (u \in Tries => f.waits = u)
    BY <1>2 DEF Calls
  <2>5. ASSUME NEW i \in 1 .. depth'
        PROVE  /\ frames'[i].snap.cap = 1 => i > 1 /\ frames'[i - 1].waits \in Tries
               /\ frames'[i].runs \in Tries => i > 1 /\ frames'[i - 1].waits = frames'[i].runs
    <3>1. CASE i = depth + 1
      BY <1>0, <2>3, <2>4, <3>1
    <3>2. CASE i \in 1 .. depth
      BY <1>0, <2>3, <3>2 DEF CapInv
    <3> QED BY <1>0, <2>4, <3>1, <3>2
  <2> QED BY <2>4, <2>5 DEF CapInv
<1>3. ASSUME NEW ok \in BOOLEAN, NEW w, Ends(ok, w) PROVE CapInv'
  <2>1. \A i \in 1 .. depth - 1 : frames'[i] = frames[i]
    BY <1>0, <1>3, FramesAfter DEF Ends
  <2>2. depth > 0 /\ depth' = depth - 1 /\ answer'.ended
    BY <1>3 DEF Ends
  <2>3. world'.cap = 1 => depth - 1 > 0 /\ frames[depth - 1].waits \in Tries
    BY <1>0, <1>3, <2>2 DEF CapInv, Ends, Top
  <2> QED BY <1>0, <2>1, <2>2, <2>3 DEF CapInv, Top
<1>4. ASSUME Starts PROVE CapInv'
  <2>1. frames'[1].runs = Outside /\ frames'[1].snap.cap = 0 /\ world'.cap = 0
    BY <1>4, FramesAfter, BoundsAssumption, ClearFacts, NewFrameFacts DEF TypeInv, Starts
  <2>2. Outside \notin Tries
    BY NamesAssumption DEF Outside, Units
  <2> QED BY <1>0, <1>4, <2>1, <2>2 DEF CapInv, Starts
<1>5. ASSUME Rests PROVE CapInv'
  BY <1>5 DEF CapInv, Rests
<1> QED BY <1>1, <1>2, <1>3, <1>4, <1>5 DEF Move

LEMMA MoveOnce ==
  ASSUME TypeInv, OnceInv, OnceFromOutside, Move
  PROVE  OnceInv'
<1>0. depth \in Nat /\ MaxDepth \in Nat /\ depth <= MaxDepth
  BY BelowTop
<1>1. ASSUME NEW f, NEW w, GoesOn(f, w) PROVE OnceInv'
  <2>1. \A i \in 1 .. depth : frames'[i].snap = frames[i].snap
    BY <1>1, FramesOn
  <2>2. Counted(world')
    BY <1>1 DEF OnceInv, Counted, GoesOn
  <2> QED BY <1>0, <1>1, <2>1, <2>2 DEF OnceInv, GoesOn, Counted
<1>2. ASSUME NEW f, NEW u, NEW v, NEW w, Calls(f, u, v, w) PROVE OnceInv'
  <2>3. /\ \A i \in 1 .. depth : frames'[i].snap = frames[i].snap
        /\ frames'[depth + 1].snap = v
    BY <1>2, FramesCalled
  <2>4. Counted(v)
    BY <1>2 DEF OnceInv, Counted, Calls
  <2>5. Counted(w) /\ depth' = depth + 1 /\ world' = w
    BY <1>2, <2>4 DEF Calls
  <2> QED BY <1>0, <2>3, <2>4, <2>5 DEF OnceInv, Counted
<1>3. ASSUME NEW ok \in BOOLEAN, NEW w, Ends(ok, w) PROVE OnceInv'
  <2>1. \A i \in 1 .. depth - 1 : frames'[i] = frames[i]
    BY <1>0, <1>3, FramesAfter DEF Ends
  <2>2. depth > 0 /\ depth' = depth - 1
    BY <1>3 DEF Ends
  <2>3. Counted(world')
    BY <1>0, <1>3, <2>2 DEF OnceInv, Ends, Top, Counted
  <2> QED BY <1>0, <2>1, <2>2, <2>3 DEF OnceInv, Counted
<1>4. ASSUME Starts PROVE OnceInv'
  <2>1. /\ frames'[1].snap.flags = world.flags /\ frames'[1].snap.runs = world.runs
        /\ world'.flags = world.flags /\ world'.runs = world.runs
    <3> DEFINE c == ClearTransient(world)
    <3>1. c \in World /\ c.flags = world.flags /\ c.runs = world.runs
      BY ClearFacts DEF TypeInv
    <3>2. frames'[1] = NewFrame(Outside, c) /\ world' = c
      BY <1>4, FramesAfter, BoundsAssumption DEF Starts
    <3> HIDE DEF c
    <3>3. frames'[1].snap = c
      BY <3>1, <3>2, NewFrameFacts
    <3> QED BY <3>1, <3>2, <3>3
  <2> QED BY <1>0, <1>4, <2>1 DEF OnceInv, Counted, Starts
<1>5. ASSUME Rests PROVE OnceInv'
  BY <1>5 DEF OnceInv, Counted, Rests
<1> QED BY <1>1, <1>2, <1>3, <1>4, <1>5 DEF Move

LEMMA MoveTry ==
  ASSUME TypeInv, TryInv, Move
  PROVE  TryInv'
<1>0. depth \in Nat /\ MaxDepth \in Nat /\ depth <= MaxDepth
  BY BelowTop
<1>1. ASSUME NEW f, NEW w, GoesOn(f, w) PROVE TryInv'
  <2>1. /\ \A i \in 1 .. depth : frames'[i].snap = frames[i].snap
        /\ \A i \in 1 .. depth - 1 : frames'[i] = frames[i]
        /\ frames'[depth] = f
    BY <1>1, FramesOn
  <2>2. depth' = depth /\ (f.waits \in Tries /\ ~answer'.ok => world'.data = f.acts[1].before)
    BY <1>1 DEF GoesOn
  <2>3. \A i \in 1 .. depth - 1 :
          frames'[i].waits \in Tries => frames'[i + 1].snap.data = frames'[i].acts[1].before
    BY <1>0, <2>1 DEF TryInv
  <2> QED BY <2>1, <2>2, <2>3 DEF TryInv, Top
<1>2. ASSUME NEW f, NEW u, NEW v, NEW w, Calls(f, u, v, w) PROVE TryInv'
  <2>1. /\ \A i \in 1 .. depth : frames'[i].snap = frames[i].snap
        /\ \A i \in 1 .. depth - 1 : frames'[i] = frames[i]
        /\ frames'[depth] = f /\ frames'[depth + 1].snap = v
    BY <1>2, FramesCalled
  <2>2. depth' = depth + 1 /\ (f.waits \in Tries => v.data = f.acts[1].before)
    BY <1>2 DEF Calls
  <2>3. frames'[depth + 1].waits = "nothing" /\ "nothing" \notin Tries
    <3>1. v \in World /\ u \in Units \cup {Outside}
      BY <1>2, FramesCalled DEF Calls
    <3>2. frames'[depth + 1] = NewFrame(u, v)
      <4>1. depth + 1 \in 1 .. MaxDepth
            /\ \A i \in 1 .. MaxDepth : frames'[i] = IF i = depth + 1 THEN NewFrame(u, v)
                                                ELSE IF i = depth THEN f ELSE frames[i]
        BY <1>2, FramesAfter
      <4> QED BY <4>1
    <3> QED BY <3>1, <3>2, NewFrameFacts, NamesAssumption DEF Units
  <2>4. ASSUME NEW i \in 1 .. depth, frames'[i].waits \in Tries
        PROVE  frames'[i + 1].snap.data = frames'[i].acts[1].before
    <3>1. CASE i = depth
      BY <2>1, <2>2, <2>4, <3>1
    <3>2. CASE i # depth
      <4>1. i \in 1 .. depth - 1 /\ i + 1 \in 1 .. depth
        BY <1>0, <3>2
      <4> QED BY <2>1, <2>4, <4>1 DEF TryInv
    <3> QED BY <3>1, <3>2
  <2> QED BY <1>0, <2>2, <2>3, <2>4 DEF TryInv, Top
<1>3. ASSUME NEW ok \in BOOLEAN, NEW w, Ends(ok, w) PROVE TryInv'
  <2>1. \A i \in 1 .. depth - 1 : frames'[i] = frames[i]
    BY <1>0, <1>3, FramesAfter DEF Ends
  <2>2. depth > 0 /\ depth' = depth - 1 /\ (~answer'.ok => world' = frames[depth].snap)
    BY <1>3 DEF Ends, Top
  <2>3. depth - 1 > 0 /\ frames[depth - 1].waits \in Tries =>
          frames[depth].snap.data = frames[depth - 1].acts[1].before
    BY <1>0 DEF TryInv
  <2> QED BY <1>0, <2>1, <2>2, <2>3 DEF TryInv, Top
<1>4. ASSUME Starts PROVE TryInv'
  <2>1. frames'[1].waits = "nothing" /\ "nothing" \notin Tries
    BY <1>4, FramesAfter, BoundsAssumption, ClearFacts, NewFrameFacts, NamesAssumption
       DEF TypeInv, Starts, Units
  <2> QED BY <1>0, <1>4, <2>1 DEF TryInv, Top, Starts
<1>5. ASSUME Rests PROVE TryInv'
  BY <1>5 DEF TryInv, Rests, Top
<1> QED BY <1>1, <1>2, <1>3, <1>4, <1>5 DEF Move

LEMMA MoveCode ==
  ASSUME TypeInv, CodeInv, Move
  PROVE  CodeInv'
<1>0. depth \in Nat /\ MaxDepth \in Nat /\ depth <= MaxDepth /\ Outside \notin Units /\ New \subseteq Units
  BY BelowTop, NamesAssumption, MethodsAssumption DEF Outside, Units
<1>1. ASSUME NEW f, NEW w, GoesOn(f, w) PROVE CodeInv'
  <2>1. \A i \in 1 .. depth : frames'[i].runs = frames[i].runs /\ frames'[i].snap = frames[i].snap
    BY <1>1, FramesOn
  <2>2. depth' = depth /\ world'.code = world.code
    BY <1>1 DEF GoesOn
  <2> QED BY <1>0, <2>1, <2>2 DEF CodeInv, Fits
<1>2. ASSUME NEW f, NEW u, NEW v, NEW w, Calls(f, u, v, w) PROVE CodeInv'
  <2>1. /\ \A i \in 1 .. depth : frames'[i].runs = frames[i].runs /\ frames'[i].snap = frames[i].snap
        /\ frames'[depth + 1].runs = u /\ frames'[depth + 1].snap = v
    BY <1>2, FramesCalled
  <2>2. /\ depth' = depth + 1 /\ world'.code = world.code /\ v.code = world.code /\ Fits(world, u)
        /\ u \in New => \A i \in 1 .. depth : frames[i].runs \notin New
    BY <1>2 DEF Calls
  <2>3. ASSUME NEW i \in 1 .. depth'
        PROVE  /\ Fits(world', frames'[i].runs)
               /\ \A j \in 1 .. i - 1 : Fits(frames'[i].snap, frames'[j].runs)
    <3>1. CASE i = depth + 1
      BY <1>0, <2>1, <2>2, <3>1 DEF CodeInv, Fits
    <3>2. CASE i \in 1 .. depth
      BY <1>0, <2>1, <2>2, <3>2 DEF CodeInv, Fits
    <3> QED BY <1>0, <2>2, <3>1, <3>2
  <2>4. \A i, j \in 1 .. depth' : frames'[i].runs \in New /\ frames'[j].runs \in New => i = j
    BY <1>0, <2>1, <2>2 DEF CodeInv
  <2> QED BY <2>3, <2>4 DEF CodeInv
<1>3. ASSUME NEW ok \in BOOLEAN, NEW w, Ends(ok, w) PROVE CodeInv'
  <2>1. \A i \in 1 .. depth - 1 : frames'[i].runs = frames[i].runs /\ frames'[i].snap = frames[i].snap
    BY <1>0, <1>3, FramesAfter DEF Ends
  <2>2. /\ depth > 0 /\ depth' = depth - 1 /\ world' = IF ok THEN w ELSE frames[depth].snap
        /\ ok => w.code = world.code \/ (frames[depth].runs \in New /\ w.code = 1)
    BY <1>3 DEF Ends, Top
  <2>3. ASSUME NEW i \in 1 .. depth - 1 PROVE Fits(world', frames[i].runs)
    <3>1. i \in 1 .. depth /\ depth \in 1 .. depth /\ i # depth /\ i \in 1 .. depth - 1
      BY <1>0, <2>2
    <3>2. CASE ok /\ w.code = world.code
      BY <2>2, <3>1, <3>2 DEF CodeInv, Fits
    <3>3. CASE ok /\ frames[depth].runs \in New /\ w.code = 1
      <4>1. frames[i].runs \notin New /\ world.code # 1
        BY <1>0, <3>1, <3>3 DEF CodeInv, Fits
      <4> QED BY <3>1, <4>1 DEF CodeInv, Fits
    <3>4. CASE ~ok
      BY <2>2, <3>1, <3>4 DEF CodeInv
    <3> QED BY <2>2, <3>2, <3>3, <3>4
  <2> QED BY <1>0, <2>1, <2>2, <2>3 DEF CodeInv
<1>4. ASSUME Starts PROVE CodeInv'
  <2>1. frames'[1].runs = Outside
    BY <1>4, FramesAfter, BoundsAssumption, ClearFacts, NewFrameFacts DEF TypeInv
  <2> QED BY <1>0, <1>4, <2>1 DEF CodeInv, Fits, Starts
<1>5. ASSUME Rests PROVE CodeInv'
  BY <1>5 DEF CodeInv, Fits, Rests
<1> QED BY <1>1, <1>2, <1>3, <1>4, <1>5 DEF Move

LEMMA MoveRan ==
  ASSUME TypeInv, ConstructorsStay, RanInv, Move
  PROVE  RanInv'
<1>1. ASSUME NEW f, NEW w, GoesOn(f, w) PROVE RanInv'
  <2>1. frames'[depth] = f /\ depth' = depth
    BY <1>1, FramesOn DEF GoesOn
  <2> QED BY <1>1, <2>1 DEF GoesOn, RanInv, Top
<1>2. ASSUME NEW f, NEW u, NEW v, NEW w, Calls(f, u, v, w) PROVE RanInv'
  <2>1. v \in World /\ u \in Units \cup {Outside} /\ depth' = depth + 1
    BY <1>2, FramesCalled DEF Calls
  <2>2. frames'[depth + 1] = NewFrame(u, v)
    <3>1. /\ depth + 1 \in 1 .. MaxDepth
          /\ \A i \in 1 .. MaxDepth : frames'[i] = IF i = depth + 1 THEN NewFrame(u, v)
                                              ELSE IF i = depth THEN f ELSE frames[i]
      BY <1>2, FramesAfter
    <3> QED BY <3>1
  <2>3. NewFrame(u, v).waits = "nothing" /\ "nothing" \notin Tries
    BY <2>1, NewFrameFacts, NamesAssumption DEF Units
  <2> QED BY <2>1, <2>2, <2>3 DEF RanInv, Top
<1>3. ASSUME NEW ok \in BOOLEAN, NEW w, Ends(ok, w) PROVE RanInv'
  BY <1>3 DEF Ends, RanInv
<1>4. ASSUME Starts PROVE RanInv'
  <2>1. frames'[1].waits = "nothing" /\ "nothing" \notin Tries
    BY <1>4, FramesAfter, BoundsAssumption, ClearFacts, NewFrameFacts, NamesAssumption
       DEF TypeInv, Starts, Units
  <2> QED BY <1>4, <2>1 DEF RanInv, Top, Starts
<1>5. ASSUME Rests PROVE RanInv'
  BY <1>5 DEF RanInv, Rests
<1> QED BY <1>1, <1>2, <1>3, <1>4, <1>5 DEF Move

-----------------------------------------------------------------------------
(* Worlds. *)

LEMMA Bits == 0 \in Bit /\ 1 \in Bit /\ \A b \in Bit : b # 1 => b = 0
BY DEF Bit

(* The lock is all that leaving an entry point changes.                      *)
LEMMA UnlockFacts ==
  ASSUME NEW w \in World, NEW u
  PROVE  /\ Unlock(w, u) \in World
         /\ Unlock(w, u).lock = IF Guarded(u) THEN 0 ELSE w.lock
         /\ Unlock(w, u).cap = w.cap /\ Unlock(w, u).flags = w.flags /\ Unlock(w, u).runs = w.runs
         /\ Unlock(w, u).code = w.code
<1>1. [w EXCEPT !.lock = 0] \in World
  BY Bits DEF World
<1> QED BY <1>1 DEF Unlock, World

(* And a constructor that ends leaves its contract with code.                *)
LEMMA DeployedFacts ==
  ASSUME NEW w \in World, NEW u
  PROVE  LET d == Deployed(Unlock(w, u), u)
         IN  /\ d \in World /\ d.lock = IF Guarded(u) THEN 0 ELSE w.lock
             /\ d.cap = w.cap /\ d.flags = w.flags /\ d.runs = w.runs
             /\ d.code = w.code \/ (u \in New /\ d.code = 1)
<1> DEFINE v == Unlock(w, u)
<1>1. /\ v \in World /\ v.lock = IF Guarded(u) THEN 0 ELSE w.lock
      /\ v.cap = w.cap /\ v.flags = w.flags /\ v.runs = w.runs /\ v.code = w.code
  BY UnlockFacts
<1> HIDE DEF v
<1>2. [v EXCEPT !.code = 1] \in World
  BY <1>1, Bits DEF World
<1>3. Deployed(v, u) = IF u \in New THEN [v EXCEPT !.code = 1] ELSE v
  BY DEF Deployed
<1>4. CASE u \in New
  BY <1>1, <1>2, <1>3, <1>4 DEF World, v
<1>5. CASE u \notin New
  BY <1>1, <1>3, <1>5 DEF v
<1> QED BY <1>4, <1>5

(* An entry point that is let in takes the lock, its once flag and the        *)
(* capability.                                                              *)
LEMMA PrologueFacts ==
  ASSUME NEW w \in World, NEW u
  PROVE  LET p == Prologue(w, u)
         IN  /\ p \in World
             /\ p.lock = IF Guarded(u) THEN 1 ELSE w.lock
             /\ p.cap = IF u \in Tries THEN 0 ELSE w.cap
             /\ p.code = w.code
             /\ (u \in OnceFns => u \notin w.flags) /\ Counted(w) => Counted(p)
<1> DEFINE p == Prologue(w, u)
           fl == IF u \in OnceFns THEN w.flags \cup {u} ELSE w.flags
           rn == IF u \in OnceFns THEN [w.runs EXCEPT ![u] = @ + 1] ELSE w.runs
           lk == IF Guarded(u) THEN 1 ELSE w.lock
           cp == IF u \in Tries THEN 0 ELSE w.cap
<1>1. fl \in SUBSET OnceFns /\ rn \in [OnceFns -> Nat] /\ lk \in Bit /\ cp \in Bit
  BY Bits DEF World
<1>2. p = [w EXCEPT !.lock = lk, !.flags = fl, !.runs = rn, !.cap = cp]
  BY DEF Prologue, FlagsAfter, RunsAfter, CapAfter
<1> HIDE DEF p, fl, rn, lk, cp
<1>3. p \in World /\ p.lock = lk /\ p.cap = cp /\ p.flags = fl /\ p.runs = rn /\ p.code = w.code
  BY <1>1, <1>2 DEF World
<1>4. ASSUME u \in OnceFns => u \notin w.flags, Counted(w) PROVE Counted(p)
  <2> SUFFICES ASSUME NEW m \in OnceFns PROVE rn[m] = IF m \in fl THEN 1 ELSE 0
    BY <1>3 DEF Counted
  <2>1. w.runs \in [OnceFns -> Nat] /\ w.runs[m] = IF m \in w.flags THEN 1 ELSE 0
    BY <1>4 DEF Counted, World
  <2>2. CASE m = u
    BY <1>4, <2>1, <2>2 DEF rn, fl
  <2>3. CASE m # u
    BY <2>1, <2>3 DEF rn, fl
  <2> QED BY <2>2, <2>3
<1> QED BY <1>3, <1>4 DEF p, lk, cp

-----------------------------------------------------------------------------
(* What every action of the contract finds. *)

Known == TypeInv /\ UnitInv /\ LockInv /\ CapInv /\ CodeInv

(* Unless a try statement is about to look at its answer, no capability is    *)
(* set.                                                                     *)
LEMMA NoCapability ==
  ASSUME Known, depth > 0 => ~answer.ended \/ Top.waits \notin Tries
  PROVE  world.cap = 0
BY Bits DEF Known, CapInv, TypeInv, World

(* The frame on top, when it runs a unit of the contract.                    *)
LEMMA OwnFacts ==
  ASSUME Known, depth > 0, Top.runs # Outside
  PROVE  /\ WellFormed(Top) /\ Top.runs \in Units /\ Act \in Activations /\ Act.unit \in Units
         /\ Act.unit \in MayCallOut => Top.runs \in MayCallOut
         /\ Entry => Act.unit = Top.runs
         /\ ~Entry => Act.unit \in Methods
         /\ Act.mode = "inline" => ~Hoisted(Act.try)
         /\ Top.waits \in Tries => Act.mode = "body" /\ Act.try = Top.waits
<1>1. WellFormed(Top) /\ Top.acts \in Seq(Activations) /\ Top.acts # <<>> /\ Top.runs \in Units
  <2>1. WellFormed(Top) /\ Top \in Frame
    BY TopFacts DEF Known
  <2> QED BY <2>1 DEF WellFormed, Frame
<1>2. Act = Top.acts[1] /\ Len(Top.acts) \in Nat /\ 1 \in 1 .. Len(Top.acts)
  BY <1>1 DEF Act
<1>3. Act \in Activations /\ Act.unit \in Units
  <2>1. Act \in Activations
    BY <1>1, <1>2
  <2> QED BY <2>1 DEF Activations
<1>4. (Act.unit \in MayCallOut => Top.runs \in MayCallOut) /\ (1 < Len(Top.acts) => Act.unit \in Methods)
  BY <1>1, <1>2 DEF WellFormed
<1>5. Entry => Act.unit = Top.runs
  BY <1>1, <1>2 DEF WellFormed, Entry
<1>6. ~Entry => 1 < Len(Top.acts)
  <2> SUFFICES ASSUME NEW n \in Nat, 1 \in 1 .. n, n # 1 PROVE 1 < n
    BY <1>2 DEF Entry
  <2> QED OBVIOUS
<1>7. /\ Act.mode = "inline" => ~Hoisted(Act.try)
      /\ Top.waits \in Tries => Act.mode = "body" /\ Act.try = Top.waits
  BY <1>1, <1>2 DEF WellFormed
<1> QED BY <1>1, <1>3, <1>4, <1>5, <1>6, <1>7

(* Outside code waits for nothing.                                          *)
LEMMA WaitsFacts ==
  ASSUME Known, depth > 0
  PROVE  /\ Top.waits # "nothing" => Top.runs # Outside
         /\ "nothing" \notin Tries /\ "call" \notin Tries /\ Outside \notin Units
BY TopFacts, NamesAssumption DEF Known, WellFormed, Units, Outside

(* A frame may end well if it leaves the lock and the capability as it must.  *)
LEMMA EndMoves ==
  ASSUME Known, depth > 0, NEW ok \in BOOLEAN, NEW data \in {"none", "value", "captures"}, NEW w,
         EndFrame(ok, data, w),
         ok => /\ w \in World /\ w.cap = 0
               /\ w.lock = IF Guarded(Top.runs) THEN 0 ELSE world.lock
               /\ w.flags = world.flags /\ w.runs = world.runs
               /\ w.code = world.code \/ (Top.runs \in New /\ w.code = 1)
  PROVE  Move /\ Typed
<1>1. Ends(ok, w)
  BY DEF Ends, EndFrame
<1>2. Typed
  BY DEF EndFrame, Typed, Known, TypeInv, Answers
<1> QED BY <1>1, <1>2 DEF Move

(* A frame may go on as any frame of the same unit, with the lock and the     *)
(* flags as they are.                                                       *)
LEMMA GoMoves ==
  ASSUME Known, depth > 0, depth' = depth, NEW f, NEW w \in World, Typed,
         SetTop(f), WellFormed(f), f.runs = Top.runs, f.snap = Top.snap, world' = w,
         w.lock = world.lock, w.code = world.code,
         w.flags = world.flags, OnceFromOutside => w.runs = world.runs,
         w.cap = 1 => answer'.ended /\ f.waits \in Tries,
         f.waits \notin Tries
  PROVE  Move
<1>1. GoesOn(f, w)
  BY DEF GoesOn, SetTop
<1> QED BY <1>1 DEF Move

-----------------------------------------------------------------------------
(* Every action is a move. *)

LEMMA TransactionMoves ==
  ASSUME Known, StartTransaction \/ EndTransaction \/ OutsideGoesOn
  PROVE  Move /\ Typed
<1>1. CASE StartTransaction
  <2>1. Starts
    BY <1>1 DEF StartTransaction, Starts
  <2>2. Typed
    BY <1>1, BoundsAssumption DEF StartTransaction, Typed, Known, TypeInv
  <2> QED BY <2>1, <2>2 DEF Move
<1>2. CASE EndTransaction
  BY <1>2 DEF EndTransaction, Move, Rests, Typed, NoAnswer, Answers, Known, TypeInv
<1>3. CASE OutsideGoesOn
  <2>1. depth > 0 /\ Top.waits \notin Tries
    BY <1>3, WaitsFacts DEF OutsideGoesOn
  <2>2. world.cap = 0
    BY <2>1, NoCapability
  <2> QED BY <1>3, <2>2 DEF OutsideGoesOn, Move, Rests, Typed, NoAnswer, Answers, Known, TypeInv
<1> QED BY <1>1, <1>2, <1>3

LEMMA OutsideEndMoves ==
  ASSUME Known, NEW ok \in BOOLEAN, OutsideEnds(ok)
  PROVE  Move /\ Typed
<1>1. depth > 0 /\ ~answer.ended /\ Top.runs = Outside /\ EndFrame(ok, "none", world)
  BY DEF OutsideEnds, OutsideRuns
<1>2. world.cap = 0 /\ world \in World
  BY <1>1, NoCapability DEF Known, TypeInv
<1>3. ~Guarded(Top.runs)
  BY <1>1, GuardedFacts
<1> QED BY <1>1, <1>2, <1>3, EndMoves

(* Gas is spent and the answer stays, or a call fails at once.               *)
LEMMA SpendTypes ==
  ASSUME Known, gas > 0, gas' = gas - 1,
         NEW ok \in BOOLEAN,
         answer' = answer \/ answer' = [ended |-> TRUE, ok |-> ok, ran |-> FALSE, data |-> "none"]
  PROVE  Typed
<1>1. gas' \in 0 .. MaxGas
  <2>1. gas \in 0 .. MaxGas /\ MaxGas \in Nat
    BY BoundsAssumption DEF Known, TypeInv
  <2> QED BY <2>1
<1>2. answer' \in Answers
  <2>1. CASE answer' = answer
    BY <2>1 DEF Known, TypeInv
  <2>2. CASE answer' = [ended |-> TRUE, ok |-> ok, ran |-> FALSE, data |-> "none"]
    BY <2>2 DEF Answers
  <2> QED BY <2>1, <2>2
<1> QED BY <1>1, <1>2 DEF Typed

LEMMA CallEntryMoves ==
  ASSUME Known, NEW u \in Entries, CallEntry(u)
  PROVE  Move /\ Typed
<1>1. depth > 0 /\ ~answer.ended /\ Top.runs = Outside /\ gas > 0 /\ gas' = gas - 1
  BY DEF CallEntry, OutsideRuns
<1>2. world.cap = 0 /\ world \in World /\ WellFormed(Top) /\ Top.waits \notin Tries
  BY <1>1, NoCapability, TopFacts, WaitsFacts DEF Known, TypeInv
<1>3. ASSUME NEW ok \in BOOLEAN, NoCall(ok, Top, world) PROVE Move /\ Typed
  <2>1. Typed
    BY <1>1, <1>3, SpendTypes DEF NoCall
  <2> QED BY <1>1, <1>2, <1>3, <2>1, GoMoves DEF NoCall
<1>4. ASSUME world.code = 1, ~Refuses(world, u), Enter(Top, u, world, Prologue(world, u))
      PROVE  Move /\ Typed
  <2>1. Enter(Top, u, world, Prologue(world, u)) /\ ~Refuses(world, u)
    BY <1>4
  <2>2. Typed
    BY <1>1, <2>1, SpendTypes DEF Enter
  <2> DEFINE p == Prologue(world, u)
  <2>3. /\ p \in World /\ p.lock = IF Guarded(u) THEN 1 ELSE world.lock
        /\ p.cap = 0 /\ p.code = world.code
        /\ (u \in OnceFns => u \notin world.flags) /\ Counted(world) => Counted(p)
    BY <1>2, PrologueFacts
  <2>4. /\ Guarded(u) => world.lock # 1
        /\ u \in OnceFns => u \notin world.flags
        /\ u \notin Tries
    BY <1>2, <2>1 DEF Refuses
  <2>5. Guarded(u) => world.lock = 0
    BY <2>4, Bits DEF Known, TypeInv, World
  <2>6. Top.runs \notin Methods
    BY <1>1, WaitsFacts DEF Units
  <2>8. Fits(world, u) /\ u \notin New /\ u # Outside
    BY <1>4, MethodsAssumption, NamesAssumption DEF Fits, Entries, Thunks, Units, Outside
  <2> HIDE DEF p
  <2>7. Calls(Top, u, world, p)
    BY <1>1, <1>2, <2>1, <2>3, <2>4, <2>5, <2>6, <2>8 DEF Calls, Enter, p
  <2> QED BY <2>2, <2>7 DEF Move
<1>5. \/ \E ok \in BOOLEAN : NoCall(ok, Top, world)
      \/ world.code = 1 /\ ~Refuses(world, u) /\ Enter(Top, u, world, Prologue(world, u))
  <2>1. world.code \in Bit
    BY <1>2 DEF World
  <2> QED BY <2>1, Bits DEF CallEntry
<1> QED BY <1>3, <1>4, <1>5

(* Creation takes neither lock nor capability: the constructor is no entry     *)
(* point.                                                                   *)
LEMMA CreateMoves ==
  ASSUME Known, NEW m \in New, Create(m)
  PROVE  Move /\ Typed
<1>1. depth > 0 /\ ~answer.ended /\ Top.runs = Outside /\ gas > 0 /\ gas' = gas - 1
  BY DEF Create, OutsideRuns
<1>2. world.cap = 0 /\ world \in World /\ WellFormed(Top) /\ Top.waits \notin Tries
  BY <1>1, NoCapability, TopFacts, WaitsFacts DEF Known, TypeInv
<1>3. CASE depth = MaxDepth
  <2>1. NoCall(FALSE, Top, world)
    BY <1>3 DEF Create
  <2>2. Typed
    BY <1>1, <2>1, SpendTypes DEF NoCall
  <2> QED BY <1>1, <1>2, <2>1, <2>2, GoMoves DEF NoCall
<1>4. CASE depth # MaxDepth
  <2>1. Enter(Top, m, world, world) /\ world.code = 0 /\ \A i \in 1 .. depth : frames[i].runs \notin New
    BY <1>4 DEF Create
  <2>2. Typed
    BY <1>1, <2>1, SpendTypes DEF Enter
  <2>3. ~Guarded(m) /\ m \notin Tries /\ m # Outside
    BY GuardedFacts, MethodsAssumption, NamesAssumption DEF Units, Outside
  <2>4. Top.runs \notin Methods
    BY <1>1, WaitsFacts DEF Units
  <2>5. Fits(world, m)
    BY <2>1 DEF Fits
  <2>6. Calls(Top, m, world, world)
    BY <1>1, <1>2, <2>1, <2>3, <2>4, <2>5 DEF Calls, Enter
  <2> QED BY <2>2, <2>6 DEF Move
<1> QED BY <1>3, <1>4

(* What holds of a frame of the contract that may do its next statement.     *)
LEMMA RunningFacts ==
  ASSUME Known, Running
  PROVE  /\ depth > 0 /\ ~answer.ended /\ Top.runs # Outside /\ Top.waits = "nothing"
         /\ world.cap = 0 /\ world \in World
         /\ Top.waits \in {"nothing", "call"} /\ Top.waits \notin Tries
<1>1. depth > 0 /\ ~answer.ended /\ Top.runs # Outside /\ Top.waits = "nothing"
  BY DEF Running
<1> QED BY <1>1, NoCapability, WaitsFacts DEF Known, TypeInv

LEMMA WriteMoves ==
  ASSUME Known, Write
  PROVE  Move /\ Typed
<1>1. depth > 0 /\ world.cap = 0 /\ WellFormed(Top) /\ world \in World /\ Top.waits \notin Tries
  BY RunningFacts, TopFacts DEF Write, Known
<1>2. world' \in World /\ world'.lock = world.lock /\ world'.cap = 0 /\ world'.code = world.code
      /\ world'.flags = world.flags /\ world'.runs = world.runs
  <2>1. world.data + 1 \in 0 .. MaxData
    BY <1>1, BoundsAssumption DEF Write, World
  <2> QED BY <1>1, <2>1 DEF Write, World
<1>3. Typed
  BY SpendTypes DEF Write
<1>4. frames' = [frames EXCEPT ![depth] = Top] /\ depth' = depth
  BY <1>1, TopFacts DEF Known, TypeInv, Top, Write
<1>5. GoesOn(Top, world')
  BY <1>1, <1>2, <1>4 DEF GoesOn
<1> QED BY <1>3, <1>5 DEF Move

LEMMA CallInternalMoves ==
  ASSUME Known, NEW m \in Methods, CallInternal(m)
  PROVE  Move /\ Typed
<1>1. /\ depth > 0 /\ Top.runs # Outside /\ world.cap = 0 /\ WellFormed(Top) /\ world \in World
      /\ Top.waits = "nothing" /\ "nothing" \notin Tries
  BY RunningFacts, TopFacts, WaitsFacts DEF CallInternal, Known
<1> DEFINE f == [Top EXCEPT !.acts = <<Activation(m)>> \o @]
<1>2. m \in Internal[Head(Top.acts).unit]
  BY DEF CallInternal, Act
<1>3. WellFormed(f) /\ f.runs = Top.runs /\ f.snap = Top.snap /\ f.waits \notin Tries
  BY <1>1, <1>2, CallingFrame
<1>4. SetTop(f) /\ depth' = depth /\ world' = [world EXCEPT !.runs = RunsAfter(world, m)]
  BY DEF CallInternal
<1>5. Act.unit \in Units
  BY <1>1, OwnFacts
<1>6. RunsAfter(world, m) \in [OnceFns -> Nat]
  BY <1>1 DEF RunsAfter, World
<1>7. world' \in World /\ world'.lock = world.lock /\ world'.cap = 0 /\ world'.flags = world.flags
      /\ world'.runs = RunsAfter(world, m) /\ world'.code = world.code
  BY <1>1, <1>4, <1>6 DEF World
<1>8. OnceFromOutside => world'.runs = world.runs
  BY <1>2, <1>5, <1>7 DEF OnceFromOutside, RunsAfter, Act
<1> HIDE DEF f
<1>9. Typed
  <2>1. gas > 0 /\ gas' = gas - 1 /\ answer' = answer
    BY DEF CallInternal
  <2> QED BY <2>1, SpendTypes
<1>10. GoesOn(f, world')
  BY <1>1, <1>3, <1>4, <1>7, <1>8 DEF GoesOn, SetTop
<1> QED BY <1>9, <1>10 DEF Move

LEMMA CallOutsideMoves ==
  ASSUME Known, CallOutside
  PROVE  Move /\ Typed
<1>1. depth > 0 /\ Top.runs # Outside /\ world.cap = 0 /\ WellFormed(Top) /\ world \in World
  BY RunningFacts, TopFacts DEF CallOutside, Known
<1> DEFINE f == [Top EXCEPT !.waits = "call"]
<1>2. WellFormed(f) /\ f.runs = Top.runs /\ f.snap = Top.snap /\ f.waits \notin Tries
  BY <1>1, WaitingFrame, WaitsFacts
<1>3. Top.runs \in MayCallOut /\ External # {}
  BY <1>1, OwnFacts, MayCallOutFacts DEF CallOutside
<1>4. gas > 0 /\ gas' = gas - 1
      /\ IF depth = MaxDepth THEN NoCall(FALSE, f, world) ELSE Enter(f, Outside, world, world)
  BY DEF CallOutside
<1> HIDE DEF f
<1>5. CASE depth = MaxDepth
  <2>1. Typed
    BY <1>4, <1>5, SpendTypes DEF NoCall
  <2> QED BY <1>1, <1>2, <1>4, <1>5, <2>1, GoMoves DEF NoCall
<1>6. CASE depth # MaxDepth
  <2>1. Typed
    BY <1>4, <1>6, SpendTypes DEF Enter
  <2>2. ~Guarded(Outside) /\ Outside \notin Tries /\ Outside \notin New /\ Fits(world, Outside)
    BY GuardedFacts, WaitsFacts, MethodsAssumption, <1>1 DEF Units, Fits
  <2>3. Calls(f, Outside, world, world)
    BY <1>1, <1>2, <1>3, <1>4, <1>6, <2>2 DEF Calls, Enter
  <2> QED BY <2>1, <2>3 DEF Move
<1> QED BY <1>5, <1>6

(* The answer of a call is taken.                                           *)
LEMMA TakenTypes ==
  ASSUME Known, gas' = gas, answer' = NoAnswer
  PROVE  Typed
BY DEF Known, TypeInv, Typed, NoAnswer, Answers

LEMMA CallAnswerMoves ==
  ASSUME Known, CallReturns \/ CallRaises \/ CallBubbles
  PROVE  Move /\ Typed
<1>1. depth > 0 /\ Top.waits = "call"
  BY DEF CallReturns, CallRaises, CallBubbles
<1>2. Top.runs # Outside /\ world.cap = 0 /\ WellFormed(Top) /\ world \in World
  BY <1>1, NoCapability, WaitsFacts, TopFacts DEF Known, TypeInv
<1> DEFINE f == [Top EXCEPT !.waits = "nothing"]
<1>3. WellFormed(f) /\ f.runs = Top.runs /\ f.snap = Top.snap /\ f.waits \notin Tries
  BY <1>1, <1>2, WaitingFrame, WaitsFacts
<1>4. CASE CallReturns \/ CallRaises
  <2>1. SetTop(f) /\ depth' = depth /\ (world' = world \/ world' = [world EXCEPT !.exc = 1])
        /\ gas' = gas /\ answer' = NoAnswer
    BY <1>4 DEF CallReturns, CallRaises
  <2>2. [world EXCEPT !.exc = 1] \in World
    BY <1>2, Bits DEF World
  <2>3. world' \in World /\ world'.lock = world.lock /\ world'.cap = 0 /\ world'.code = world.code
        /\ world'.flags = world.flags /\ world'.runs = world.runs
    BY <1>2, <2>1, <2>2 DEF World
  <2>4. Typed
    BY <2>1, TakenTypes
  <2> HIDE DEF f
  <2> QED BY <1>1, <1>3, <2>1, <2>3, <2>4, GoMoves
<1>5. CASE CallBubbles
  BY <1>1, <1>5, EndMoves DEF CallBubbles
<1> QED BY <1>4, <1>5

LEMMA RevertMoves ==
  ASSUME Known, Revert
  PROVE  Move /\ Typed
BY RunningFacts, EndMoves DEF Revert

(* Worlds that differ in the transient words the lock does not use.          *)
SameGuard(w) ==
  /\ w \in World /\ w.lock = world.lock /\ w.cap = 0 /\ w.code = world.code
  /\ w.flags = world.flags /\ w.runs = world.runs

LEMMA SameGuardFacts ==
  ASSUME Known
  PROVE  /\ world.cap = 0 => SameGuard(world)
         /\ world.cap = 0 => SameGuard([world EXCEPT !.returned = 1])
         /\ world.cap = 0 => SameGuard([world EXCEPT !.returned = 0])
         /\ world.cap = 0 => SameGuard([world EXCEPT !.exc = 0])
         /\ SameGuard([world EXCEPT !.cap = 0])
         /\ SameGuard([world EXCEPT !.cap = 0, !.returned = 1])
<1>1. world \in World
  BY DEF Known, TypeInv
<1>2. /\ [world EXCEPT !.returned = 1] \in World /\ [world EXCEPT !.returned = 0] \in World
      /\ [world EXCEPT !.exc = 0] \in World /\ [world EXCEPT !.cap = 0] \in World
      /\ [world EXCEPT !.cap = 0, !.returned = 1] \in World
  BY <1>1, Bits DEF World
<1> QED BY <1>1, <1>2 DEF SameGuard, World

(* Its newest activation is now a, of the same unit, and it waits for x.     *)
LEMMA ActMoves ==
  ASSUME Known, depth > 0, Top.runs # Outside,
         NEW x \in {"nothing", "call"}, NEW a \in Activations, a.unit = Act.unit,
         a.mode = "inline" => ~Hoisted(a.try),
         SetTop([Top EXCEPT !.waits = x, !.acts = <<a>> \o Tail(@)]),
         depth' = depth, SameGuard(world'), Typed
  PROVE  Move
<1> DEFINE f == [Top EXCEPT !.waits = x, !.acts = <<a>> \o Tail(@)]
<1>1. WellFormed(Top)
  BY TopFacts DEF Known
<1>0. x \notin Tries /\ x \in Tries \cup {"nothing", "call"} /\ a.unit = Head(Top.acts).unit
  BY NamesAssumption DEF Units, Act
<1>2. WellFormed(f) /\ f.runs = Top.runs /\ f.snap = Top.snap /\ f.waits = x
  BY <1>0, <1>1, ActingFrame
<1> HIDE DEF f
<1>3. GoesOn(f, world')
  BY <1>0, <1>2 DEF GoesOn, SetTop, SameGuard, f
<1> QED BY <1>3 DEF Move

LEMMA SetActMoves ==
  ASSUME Known, Running, NEW a \in Activations, a.unit = Act.unit, SetAct(a),
         a.mode = "inline" => ~Hoisted(a.try),
         depth' = depth, SameGuard(world'), answer' = answer, gas' = gas
  PROVE  Move /\ Typed
<1>1. Typed
  BY DEF Typed, Known, TypeInv
<1>2. WellFormed(Top) /\ depth > 0 /\ Top.runs # Outside /\ Top.waits \in {"nothing", "call"}
  BY RunningFacts, TopFacts DEF Known
<1>3. SetTop([Top EXCEPT !.waits = Top.waits, !.acts = <<a>> \o Tail(@)])
  BY <1>2, SameWait DEF SetAct
<1> QED BY <1>1, <1>2, <1>3, ActMoves

LEMMA BlockMoves ==
  ASSUME Known, Return \/ CheckException \/ EndBlock \/ \E t \in Tries : BeginInlineTry(t)
  PROVE  Move /\ Typed
<1>1. Running
  BY DEF Return, CheckException, EndBlock, BeginInlineTry, MayTry
<1>2. Act \in Activations /\ world.cap = 0 /\ (Act.mode = "inline" => ~Hoisted(Act.try))
  BY <1>1, RunningFacts, OwnFacts
<1>3. CASE Return
  <2>1. [Act EXCEPT !.returning = TRUE] \in Activations
    BY <1>2 DEF Activations
  <2>2. LET a == [Act EXCEPT !.returning = TRUE]
        IN  a.unit = Act.unit /\ (a.mode = "inline" => ~Hoisted(a.try))
    BY <1>2 DEF Activations
  <2>3. SameGuard(world')
    BY <1>2, <1>3, SameGuardFacts DEF Return
  <2> QED BY <1>1, <1>3, <2>1, <2>2, <2>3, SetActMoves DEF Return
<1>4. CASE CheckException
  <2>1. [Act EXCEPT !.mode = "handler"] \in Activations
    BY <1>2 DEF Activations
  <2>2. LET a == [Act EXCEPT !.mode = "handler"]
        IN  a.unit = Act.unit /\ (a.mode = "inline" => ~Hoisted(a.try))
    BY <1>2 DEF Activations
  <2>3. SameGuard(world')
    BY <1>2, <1>4, SameGuardFacts DEF CheckException
  <2> QED BY <1>1, <1>4, <2>1, <2>2, <2>3, SetActMoves DEF CheckException
<1>5. CASE EndBlock
  <2>0. 0 \in 0 .. MaxData
    BY BoundsAssumption
  <2>1. [Act EXCEPT !.mode = "body", !.try = "none", !.before = 0] \in Activations
    BY <1>2, <2>0 DEF Activations
  <2>2. LET a == [Act EXCEPT !.mode = "body", !.try = "none", !.before = 0]
        IN  a.unit = Act.unit /\ (a.mode = "inline" => ~Hoisted(a.try))
    BY <1>2 DEF Activations
  <2>3. SameGuard(world')
    BY <1>2, <1>5, SameGuardFacts DEF EndBlock
  <2> QED BY <1>1, <1>5, <2>1, <2>2, <2>3, SetActMoves DEF EndBlock
<1>6. ASSUME NEW t \in Tries, BeginInlineTry(t) PROVE Move /\ Typed
  <2>0. world.data \in 0 .. MaxData
    BY DEF Known, TypeInv, World
  <2>1. [Act EXCEPT !.mode = "inline", !.try = t, !.before = world.data] \in Activations
    BY <1>2, <2>0 DEF Activations
  <2>2. LET a == [Act EXCEPT !.mode = "inline", !.try = t, !.before = world.data]
        IN  a.unit = Act.unit /\ (a.mode = "inline" => ~Hoisted(a.try))
    BY <1>2, <1>6 DEF Activations, BeginInlineTry
  <2>3. SameGuard(world')
    BY <1>2, <1>6, SameGuardFacts DEF BeginInlineTry
  <2> QED BY <1>1, <1>6, <2>1, <2>2, <2>3, SetActMoves DEF BeginInlineTry
<1> QED BY <1>3, <1>4, <1>5, <1>6

(* A helper's activation is over. *)
LEMMA LeaveMoves ==
  ASSUME Known, depth > 0, Top.runs # Outside, ~Entry,
         NEW x \in {"nothing", "call"},
         SetTop([Top EXCEPT !.waits = x, !.acts = Tail(@)]),
         depth' = depth, SameGuard(world'), Typed
  PROVE  Move
<1> DEFINE f == [Top EXCEPT !.waits = x, !.acts = Tail(@)]
<1>1. WellFormed(Top)
  BY TopFacts DEF Known
<1>2. WellFormed(f) /\ f.runs = Top.runs /\ f.snap = Top.snap /\ f.waits \notin Tries
  BY <1>1, LeavingFrame, NamesAssumption DEF Entry, Units
<1> HIDE DEF f
<1>3. GoesOn(f, world')
  BY <1>2 DEF GoesOn, SetTop, SameGuard, f
<1> QED BY <1>3 DEF Move

LEMMA ReturnMoves ==
  ASSUME Known, Returned \/ FallThrough
  PROVE  Move /\ Typed
<1>1. Running
  BY DEF Returned, FallThrough
<1>2. /\ depth > 0 /\ Top.runs # Outside /\ world.cap = 0 /\ world \in World
      /\ Top.waits \in {"nothing", "call"} /\ WellFormed(Top)
  BY <1>1, RunningFacts, TopFacts DEF Known
<1>3. CASE ~Entry
  <2>1. Leave(world)
    BY <1>3 DEF Returned, FallThrough
  <2>2. Typed
    BY <2>1 DEF Leave, Typed, Known, TypeInv
  <2>3. [Top EXCEPT !.acts = Tail(@)] = [Top EXCEPT !.waits = Top.waits, !.acts = Tail(@)]
    BY <1>2 DEF WellFormed, Frame
  <2>4. SetTop([Top EXCEPT !.waits = Top.waits, !.acts = Tail(@)]) /\ depth' = depth /\ world' = world
    BY <2>1, <2>3 DEF Leave
  <2>5. SameGuard(world')
    BY <1>2, <2>4, SameGuardFacts
  <2> QED BY <1>2, <1>3, <2>2, <2>4, <2>5, LeaveMoves
<1>4. CASE Entry
  <2> DEFINE e == Deployed(Unlock(world, Top.runs), Top.runs)
  <2>1. /\ e \in World /\ e.lock = IF Guarded(Top.runs) THEN 0 ELSE world.lock
        /\ e.cap = 0 /\ e.flags = world.flags /\ e.runs = world.runs
        /\ e.code = world.code \/ (Top.runs \in New /\ e.code = 1)
    BY <1>2, DeployedFacts
  <2>2. CASE Returned
    <3>1. EndFrame(TRUE, ReturnData(Top.runs), e)
      BY <1>4, <2>2 DEF Returned
    <3>2. ReturnData(Top.runs) \in {"none", "value", "captures"}
      BY DEF ReturnData
    <3> HIDE DEF e
    <3> QED BY <1>2, <2>1, <3>1, <3>2, EndMoves
  <2>3. CASE FallThrough /\ Act.unit \in Methods
    <3>1. EndFrame(TRUE, "none", e)
      BY <1>4, <2>3 DEF FallThrough
    <3> HIDE DEF e
    <3> QED BY <1>2, <2>1, <3>1, EndMoves
  <2>4. CASE FallThrough /\ Act.unit \notin Methods
    <3> DEFINE d == IF Act.unit \in Mutates THEN "captures" ELSE "none"
               w == IF Combined(Act.unit) THEN [world EXCEPT !.returned = 0] ELSE world
    <3>1. EndFrame(TRUE, d, w)
      BY <1>4, <2>4 DEF FallThrough
    <3>2. SameGuard(w)
      BY <1>2, SameGuardFacts
    <3>3. ~Guarded(Top.runs)
      BY <1>2, <1>4, <2>4, OwnFacts, GuardedFacts
    <3>4. d \in {"none", "value", "captures"}
      OBVIOUS
    <3> HIDE DEF d, w
    <3> QED BY <1>2, <3>1, <3>2, <3>3, <3>4, EndMoves DEF SameGuard
  <2> QED BY <2>2, <2>3, <2>4
<1> QED BY <1>3, <1>4

LEMMA BeginTryMoves ==
  ASSUME Known, NEW t \in Tries, BeginTry(t)
  PROVE  Move /\ Typed
<1>1. Running /\ Within[t] = Act.unit /\ Hoisted(t) /\ gas > 0 /\ gas' = gas - 1
  BY DEF BeginTry, MayTry
<1>2. depth > 0 /\ Top.runs # Outside /\ world.cap = 0 /\ world \in World /\ WellFormed(Top)
  BY <1>1, RunningFacts, TopFacts DEF Known
<1>3. Act \in Activations /\ world.data \in 0 .. MaxData
  BY <1>2, OwnFacts DEF World
<1> DEFINE a == [Act EXCEPT !.try = t, !.before = world.data]
           f == [Top EXCEPT !.waits = t, !.acts = <<a>> \o Tail(@)]
           w == [world EXCEPT !.cap = 1]
           p == Prologue(w, t)
<1>4. a \in Activations /\ a.unit = Act.unit /\ a.mode = "body" /\ a.try = t /\ a.before = world.data
  BY <1>1, <1>3 DEF Activations, BeginTry, MayTry
<1>5. WellFormed(f) /\ f.runs = Top.runs /\ f.snap = Top.snap /\ f.waits = t /\ f.acts[1].before = world.data
  <2> HIDE DEF a
  <2>0. a.unit = Head(Top.acts).unit /\ a.mode # "inline" /\ t \in Tries \cup {"nothing", "call"}
    BY <1>4 DEF Act
  <2>1. WellFormed(f) /\ f.runs = Top.runs /\ f.snap = Top.snap /\ f.waits = t
    BY <1>2, <1>4, <2>0, ActingFrame, ZenonT(60)
  <2>2. f.acts = <<a>> \o Tail(Top.acts) /\ Tail(Top.acts) \in Seq(Activations)
    BY <1>2 DEF WellFormed, Frame
  <2>3. f.acts[1] = a
    BY <1>4, <2>2
  <2> QED BY <1>4, <2>1, <2>3
<1>6. /\ w \in World /\ w.lock = world.lock /\ w.flags = world.flags /\ w.runs = world.runs
      /\ w.data = world.data /\ w.code = world.code
  BY <1>2, Bits DEF World
<1>7. IF depth = MaxDepth THEN NoCall(FALSE, f, w)
      ELSE IF world.code = 0 THEN NoCall(TRUE, f, w) ELSE Enter(f, t, w, p)
  BY DEF BeginTry
<1> HIDE DEF a, f, w
<1>8. ~Guarded(t) /\ t \in Thunks /\ t \notin OnceFns /\ t \notin New /\ t # Outside
  BY <1>1, GuardedFacts, MethodsAssumption, NamesAssumption DEF Thunks, Units, Outside
<1>9. p \in World /\ p.lock = world.lock /\ p.cap = 0 /\ p.code = world.code /\ (Counted(w) => Counted(p))
  BY <1>6, <1>8, PrologueFacts
<1>10. Top.runs \in MayCallOut
  BY <1>1, <1>2, <1>8, OwnFacts, MayCallOutFacts
<1> HIDE DEF p
<1>11. ASSUME NEW ok \in BOOLEAN, NoCall(ok, f, w), ConstructorsStay => ~ok PROVE Move /\ Typed
  <2>1. Typed
    BY <1>1, <1>11, SpendTypes DEF NoCall
  <2>2. GoesOn(f, w)
    BY <1>2, <1>5, <1>6, <1>11 DEF GoesOn, NoCall, SetTop
  <2> QED BY <2>1, <2>2 DEF Move
<1>12. ASSUME depth # MaxDepth, world.code # 0, Enter(f, t, w, p) PROVE Move /\ Typed
  <2>1. Typed
    BY <1>1, <1>12, SpendTypes DEF Enter
  <2>2. Fits(world, t)
    BY <1>2, <1>8, <1>12, Bits DEF Fits, World
  <2>3. Calls(f, t, w, p)
    BY <1>2, <1>5, <1>6, <1>8, <1>9, <1>10, <1>12, <2>2 DEF Calls, Enter, Entries
  <2> QED BY <2>1, <2>3 DEF Move
(* Without code only the constructor runs, and that calls out now.           *)
<1>13. world.code = 0 => ~ConstructorsStay
  <2>1. Fits(world, Top.runs) /\ Top.runs \in Units
    BY <1>2, OwnFacts, BelowTop DEF Known, CodeInv, Top
  <2> QED BY <1>10, <2>1 DEF Fits, ConstructorsStay
<1> QED BY <1>7, <1>11, <1>12, <1>13

LEMMA TryAnswerMoves ==
  ASSUME Known, NEW t \in Tries,
         TryLacks(t) \/ TryFallsThrough(t) \/ TryReturns(t) \/ TryCatches(t)
  PROVE  Move /\ Typed
<1>1. depth > 0 /\ Top.waits = t
  BY DEF TryLacks, TryFallsThrough, TryReturns, TryCatches, AwaitsTry
<1>2. Top.runs # Outside /\ Act \in Activations /\ Act.mode = "body"
  BY <1>1, WaitsFacts, OwnFacts
<1>3. CASE TryFallsThrough(t)
  <2> DEFINE a == [Act EXCEPT !.try = "none", !.before = 0]
  <2>0. 0 \in 0 .. MaxData
    BY BoundsAssumption
  <2>1. a \in Activations /\ a.unit = Act.unit /\ a.mode # "inline"
    BY <1>1, <1>2, <2>0 DEF Activations
  <2>2. SameGuard(world') /\ depth' = depth /\ gas' = gas /\ answer' = NoAnswer
    BY <1>3, SameGuardFacts DEF TryFallsThrough
  <2>3. SetTop([Top EXCEPT !.waits = "nothing", !.acts = <<a>> \o Tail(@)])
    BY <1>3 DEF TryFallsThrough
  <2> HIDE DEF a
  <2>4. Typed
    BY <2>2, TakenTypes
  <2> QED BY <1>1, <1>2, <2>1, <2>2, <2>3, <2>4, ActMoves
<1>4. CASE TryCatches(t)
  <2> DEFINE a == [Act EXCEPT !.mode = "catch"]
  <2>1. a \in Activations /\ a.unit = Act.unit /\ a.mode # "inline"
    BY <1>2 DEF Activations
  <2>2. SameGuard(world') /\ depth' = depth /\ gas' = gas /\ answer' = NoAnswer
    BY <1>4, SameGuardFacts DEF TryCatches
  <2>3. SetTop([Top EXCEPT !.waits = "nothing", !.acts = <<a>> \o Tail(@)])
    BY <1>4 DEF TryCatches
  <2> HIDE DEF a
  <2>4. Typed
    BY <2>2, TakenTypes
  <2> QED BY <1>1, <1>2, <2>1, <2>2, <2>3, <2>4, ActMoves
<1>5. CASE TryReturns(t)
  <2> DEFINE w == [world EXCEPT !.cap = 0, !.returned = 1]
  <2>1. SameGuard(w)
    BY SameGuardFacts
  <2>2. IF Entry THEN EndFrame(TRUE, "value", Unlock(w, Top.runs))
        ELSE /\ SetTop([Top EXCEPT !.waits = "nothing", !.acts = Tail(@)])
             /\ world' = w /\ answer' = NoAnswer /\ depth' = depth /\ gas' = gas
    BY <1>5 DEF TryReturns
  <2> HIDE DEF w
  <2>3. CASE Entry
    <3>1. EndFrame(TRUE, "value", Unlock(w, Top.runs))
      BY <2>2, <2>3
    <3>2. /\ Unlock(w, Top.runs) \in World
          /\ Unlock(w, Top.runs).lock = IF Guarded(Top.runs) THEN 0 ELSE world.lock
          /\ Unlock(w, Top.runs).cap = 0
          /\ Unlock(w, Top.runs).flags = world.flags /\ Unlock(w, Top.runs).runs = world.runs
          /\ Unlock(w, Top.runs).code = world.code
      BY <2>1, UnlockFacts DEF SameGuard
    <3> QED BY <1>1, <3>1, <3>2, EndMoves
  <2>4. CASE ~Entry
    <3>1. Typed
      BY <2>2, <2>4, TakenTypes
    <3> QED BY <1>1, <1>2, <2>1, <2>2, <2>4, <3>1, LeaveMoves
  <2> QED BY <2>3, <2>4
<1>6. CASE TryLacks(t)
  BY <1>1, <1>6, EndMoves DEF TryLacks
<1> QED BY <1>3, <1>4, <1>5, <1>6

-----------------------------------------------------------------------------
(* The machine. *)

LEMMA NextMoves ==
  ASSUME Known, Next
  PROVE  Move /\ Typed
BY TransactionMoves, OutsideEndMoves, CreateMoves, CallEntryMoves, WriteMoves, CallOutsideMoves, CallAnswerMoves,
   RevertMoves, CallInternalMoves, BlockMoves, ReturnMoves, BeginTryMoves, TryAnswerMoves
   DEF Next

LEMMA InitKnown == Init => Known
<1> SUFFICES ASSUME Init PROVE Known
  OBVIOUS
<1>1. WellFormed(NoFrame)
  BY FreshInWorld, NewFrameFacts DEF NoFrame
<1>2. NoFrame \in Frame
  BY <1>1 DEF WellFormed
<1> HIDE DEF NoFrame
<1>3. TypeInv
  <2>1. frames \in [1 .. MaxDepth -> Frame] /\ \A i \in 1 .. MaxDepth : WellFormed(frames[i])
    BY <1>1, <1>2 DEF Init
  <2>2. world \in World /\ depth \in 0 .. MaxDepth /\ gas \in 0 .. MaxGas
    BY FreshInWorld, BoundsAssumption DEF Init
  <2>3. answer \in Answers
    BY DEF Init, NoAnswer, Answers
  <2> QED BY <2>1, <2>2, <2>3 DEF TypeInv
<1>4. UnitInv /\ LockInv /\ CapInv /\ CodeInv
  BY DEF Init, UnitInv, LockInv, CapInv, CodeInv, Fresh
<1> QED BY <1>3, <1>4 DEF Known

LEMMA KnownStep == Known /\ [Next]_vars => Known'
<1> SUFFICES ASSUME Known, [Next]_vars PROVE Known'
  OBVIOUS
<1>1. CASE Next
  <2>1. Move /\ Typed
    BY <1>1, NextMoves
  <2> QED BY <2>1, MoveTypes, MoveUnits, MoveLock, MoveCap, MoveCode DEF Known
<1>2. CASE UNCHANGED vars
  BY <1>2 DEF vars, Known, TypeInv, UnitInv, LockInv, CapInv, CodeInv, Fits, Top
<1> QED BY <1>1, <1>2

(* The invariant of every contract: types, the units of the frames, the       *)
(* lock, the capability and the code.                                       *)
THEOREM FramesInvariant == Spec => []Known
BY InitKnown, KnownStep, PTL DEF Spec

(* Every variable keeps its shape, for every contract and every bound.       *)
THEOREM FramesTypes == Spec => []TypeOK
<1>1. Known => TypeOK
  <2> SUFFICES ASSUME Known PROVE TypeOK
    OBVIOUS
  <2>1. ASSUME NEW i \in 1 .. depth PROVE frames[i].runs = Outside <=> frames[i].acts = <<>>
    <3>1. WellFormed(frames[i])
      BY BoundsAssumption DEF Known, TypeInv
    <3> QED BY <3>1 DEF WellFormed
  <2> QED BY <2>1 DEF Known, TypeInv, TypeOK
<1> QED BY <1>1, FramesInvariant, PTL

(* A set in which any two members are equal has at most one.                 *)
LEMMA AtMostOne ==
  ASSUME NEW S, \A a, b \in S : a = b
  PROVE  IsFiniteSet(S) /\ Cardinality(S) = IF S = {} THEN 0 ELSE 1
<1>1. CASE S = {}
  BY <1>1, FS_EmptySet
<1>2. CASE S # {}
  <2>1. PICK a \in S : S = {a}
    BY <1>2
  <2> QED BY <1>2, <2>1, FS_Singleton
<1> QED BY <1>1, <1>2

LEMMA OneGuard ==
  ASSUME Known
  PROVE  /\ IsFiniteSet(GuardedFrames)
         /\ Cardinality(GuardedFrames) = IF GuardedFrames = {} THEN 0 ELSE 1
BY AtMostOne DEF Known, LockInv, GuardedFrames

(* The reentrancy lock is set exactly while a guarded entry point is on the   *)
(* call stack, and there is never a second one.                             *)
THEOREM LockIsHeld == Spec => []LockHeld
<1>1. Known => LockHeld
  <2> SUFFICES ASSUME Known PROVE LockHeld
    OBVIOUS
  <2>1. world.lock \in Bit
    BY DEF Known, TypeInv, World
  <2>2. world.lock = 1 <=> GuardedFrames # {}
    BY DEF Known, LockInv, GuardedFrames
  <2> QED BY <2>1, <2>2, OneGuard, Bits DEF LockHeld
<1> QED BY <1>1, FramesInvariant, PTL

(* If every call is looked up as what it runs, the rounds of the analysis find  *)
(* every unit that may call out: whatever its own last round has added nothing  *)
(* to is closed under the calls as they are made.                            *)
THEOREM RoundsFindCalls == CallsAsMade => MayCallOut \subseteq CallsOut
<1> SUFFICES ASSUME CallsAsMade,
                    NEW u \in MayCallOut, NEW known \in SUBSET Units, Round(known) \subseteq known
             PROVE  u \in known
  BY DEF CallsOut, MayCallOut
<1>1. RealRound(known) \subseteq Round(known)
  <2> SUFFICES ASSUME NEW x \in RealRound(known) PROVE x \in Round(known)
    OBVIOUS
  <2>1. x \in Units
    BY DEF RealRound
  <2>2. CASE x \in External \/ Internal[x] \cap known # {}
    <3>1. LooksUp[x] \cap (known \cup {"outside"}) # {}
      BY <2>1, <2>2 DEF CallsAsMade
    <3> QED BY <2>1, <3>1 DEF Round
  <2>3. CASE x \in Thunks \/ \E t \in Thunks : Within[t] = x
    BY <2>1, <2>3 DEF Round
  <2> QED BY <2>2, <2>3 DEF RealRound
<1> QED BY <1>1 DEF MayCallOut

(* No method inferred to be view or pure calls out, not even to read: the     *)
(* dispatcher guards none of them (mod.rs, requires_guard).                  *)
ReadersStay == ReadOnly \cap MayCallOut = {}

(* No two entry points that are not unsafe wait for another contract, if the   *)
(* analyses find the calls (CallsAreFound): a method that hands control over is *)
(* then guarded, and there is one guarded frame; or it is the constructor, and *)
(* then there is no code to enter.                                          *)
THEOREM NoneReenters == ASSUME ReadersStay, CallsAreFound PROVE Spec => []NoReentry
<1>1. Known => NoReentry
  <2> SUFFICES ASSUME Known PROVE NoReentry
    OBVIOUS
  <2>1. ASSUME NEW i \in HandedOver
        PROVE  /\ i \in 1 .. depth /\ frames[i].runs \in Units /\ Fits(world, frames[i].runs)
               /\ frames[i].runs \in New \/ (Guarded(frames[i].runs) /\ frames[i].runs \notin New)
    <3>1. i \in 1 .. depth /\ frames[i].runs \in Methods \ UnsafeFns /\ depth \in Nat
      BY BelowTop DEF HandedOver, Known
    <3>2. i \in 1 .. depth - 1 /\ External # {}
      <4>1. PICK j \in (i + 1) .. depth : frames[j].runs = Outside
        BY DEF HandedOver
      <4>2. j \in 2 .. depth
        BY <3>1, <4>1
      <4>3. External # {}
        BY <4>1, <4>2 DEF Known, UnitInv
      <4> QED BY <3>1, <4>1, <4>3
    <3>3. frames[i].runs \in Exports \cup New /\ frames[i].runs \in MayCallOut
      BY <3>1, <3>2 DEF Known, UnitInv
    <3>4. frames[i].runs \in New \/ (Guarded(frames[i].runs) /\ frames[i].runs \notin New)
      BY <3>1, <3>2, <3>3, MethodsAssumption DEF Guarded, GuardedEntries, ReadersStay, CallsAreFound
    <3> QED BY <3>1, <3>4 DEF Known, CodeInv, Units
  <2>2. \A i, j \in HandedOver : i = j
    <3> SUFFICES ASSUME NEW i \in HandedOver, NEW j \in HandedOver PROVE i = j
      OBVIOUS
    <3>1. CASE Guarded(frames[i].runs) /\ Guarded(frames[j].runs)
      BY <2>1, <3>1 DEF Known, LockInv
    <3>2. CASE frames[i].runs \in New /\ frames[j].runs \in New
      BY <2>1, <3>2 DEF Known, CodeInv
    <3>3. frames[i].runs \in New <=> frames[j].runs \in New
      BY <2>1 DEF Fits
    <3> QED BY <2>1, <3>1, <3>2, <3>3
  <2>3. Cardinality(HandedOver) = IF HandedOver = {} THEN 0 ELSE 1
    BY <2>2, AtMostOne
  <2> HIDE DEF HandedOver
  <2> QED BY <2>3 DEF NoReentry
<1> QED BY <1>1, FramesInvariant, PTL

(* A thunk runs only as the self-call of the try it was cut from, outside      *)
(* code never finds the capability set, and no try whose thunk did not run    *)
(* goes on as if it had, if no constructor comes to one.                     *)
THEOREM ThunksAreCalledByTries == ASSUME ConstructorsStay PROVE Spec => []ThunkOnlyByTry
<1>1. Init => RanInv
  BY DEF Init, RanInv
<1>2. Known /\ RanInv /\ [Next]_vars => RanInv'
  <2> SUFFICES ASSUME Known, RanInv, [Next]_vars PROVE RanInv'
    OBVIOUS
  <2>1. CASE Next
    BY <2>1, NextMoves, MoveRan DEF Known
  <2>2. CASE UNCHANGED vars
    BY <2>2 DEF vars, RanInv, Top
  <2> QED BY <2>1, <2>2
<1>3. Known /\ RanInv => ThunkOnlyByTry
  <2> SUFFICES ASSUME Known, RanInv PROVE ThunkOnlyByTry
    OBVIOUS
  <2>1. \A i \in 1 .. depth :
          frames[i].runs \in Tries => i > 1 /\ frames[i - 1].waits = frames[i].runs
    BY DEF Known, CapInv
  <2>2. OutsideRuns => world.cap = 0
    BY NoCapability DEF OutsideRuns
  <2>3. \A t \in Tries : AwaitsTry(t) /\ answer.ok => answer.ran
    BY DEF RanInv, AwaitsTry
  <2> QED BY <2>1, <2>2, <2>3 DEF ThunkOnlyByTry
<1> QED BY <1>1, <1>2, <1>3, FramesInvariant, PTL DEF Spec

(* The effects of a once method happen once, if the contract itself never     *)
(* calls it with self.m().                                                  *)
THEOREM OnceMeansOnce == ASSUME OnceFromOutside PROVE Spec => []OnceOnly
<1>1. Init => OnceInv
  BY DEF Init, OnceInv, Counted, Fresh
<1>2. Known /\ OnceInv /\ [Next]_vars => OnceInv'
  <2> SUFFICES ASSUME Known, OnceInv, [Next]_vars PROVE OnceInv'
    OBVIOUS
  <2>1. CASE Next
    BY <2>1, NextMoves, MoveOnce DEF Known
  <2>2. CASE UNCHANGED vars
    BY <2>2 DEF vars, OnceInv, Counted
  <2> QED BY <2>1, <2>2
<1>3. OnceInv => OnceOnly
  BY DEF OnceInv, Counted, OnceOnly
<1> QED BY <1>1, <1>2, <1>3, FramesInvariant, PTL DEF Spec

-----------------------------------------------------------------------------
(* Catch blocks. *)

(* A catch block begins neither where the activations stay as they are ...    *)
LEMMA SameActs ==
  ASSUME NEW t, frames'[depth].acts = Top.acts
  PROVE  ~CatchBegins(t)
BY DEF CatchBegins, Act

(* ... nor where their number changes ...                                   *)
LEMMA OtherActs ==
  ASSUME NEW t, Len(frames'[depth].acts) # Len(Top.acts)
  PROVE  ~CatchBegins(t)
BY DEF CatchBegins

LEMMA FrameSet ==
  ASSUME Known, depth > 0, NEW f, SetTop(f)
  PROVE  frames'[depth] = f
BY TopFacts DEF Known, TypeInv, SetTop

(* ... nor where the newest one is in no catch block afterwards, or was       *)
(* before.                                                                  *)
LEMMA NewestAct ==
  ASSUME Known, depth > 0, Top.runs # Outside, NEW x, NEW a \in Activations,
         SetTop([Top EXCEPT !.waits = x, !.acts = <<a>> \o Tail(@)]) \/ SetAct(a)
  PROVE  Head(frames'[depth].acts) = a
<1>1. WellFormed(Top) /\ Top.acts \in Seq(Activations) /\ Top.acts # <<>>
  <2>1. WellFormed(Top) /\ Top \in Frame
    BY TopFacts DEF Known
  <2> QED BY <2>1 DEF WellFormed, Frame
<1>2. frames'[depth].acts = <<a>> \o Tail(Top.acts)
  <2>1. CASE SetAct(a)
    <3>1. frames'[depth] = [Top EXCEPT !.acts = <<a>> \o Tail(@)]
      BY <2>1, FrameSet DEF SetAct
    <3> QED BY <1>1, <3>1 DEF WellFormed, Frame
  <2>2. CASE SetTop([Top EXCEPT !.waits = x, !.acts = <<a>> \o Tail(@)])
    <3>1. frames'[depth] = [Top EXCEPT !.waits = x, !.acts = <<a>> \o Tail(@)]
      BY <2>2, FrameSet
    <3> QED BY <1>1, <3>1 DEF WellFormed, Frame
  <2> QED BY <2>1, <2>2
<1>3. Tail(Top.acts) \in Seq(Activations)
  BY <1>1, TailFacts
<1> QED BY <1>2, <1>3

LEMMA QuietAct ==
  ASSUME NEW t, \/ Head(frames'[depth].acts).mode \notin {"catch", "handler"}
                \/ Head(frames'[depth].acts).mode = Act.mode
                \/ Act.mode \notin {"body", "inline"}
  PROVE  ~CatchBegins(t)
BY DEF CatchBegins

(* A step that enters or leaves a frame begins none.                         *)
LEMMA OtherDepth ==
  ASSUME Known, NEW t, depth' = depth + 1 \/ depth' = depth - 1 \/ depth = 0
  PROVE  ~CatchBegins(t)
<1>1. depth \in Nat
  BY BelowTop DEF Known
<1> QED BY <1>1 DEF CatchBegins

LEMMA OutsideCatchesNot ==
  ASSUME Known, NEW t,
         \/ StartTransaction \/ EndTransaction \/ OutsideGoesOn \/ Write
         \/ \E ok \in BOOLEAN : OutsideEnds(ok)
         \/ \E m \in New : Create(m)
         \/ \E u \in Entries : CallEntry(u)
  PROVE  ~CatchBegins(t)
<1>1. CASE StartTransaction \/ EndTransaction
  BY <1>1, OtherDepth DEF StartTransaction, EndTransaction
<1>2. CASE OutsideGoesOn \/ Write
  BY <1>2, SameActs DEF OutsideGoesOn, Write, Top
<1>3. ASSUME NEW ok \in BOOLEAN, OutsideEnds(ok) PROVE ~CatchBegins(t)
  BY <1>3, OtherDepth DEF OutsideEnds, EndFrame
<1>4. ASSUME NEW ok, NoCall(ok, Top, world), depth > 0 PROVE ~CatchBegins(t)
  BY <1>4, FrameSet, SameActs DEF NoCall
<1>5. ASSUME NEW u, NEW w, Enter(Top, u, world, w) PROVE ~CatchBegins(t)
  BY <1>5, OtherDepth DEF Enter
<1>6. ASSUME NEW u \in Entries, CallEntry(u) PROVE ~CatchBegins(t)
  BY <1>4, <1>5, <1>6 DEF CallEntry, OutsideRuns
<1>7. ASSUME NEW m \in New, Create(m) PROVE ~CatchBegins(t)
  BY <1>4, <1>5, <1>7 DEF Create, OutsideRuns
<1> QED BY <1>1, <1>2, <1>3, <1>6, <1>7

LEMMA CallsCatchNot ==
  ASSUME Known, NEW t,
         \/ CallOutside \/ CallReturns \/ CallRaises \/ CallBubbles \/ Revert
         \/ \E m \in Methods : CallInternal(m)
  PROVE  ~CatchBegins(t)
<1>0. ASSUME NEW x, SetTop([Top EXCEPT !.waits = x]), depth > 0 PROVE ~CatchBegins(t)
  <2>1. frames'[depth] = [Top EXCEPT !.waits = x] /\ Top \in Frame
    BY <1>0, FrameSet, TopFacts DEF Known
  <2>2. frames'[depth].acts = Top.acts
    BY <2>1 DEF Frame
  <2> QED BY <2>2, SameActs
<1>1. CASE CallOutside
  <2>1. CASE depth = MaxDepth
    <3>1. SetTop([Top EXCEPT !.waits = "call"]) /\ depth > 0
      BY <1>1, <2>1 DEF CallOutside, NoCall, Running
    <3> QED BY <1>0, <3>1
  <2>2. CASE depth # MaxDepth
    BY <1>1, <2>2, OtherDepth DEF CallOutside, Enter
  <2> QED BY <2>1, <2>2
<1>2. CASE CallReturns \/ CallRaises
  <2>1. SetTop([Top EXCEPT !.waits = "nothing"]) /\ depth > 0
    BY <1>2 DEF CallReturns, CallRaises
  <2> QED BY <1>0, <2>1
<1>3. CASE CallBubbles \/ Revert
  BY <1>3, OtherDepth DEF CallBubbles, Revert, EndFrame
<1>4. ASSUME NEW m \in Methods, CallInternal(m) PROVE ~CatchBegins(t)
  <2>1. depth > 0 /\ SetTop([Top EXCEPT !.acts = <<Activation(m)>> \o @]) /\ Top.runs # Outside
    BY <1>4 DEF CallInternal, Running
  <2>2. Top \in Frame /\ Top.acts \in Seq(Activations) /\ Activation(m) \in Activations
    BY <2>1, TopFacts, NewActivation DEF Known, Frame, Units
  <2>3. frames'[depth] = [Top EXCEPT !.acts = <<Activation(m)>> \o @]
    BY <2>1, FrameSet
  <2>4. frames'[depth].acts = <<Activation(m)>> \o Top.acts
    BY <2>2, <2>3 DEF Frame
  <2>5. Len(<<Activation(m)>> \o Top.acts) # Len(Top.acts)
    BY <2>2
  <2> QED BY <2>4, <2>5, OtherActs
<1> QED BY <1>1, <1>2, <1>3, <1>4

LEMMA StatementsCatchNot ==
  ASSUME Known, NEW t,
         \/ Return \/ Returned \/ FallThrough \/ EndBlock
         \/ \E s \in Tries : BeginInlineTry(s)
  PROVE  ~CatchBegins(t)
<1>1. Running
  BY DEF Return, Returned, FallThrough, EndBlock, BeginInlineTry, MayTry
<1>2. depth > 0 /\ Top.runs # Outside /\ Act \in Activations
  BY <1>1, RunningFacts, OwnFacts
<1>0. ASSUME NEW a \in Activations, SetAct(a), a.mode \in {"body", "inline"} \/ a.mode = Act.mode
      PROVE  ~CatchBegins(t)
  <2>1. Head(frames'[depth].acts) = a
    BY <1>0, <1>2, NewestAct
  <2> QED BY <1>0, <2>1, QuietAct
<1>3. CASE Return
  <2>1. [Act EXCEPT !.returning = TRUE] \in Activations
        /\ [Act EXCEPT !.returning = TRUE].mode = Act.mode
    BY <1>2 DEF Activations
  <2>2. SetAct([Act EXCEPT !.returning = TRUE])
    BY <1>3 DEF Return
  <2> QED BY <1>0, <2>1, <2>2
<1>4. CASE Returned \/ FallThrough
  <2>1. CASE Entry
    <3>1. depth' = depth - 1
      BY <1>4, <2>1 DEF Returned, FallThrough, EndFrame
    <3> QED BY <3>1, OtherDepth
  <2>2. CASE ~Entry
    <3>1. SetTop([Top EXCEPT !.acts = Tail(@)])
      BY <1>4, <2>2 DEF Returned, FallThrough, Leave
    <3>2. WellFormed(Top) /\ Top \in Frame
      BY <1>2, TopFacts DEF Known
    <3>3. frames'[depth] = [Top EXCEPT !.acts = Tail(@)]
      BY <1>2, <3>1, FrameSet
    <3>4. frames'[depth].acts = Tail(Top.acts) /\ Top.acts \in Seq(Activations) /\ Top.acts # <<>>
      BY <1>2, <3>2, <3>3 DEF Frame, WellFormed
    <3>5. Len(Tail(Top.acts)) = Len(Top.acts) - 1 /\ Len(Top.acts) \in Nat
      BY <3>4, TailFacts
    <3>6. Len(frames'[depth].acts) # Len(Top.acts)
      <4> SUFFICES ASSUME NEW n \in Nat PROVE n - 1 # n
        BY <3>4, <3>5
      <4> QED OBVIOUS
    <3> QED BY <3>6, OtherActs
  <2> QED BY <2>1, <2>2
<1>5. CASE EndBlock
  <2>0. 0 \in 0 .. MaxData
    BY BoundsAssumption
  <2>1. [Act EXCEPT !.mode = "body", !.try = "none", !.before = 0] \in Activations
        /\ [Act EXCEPT !.mode = "body", !.try = "none", !.before = 0].mode = "body"
    BY <1>2, <2>0 DEF Activations
  <2>2. SetAct([Act EXCEPT !.mode = "body", !.try = "none", !.before = 0])
    BY <1>5 DEF EndBlock
  <2> QED BY <1>0, <2>1, <2>2
<1>6. ASSUME NEW s \in Tries, BeginInlineTry(s) PROVE ~CatchBegins(t)
  <2>0. world.data \in 0 .. MaxData
    BY DEF Known, TypeInv, World
  <2>1. [Act EXCEPT !.mode = "inline", !.try = s, !.before = world.data] \in Activations
        /\ [Act EXCEPT !.mode = "inline", !.try = s, !.before = world.data].mode = "inline"
    BY <1>2, <2>0 DEF Activations
  <2>2. SetAct([Act EXCEPT !.mode = "inline", !.try = s, !.before = world.data])
    BY <1>6 DEF BeginInlineTry
  <2> QED BY <1>0, <2>1, <2>2
<1> QED BY <1>3, <1>4, <1>5, <1>6

(* A try that is reached, that falls through, that returns or that lacks its  *)
(* locals begins no catch block.                                            *)
LEMMA TriesCatchNot ==
  ASSUME Known, NEW t, NEW s \in Tries,
         BeginTry(s) \/ TryLacks(s) \/ TryFallsThrough(s) \/ TryReturns(s)
  PROVE  ~CatchBegins(t)
<1>1. CASE BeginTry(s)
  <2>1. CASE depth = MaxDepth \/ world.code = 0
    <3>1. depth > 0 /\ Top.runs # Outside /\ Act \in Activations /\ Act.mode = "body"
      BY <1>1, RunningFacts, OwnFacts DEF BeginTry, MayTry
    <3>2. world.data \in 0 .. MaxData
      BY DEF Known, TypeInv, World
    <3>3. [Act EXCEPT !.try = s, !.before = world.data] \in Activations
          /\ [Act EXCEPT !.try = s, !.before = world.data].mode = Act.mode
      BY <3>1, <3>2 DEF Activations
    <3>4. SetTop([Top EXCEPT !.waits = s,
                    !.acts = <<[Act EXCEPT !.try = s, !.before = world.data]>> \o Tail(@)])
      BY <1>1, <2>1 DEF BeginTry, NoCall
    <3>5. Head(frames'[depth].acts) = [Act EXCEPT !.try = s, !.before = world.data]
      BY <3>1, <3>3, <3>4, NewestAct
    <3> QED BY <3>3, <3>5, QuietAct
  <2>2. CASE depth # MaxDepth /\ world.code # 0
    <3>1. depth' = depth + 1
      BY <1>1, <2>2 DEF BeginTry, Enter
    <3> QED BY <3>1, OtherDepth
  <2> QED BY <2>1, <2>2
<1>2. ASSUME AwaitsTry(s)
      PROVE  depth > 0 /\ Top.runs # Outside /\ Act \in Activations
  <2>1. depth > 0 /\ Top.waits = s
    BY <1>2 DEF AwaitsTry
  <2>2. Top.runs # Outside
    BY <2>1, WaitsFacts
  <2> QED BY <2>1, <2>2, OwnFacts
<1>3. CASE TryFallsThrough(s)
  <2>0. 0 \in 0 .. MaxData
    BY BoundsAssumption
  <2>1. depth > 0 /\ Top.runs # Outside /\ Act \in Activations
    BY <1>2, <1>3 DEF TryFallsThrough
  <2>2. [Act EXCEPT !.try = "none", !.before = 0] \in Activations
        /\ [Act EXCEPT !.try = "none", !.before = 0].mode = Act.mode
    BY <2>0, <2>1 DEF Activations
  <2>3. SetTop([Top EXCEPT !.waits = "nothing",
                  !.acts = <<[Act EXCEPT !.try = "none", !.before = 0]>> \o Tail(@)])
    BY <1>3 DEF TryFallsThrough
  <2>4. Head(frames'[depth].acts) = [Act EXCEPT !.try = "none", !.before = 0]
    BY <2>1, <2>2, <2>3, NewestAct
  <2> QED BY <2>2, <2>4, QuietAct
<1>4. CASE TryReturns(s)
  <2>1. depth > 0 /\ Top.runs # Outside
    BY <1>2, <1>4 DEF TryReturns
  <2>2. CASE Entry
    <3>1. depth' = depth - 1
      BY <1>4, <2>2 DEF TryReturns, EndFrame
    <3> QED BY <3>1, OtherDepth
  <2>3. CASE ~Entry
    <3>1. SetTop([Top EXCEPT !.waits = "nothing", !.acts = Tail(@)])
      BY <1>4, <2>3 DEF TryReturns
    <3>2. WellFormed(Top) /\ Top \in Frame
      BY <2>1, TopFacts DEF Known
    <3>3. frames'[depth] = [Top EXCEPT !.waits = "nothing", !.acts = Tail(@)]
      BY <2>1, <3>1, FrameSet
    <3>4. frames'[depth].acts = Tail(Top.acts) /\ Top.acts \in Seq(Activations) /\ Top.acts # <<>>
      BY <2>1, <3>2, <3>3 DEF Frame, WellFormed
    <3>5. Len(Tail(Top.acts)) = Len(Top.acts) - 1 /\ Len(Top.acts) \in Nat
      BY <3>4, TailFacts
    <3>6. Len(frames'[depth].acts) # Len(Top.acts)
      <4> SUFFICES ASSUME NEW n \in Nat PROVE n - 1 # n
        BY <3>4, <3>5
      <4> QED OBVIOUS
    <3> QED BY <3>6, OtherActs
  <2> QED BY <2>2, <2>3
<1>5. CASE TryLacks(s)
  BY <1>5, OtherDepth DEF TryLacks, EndFrame
<1> QED BY <1>1, <1>3, <1>4, <1>5

(* Where a hoisted try's catch block begins, its thunk has failed.           *)
LEMMA HoistedRollsBack ==
  ASSUME Known, TryInv, [Next]_vars, NEW t \in Tries, Hoisted(t), CatchBegins(t)
  PROVE  world'.data = Act.before
<1>1. CASE CheckException
  <2>1. Act.mode = "inline" /\ Act.try = t
    BY <1>1 DEF CheckException, CatchBegins
  <2>2. ~Hoisted(Act.try)
    BY <1>1, <2>1, RunningFacts, OwnFacts DEF CheckException
  <2> QED BY <2>1, <2>2
<1>2. ASSUME NEW s \in Tries, TryCatches(s) PROVE world'.data = Act.before
  <2>1. depth > 0 /\ answer.ended /\ ~answer.ok /\ Top.waits \in Tries
    BY <1>2 DEF TryCatches, AwaitsTry
  <2>2. Top.acts \in Seq(Activations) /\ Top.acts # <<>>
    <3>1. WellFormed(Top) /\ Top \in Frame /\ Top.runs # Outside
      BY <2>1, TopFacts, WaitsFacts DEF Known
    <3> QED BY <3>1 DEF WellFormed, Frame
  <2>3. Act = Top.acts[1]
    BY <2>2 DEF Act
  <2>4. world.data = Act.before
    BY <2>1, <2>3 DEF TryInv
  <2>5. world' = [world EXCEPT !.cap = 0] /\ world \in World
    BY <1>2 DEF TryCatches, Known, TypeInv
  <2> QED BY <2>4, <2>5 DEF World
<1>3. CASE UNCHANGED vars
  BY <1>3, SameActs DEF vars, Top
<1> QED
  BY <1>1, <1>2, <1>3, OutsideCatchesNot, CallsCatchNot, StatementsCatchNot, TriesCatchNot DEF Next

(* plan_capture gives up on no block but for a capture it has no type for.    *)
TypedAreHoisted == \A t \in Tries \ Untyped : Hoisted(t)

(* A try block none of whose captures is untyped is undone before its catch   *)
(* block runs: it is a frame of its own, which went back to the storage its   *)
(* block began with.                                                        *)
THEOREM TriesRollBack == ASSUME TypedAreHoisted PROVE Spec => TypedTryAtomic
<1>1. Init => TryInv
  BY DEF Init, TryInv
<1>2. Known /\ TryInv /\ [Next]_vars => TryInv'
  <2> SUFFICES ASSUME Known, TryInv, [Next]_vars PROVE TryInv'
    OBVIOUS
  <2>1. CASE Next
    BY <2>1, NextMoves, MoveTry DEF Known
  <2>2. CASE UNCHANGED vars
    BY <2>2 DEF vars, TryInv, Top
  <2> QED BY <2>1, <2>2
<1>3. Known /\ TryInv /\ [Next]_vars => [RollsBack(Tries \ Untyped)]_vars
  <2> SUFFICES ASSUME Known, TryInv, [Next]_vars, NEW t \in Tries \ Untyped, CatchBegins(t)
               PROVE  world'.data = Act.before
    BY DEF RollsBack
  <2>1. t \in Tries /\ Hoisted(t)
    BY DEF TypedAreHoisted
  <2> QED BY <2>1, HoistedRollsBack
<1> QED BY <1>1, <1>2, <1>3, FramesInvariant, PTL DEF Spec, TypedTryAtomic

-----------------------------------------------------------------------------
(* Return data. *)

(* A round of what may come to a combined thunk: one itself, a unit that calls a  *)
(* method that does, a unit that holds a hoisted try that does.               *)
CombiningRound(known) ==
  {u \in Units : \/ u \in Thunks /\ Combined(u)
                 \/ Internal[u] \cap known # {}
                 \/ \E t \in Thunks \cap known : Within[t] = u}

Combining ==
  {u \in Units : \A known \in SUBSET Units : CombiningRound(known) \subseteq known => u \in known}

(* Conditions on a contract: an entry that may come to a combined thunk has a    *)
(* guard; no combined thunk calls a method that comes to one, as the value of a   *)
(* return statement might; and mark_returns_with_flag reaches every return       *)
(* statement of a combined thunk, none being in the catch block of a hoisted     *)
(* try in it.                                                               *)
CombiningIsGuarded == Exports \cap Combining \subseteq GuardedEntries
ValuesRunNoTry == \A t \in Thunks : Combined(t) => Internal[t] \cap Combining = {}
CatchesStay == \A s, t \in Thunks : Within[s] = t /\ Combined(t) => s \notin CatchReturns

(* A combined thunk whose return statement has stored the flag.               *)
Marked(f) == f.runs \in Thunks /\ Combined(f.runs) /\ f.acts[Len(f.acts)].returning

(* What an activation in a frame of u is to its return data: a try it is in is    *)
(* its own, and a block with a return statement is known to have one.          *)
ActForm(a, u) ==
  /\ a.unit \in Combining => u \in Combining
  /\ a.mode # "body" => /\ a.try \in Tries /\ Within[a.try] = a.unit
                        /\ a.mode = "catch" => a.try \in Thunks
  /\ a.returning /\ a.unit \in Tries => HasRet[a.unit]

(* And a frame: while the value of a marked return is computed, nothing above the *)
(* thunk's own activation comes to a combined thunk.                          *)
ReturnForm(f) ==
  /\ f.runs \in Tries => f.runs \in Thunks
  /\ f.runs # Outside =>
       /\ \A k \in 1 .. Len(f.acts) : ActForm(f.acts[k], f.runs)
       /\ f.waits \in Tries => /\ f.waits \in Thunks /\ Within[f.waits] = f.acts[1].unit
                              /\ ~f.acts[1].returning
       /\ Marked(f) => \A k \in 1 .. Len(f.acts) - 1 : f.acts[k].unit \notin Combining

RetInv ==
  /\ \A i \in 1 .. depth : ReturnForm(frames[i])
  /\ \A i \in 1 .. depth - 1 : frames[i].waits \in Tries => frames[i + 1].runs = frames[i].waits
  /\ \A i \in 1 .. depth : frames[i].runs \in Combining \ New =>
       \E j \in 1 .. i : Guarded(frames[j].runs)
  /\ \A i \in 1 .. depth : Marked(frames[i]) =>
       /\ world.returned = 1
       /\ \A j \in i + 1 .. depth : /\ frames[j].snap.returned = 1
                                    /\ frames[j].runs \notin Combining \ New
  /\ ReturnsReadRight

-----------------------------------------------------------------------------
(* HasRet has the value its equation asks for, even if tries were nested in a    *)
(* circle: the least set the equation's right side is closed under solves it.    *)
LEMMA HasRetFacts ==
  /\ \A t \in Tries : t \in BodyReturns => HasRet[t]
  /\ \A s, t \in Tries : Within[s] = t /\ (HasRet[s] \/ s \in CatchReturns) => HasRet[t]
<1> DEFINE Has(known) ==
             {t \in Tries : \/ t \in BodyReturns
                            \/ \E s \in Tries : Within[s] = t /\ (s \in known \/ s \in CatchReturns)}
           L == {t \in Tries : \A known \in SUBSET Tries : Has(known) \subseteq known => t \in known}
           F == [t \in Tries |-> t \in L]
<1>1. ASSUME NEW a, NEW b, a \subseteq b PROVE Has(a) \subseteq Has(b)
  BY <1>1
<1>2. Has(L) \subseteq L
  <2> SUFFICES ASSUME NEW t \in Has(L), NEW known \in SUBSET Tries, Has(known) \subseteq known
               PROVE  t \in known
    OBVIOUS
  <2>1. L \subseteq known
    OBVIOUS
  <2> HIDE DEF L
  <2>2. t \in Has(known)
    BY <2>1
  <2> QED BY <2>2
<1>3. L \subseteq Has(L)
  <2>1. Has(L) \in SUBSET Tries
    OBVIOUS
  <2>2. Has(Has(L)) \subseteq Has(L)
    <3> HIDE DEF Has, L
    <3> QED BY <1>1, <1>2
  <2> HIDE DEF Has
  <2> QED BY <2>1, <2>2
<1>4. F = [t \in Tries |-> \/ t \in BodyReturns
                          \/ \E s \in Tries : Within[s] = t /\ (F[s] \/ s \in CatchReturns)]
  <2>1. ASSUME NEW t \in Tries
        PROVE  F[t] = (\/ t \in BodyReturns
                       \/ \E s \in Tries : Within[s] = t /\ (F[s] \/ s \in CatchReturns))
    <3> DEFINE R == \/ t \in BodyReturns
                    \/ \E s \in Tries : Within[s] = t /\ (s \in L \/ s \in CatchReturns)
    <3>1. (t \in L) = R
      <4>1. t \in L <=> t \in Has(L)
        BY <1>2, <1>3
      <4>2. t \in Has(L) <=> R
        <5> HIDE DEF L
        <5> QED OBVIOUS
      <4>3. R \in BOOLEAN
        OBVIOUS
      <4> HIDE DEF L, R, Has
      <4>4. CASE t \in L
        BY <4>1, <4>2, <4>3, <4>4
      <4>5. CASE t \notin L
        BY <4>1, <4>2, <4>3, <4>5
      <4> QED BY <4>4, <4>5
    <3> HIDE DEF L
    <3>2. F[t] = R
      <4> HIDE DEF R
      <4> QED BY <3>1
    <3>3. R = (\/ t \in BodyReturns
               \/ \E s \in Tries : Within[s] = t /\ (F[s] \/ s \in CatchReturns))
      <4>1. \A s \in Tries : F[s] <=> s \in L
        OBVIOUS
      <4> HIDE DEF F
      <4> QED BY <4>1
    <3> HIDE DEF F, R
    <3> QED BY <3>2, <3>3
  <2> HIDE DEF L
  <2> QED BY <2>1
<1> HIDE DEF F
<1>5. HasRet = [t \in Tries |-> \/ t \in BodyReturns
                             \/ \E s \in Tries : Within[s] = t /\ (HasRet[s] \/ s \in CatchReturns)]
  BY <1>4 DEF HasRet
<1>6. \A t \in Tries : HasRet[t] = (\/ t \in BodyReturns
                       \/ \E s \in Tries : Within[s] = t /\ (HasRet[s] \/ s \in CatchReturns))
  BY <1>5
<1> QED BY <1>6

(* What may come to a combined thunk.                                        *)
LEMMA CombiningFacts ==
  /\ Combining \subseteq Units
  /\ \A t \in Thunks : Combined(t) => t \in Combining
  /\ \A u \in Units : Internal[u] \cap Combining # {} => u \in Combining
  /\ \A t \in Thunks : t \in Combining => Within[t] \in Combining
<1>1. CombiningRound(Combining) \subseteq Combining
  <2> SUFFICES ASSUME NEW u \in CombiningRound(Combining),
                      NEW known \in SUBSET Units, CombiningRound(known) \subseteq known
               PROVE  u \in known
    BY DEF Combining, CombiningRound
  <2>1. Combining \subseteq known
    BY DEF Combining
  <2>2. u \in CombiningRound(known)
    BY <2>1 DEF CombiningRound
  <2> QED BY <2>2
<1>2. Combining \subseteq Units
  BY DEF Combining
<1>3. \A t \in Thunks : t \in Units /\ Within[t] \in Units
  BY UnitsAssumption DEF Thunks, Units
<1>4. \A t \in Thunks : Combined(t) => t \in Combining
  BY <1>1, <1>3 DEF CombiningRound
<1>5. \A u \in Units : Internal[u] \cap Combining # {} => u \in Combining
  BY <1>1 DEF CombiningRound
<1>6. \A t \in Thunks : t \in Combining => Within[t] \in Combining
  BY <1>1, <1>3 DEF CombiningRound
<1> QED BY <1>2, <1>4, <1>5, <1>6

(* Sequences of activations, taken as frames take them.                      *)
LEMMA HeadReplaced ==
  ASSUME NEW q \in Seq(Activations), q # <<>>, NEW a
  PROVE  LET s == <<a>> \o Tail(q)
         IN  /\ Len(s) = Len(q) /\ s[1] = a /\ \A k \in 2 .. Len(q) : s[k] = q[k]
             /\ Len(q) \in 1 .. Len(q) /\ 1 \in 1 .. Len(q)
<1>1. Tail(q) \in Seq(Activations) /\ Len(Tail(q)) = Len(q) - 1 /\ Len(q) \in Nat \ {0}
      /\ \A k \in 1 .. Len(q) - 1 : Tail(q)[k] = q[k + 1]
  BY TailFacts
<1> QED BY <1>1

(* A frame that begins.                                                      *)
LEMMA NewForm ==
  ASSUME NEW u \in Units \cup {Outside}, u \in Tries => u \in Thunks, NEW v \in World
  PROVE  ReturnForm(NewFrame(u, v)) /\ ~Marked(NewFrame(u, v))
<1> DEFINE f == NewFrame(u, v)
<1>1. f.runs = u /\ f.waits = "nothing" /\ "nothing" \notin Tries /\ Outside \notin Tries
  BY NewFrameFacts, NamesAssumption DEF Units, Outside
<1>4. u \in Tries => u \in Thunks
  OBVIOUS
<1>2. CASE u = Outside
  BY <1>1, <1>2 DEF ReturnForm, Marked, Thunks
<1>3. CASE u # Outside
  <2>1. f.acts = <<Activation(u)>> /\ u \in Units
    BY <1>3 DEF NewFrame
  <2>2. Len(f.acts) = 1 /\ f.acts[1] = Activation(u)
    BY <2>1
  <2>3. Activation(u).unit = u /\ Activation(u).mode = "body" /\ ~Activation(u).returning
    BY DEF Activation
  <2>4. ActForm(Activation(u), u)
    BY <2>3 DEF ActForm
  <2> HIDE DEF f
  <2>5. ~Marked(f)
    BY <2>2, <2>3 DEF Marked
  <2>6. \A k \in 1 .. Len(f.acts) : ActForm(f.acts[k], f.runs)
    BY <1>1, <2>2, <2>4
  <2>7. ReturnForm(f)
    BY <1>1, <1>4, <2>5, <2>6 DEF ReturnForm
  <2> QED BY <2>5, <2>7 DEF f
<1> QED BY <1>2, <1>3

(* A frame that waits for something else.                                    *)
LEMMA WaitingForm ==
  ASSUME NEW f, WellFormed(f), ReturnForm(f), f.runs # Outside, NEW x \in {"nothing", "call"}
  PROVE  LET g == [f EXCEPT !.waits = x] IN ReturnForm(g) /\ (Marked(g) <=> Marked(f))
<1> DEFINE g == [f EXCEPT !.waits = x]
<1>1. g.runs = f.runs /\ g.waits = x /\ g.acts = f.acts /\ x \notin Tries
  BY NamesAssumption DEF WellFormed, Frame, Units
<1> HIDE DEF g
<1>2. Marked(g) <=> Marked(f)
  BY <1>1 DEF Marked
<1>3. ReturnForm(g)
  BY <1>1, <1>2 DEF ReturnForm
<1> QED BY <1>2, <1>3 DEF g

(* A frame whose newest activation is another of the same unit.                *)
LEMMA ActingForm ==
  ASSUME NEW f, WellFormed(f), ReturnForm(f), f.runs # Outside, NEW x \in Tries \cup {"nothing", "call"},
         NEW a \in Activations, a.unit = Head(f.acts).unit, ActForm(a, f.runs),
         x \in Tries => x \in Thunks /\ Within[x] = a.unit /\ ~a.returning
  PROVE  LET g == [f EXCEPT !.waits = x, !.acts = <<a>> \o Tail(@)]
         IN  /\ ReturnForm(g)
             /\ Marked(g) => Marked(f) \/ (Len(f.acts) = 1 /\ a.returning /\ ~Head(f.acts).returning)
<1> DEFINE g == [f EXCEPT !.waits = x, !.acts = <<a>> \o Tail(@)]
           s == <<a>> \o Tail(f.acts)
<1>1. f.acts \in Seq(Activations) /\ f.acts # <<>> /\ Head(f.acts) = f.acts[1]
  BY DEF WellFormed, Frame
<1>2. /\ Len(s) = Len(f.acts) /\ s[1] = a /\ \A k \in 2 .. Len(f.acts) : s[k] = f.acts[k]
      /\ Len(f.acts) \in 1 .. Len(f.acts) /\ 1 \in 1 .. Len(f.acts) /\ Len(f.acts) \in Nat
  BY <1>1, HeadReplaced
<1>3. g.runs = f.runs /\ g.waits = x /\ g.acts = s
  BY DEF WellFormed, Frame
<1> HIDE DEF g, s
<1>4. \A k \in 1 .. Len(f.acts) : ActForm(s[k], f.runs) /\ s[k].unit = f.acts[k].unit
  <2> TAKE k \in 1 .. Len(f.acts)
  <2>1. CASE k = 1
    BY <1>1, <1>2, <2>1
  <2>2. CASE k # 1
    <3>1. k \in 2 .. Len(f.acts)
      BY <2>2, <1>2
    <3> QED BY <1>2, <3>1 DEF ReturnForm
  <2> QED BY <2>1, <2>2
<1>5. Marked(g) => Marked(f) \/ (Len(f.acts) = 1 /\ a.returning /\ ~Head(f.acts).returning)
  <2>1. CASE Len(f.acts) = 1
    BY <1>1, <1>2, <1>3, <2>1 DEF Marked
  <2>2. CASE Len(f.acts) # 1
    <3>1. Len(f.acts) \in 2 .. Len(f.acts)
      <4> SUFFICES ASSUME NEW n \in Nat, 1 \in 1 .. n, n # 1 PROVE n \in 2 .. n
        BY <1>2, <2>2
      <4> QED OBVIOUS
    <3> QED BY <1>2, <1>3, <3>1 DEF Marked
  <2> QED BY <2>1, <2>2
<1>6. Marked(g) => \A k \in 1 .. Len(s) - 1 : s[k].unit \notin Combining
  <2> SUFFICES ASSUME Marked(g), NEW k \in 1 .. Len(s) - 1 PROVE s[k].unit \notin Combining
    OBVIOUS
  <2>1. k \in 1 .. Len(f.acts) /\ k \in 1 .. Len(f.acts) - 1 /\ Len(f.acts) # 1
    BY <1>2
  <2> QED BY <1>4, <1>5, <2>1 DEF ReturnForm
<1>7. ReturnForm(g)
  BY <1>2, <1>3, <1>4, <1>6 DEF ReturnForm
<1> QED BY <1>5, <1>7 DEF g

(* A frame that calls a method: while a marked return is under way, none that may *)
(* come to a combined thunk.                                                 *)
LEMMA CallingForm ==
  ASSUME ValuesRunNoTry,
         NEW f, WellFormed(f), ReturnForm(f), f.runs # Outside, f.waits = "nothing", NEW m \in Methods,
         m \in Internal[Head(f.acts).unit]
  PROVE  LET g == [f EXCEPT !.acts = <<Activation(m)>> \o @]
         IN  ReturnForm(g) /\ (Marked(g) <=> Marked(f))
<1> DEFINE g == [f EXCEPT !.acts = <<Activation(m)>> \o @]
           s == <<Activation(m)>> \o f.acts
<1>1. f.acts \in Seq(Activations) /\ f.acts # <<>> /\ Head(f.acts) = f.acts[1]
  BY DEF WellFormed, Frame
<1>2. /\ Activation(m).unit = m /\ Activation(m).mode = "body" /\ ~Activation(m).returning
      /\ "nothing" \notin Tries
  BY NamesAssumption DEF Units, Activation
<1>3. /\ Len(s) = Len(f.acts) + 1 /\ Len(f.acts) \in Nat \ {0}
      /\ s[1] = Activation(m) /\ \A k \in 2 .. Len(s) : s[k] = f.acts[k - 1]
  <2> HIDE DEF Activation
  <2> QED BY <1>1
<1>4. g.runs = f.runs /\ g.waits = f.waits /\ g.acts = s
  BY DEF WellFormed, Frame
<1>5. f.acts[1].unit \in Units /\ 1 \in 1 .. Len(f.acts)
  <2>1. f.acts[1] \in Activations /\ 1 \in 1 .. Len(f.acts)
    BY <1>1, <1>3
  <2> QED BY <2>1 DEF Activations
<1>6. m \in Combining => f.acts[1].unit \in Combining
  BY <1>1, <1>5, CombiningFacts
<1> HIDE DEF g, s
<1>7. s[Len(s)] = f.acts[Len(f.acts)]
  <2>1. Len(s) \in 2 .. Len(s) /\ Len(s) - 1 = Len(f.acts)
    BY <1>3
  <2> QED BY <1>3, <2>1
<1>8. Marked(g) <=> Marked(f)
  BY <1>4, <1>7 DEF Marked
<1>9. ASSUME NEW k \in 1 .. Len(s) PROVE ActForm(s[k], f.runs)
  <2>1. CASE k = 1
    <3>1. f.acts[1].unit \in Combining => f.runs \in Combining
      BY <1>5 DEF ReturnForm, ActForm
    <3> QED BY <1>2, <1>3, <1>6, <2>1, <3>1 DEF ActForm
  <2>2. CASE k # 1
    <3>1. k \in 2 .. Len(s) /\ k - 1 \in 1 .. Len(f.acts)
      BY <1>3, <2>2
    <3> QED BY <1>3, <3>1 DEF ReturnForm
  <2> QED BY <2>1, <2>2
<1>10. ASSUME Marked(g), NEW k \in 1 .. Len(s) - 1 PROVE s[k].unit \notin Combining
  <2>0. Marked(f) /\ \A j \in 1 .. Len(f.acts) - 1 : f.acts[j].unit \notin Combining
    BY <1>8, <1>10 DEF ReturnForm
  <2>1. CASE k = 1
    <3>1. CASE Len(f.acts) = 1
      <4>1. f.acts[1].unit = f.runs
        BY <3>1 DEF WellFormed
      <4>2. m \notin Combining
        BY <1>1, <2>0, <4>1 DEF Marked, ValuesRunNoTry
      <4> QED BY <1>2, <1>3, <2>1, <4>2
    <3>2. CASE Len(f.acts) # 1
      <4>1. 1 \in 1 .. Len(f.acts) - 1
        <5> SUFFICES ASSUME NEW n \in Nat \ {0}, n # 1 PROVE 1 \in 1 .. n - 1
          BY <1>3, <3>2
        <5> QED OBVIOUS
      <4> QED BY <1>2, <1>3, <1>6, <2>0, <2>1, <4>1
    <3> QED BY <3>1, <3>2
  <2>2. CASE k # 1
    <3>1. k \in 2 .. Len(s) /\ k - 1 \in 1 .. Len(f.acts) - 1
      BY <1>3, <2>2
    <3> QED BY <1>3, <2>0, <3>1
  <2> QED BY <2>1, <2>2
<1>11. ReturnForm(g)
  BY <1>2, <1>4, <1>9, <1>10 DEF ReturnForm
<1> QED BY <1>8, <1>11 DEF g

(* A frame that leaves a method.                                             *)
LEMMA LeavingForm ==
  ASSUME NEW f, WellFormed(f), ReturnForm(f), f.runs # Outside, Len(f.acts) # 1, NEW x \in {"nothing", "call"}
  PROVE  LET g == [f EXCEPT !.waits = x, !.acts = Tail(@)]
         IN  ReturnForm(g) /\ (Marked(g) <=> Marked(f))
<1> DEFINE g == [f EXCEPT !.waits = x, !.acts = Tail(@)]
           s == Tail(f.acts)
<1>1. f.acts \in Seq(Activations) /\ f.acts # <<>>
  BY DEF WellFormed, Frame
<1>2. /\ Len(s) = Len(f.acts) - 1 /\ Len(f.acts) \in Nat \ {0, 1}
      /\ \A k \in 1 .. Len(s) : s[k] = f.acts[k + 1]
  <2>1. /\ Len(s) = Len(f.acts) - 1 /\ Len(f.acts) \in Nat \ {0}
        /\ \A k \in 1 .. Len(f.acts) - 1 : s[k] = f.acts[k + 1]
    BY <1>1, TailFacts
  <2> HIDE DEF s, g
  <2> QED BY <2>1
<1>3. g.runs = f.runs /\ g.waits = x /\ g.acts = s
  BY DEF WellFormed, Frame
<1>4. x \notin Tries
  BY NamesAssumption DEF Units
<1> HIDE DEF g, s
<1>5. s[Len(s)] = f.acts[Len(f.acts)]
  <2>1. Len(s) \in 1 .. Len(s) /\ Len(s) + 1 = Len(f.acts)
    <3> SUFFICES ASSUME NEW n \in Nat \ {0, 1} PROVE n - 1 \in 1 .. n - 1 /\ n - 1 + 1 = n
      BY <1>2
    <3> QED OBVIOUS
  <2> QED BY <1>2, <2>1
<1>6. Marked(g) <=> Marked(f)
  BY <1>3, <1>5 DEF Marked
<1>7. \A k \in 1 .. Len(s) : k + 1 \in 1 .. Len(f.acts)
  BY <1>2
<1>8. \A k \in 1 .. Len(s) - 1 : k + 1 \in 1 .. Len(f.acts) - 1 /\ k \in 1 .. Len(s)
  BY <1>2
<1>9. \A k \in 1 .. Len(s) : ActForm(s[k], f.runs)
  BY <1>2, <1>7 DEF ReturnForm
<1>10. Marked(g) => \A k \in 1 .. Len(s) - 1 : s[k].unit \notin Combining
  BY <1>2, <1>6, <1>8 DEF ReturnForm
<1>11. ReturnForm(g)
  BY <1>3, <1>4, <1>9, <1>10 DEF ReturnForm
<1> QED BY <1>6, <1>11 DEF g

-----------------------------------------------------------------------------
(* To return data, too, every action is one of a few moves.                   *)

(* The frame on top goes on as f, in the world w. *)
Proceeds(f, w) ==
  /\ depth > 0 /\ depth' = depth
  /\ f.runs = Top.runs /\ f.snap = Top.snap /\ ReturnForm(f)
  /\ frames' = [frames EXCEPT ![depth] = f]
  /\ world' = w /\ (w.returned = world.returned \/ w.returned = 1)
  /\ Marked(f) => Marked(Top) \/ w.returned = 1
  /\ answer'.ended /\ answer'.ok /\ answer'.ran => f.waits \notin Tries

(* It becomes f and calls u. *)
Descends(f, u, v, w) ==
  /\ depth > 0 /\ depth < MaxDepth /\ depth' = depth + 1
  /\ f.runs = Top.runs /\ f.snap = Top.snap /\ ReturnForm(f)
  /\ u \in Units \cup {Outside} /\ (u \in Tries => u \in Thunks) /\ v \in World
  /\ frames' = [frames EXCEPT ![depth] = f, ![depth + 1] = NewFrame(u, v)]
  /\ world' = w /\ w.returned = world.returned /\ v.returned = world.returned
  /\ ~answer'.ended
  /\ Marked(f) => Marked(Top)
  /\ f.waits \in Tries => f.waits = u
  /\ u \in Combining \ New =>
       /\ \A i \in 1 .. depth : ~Marked(frames[i])
       /\ Guarded(u) \/ \E i \in 1 .. depth : Guarded(frames[i].runs)

(* It ends, and a thunk that ends well says what it encoded. *)
Yields(ok, data, w) ==
  /\ depth > 0 /\ depth' = depth - 1
  /\ frames' = [frames EXCEPT ![depth] = NoFrame]
  /\ answer'.ok = ok /\ answer'.data = data
  /\ world' = IF ok THEN w ELSE Top.snap
  /\ ok => w.returned = world.returned \/ w.returned = 1 \/ Top.runs \in Combining \ New
  /\ ok /\ Top.runs \in Tries =>
       data = IF HasRet[Top.runs] /\ data # "none" /\ (Top.runs \in Mutates => w.returned = 1)
              THEN "value" ELSE IF Top.runs \in Mutates THEN "captures" ELSE "none"

ReturnMove ==
  \/ \E f, w : Proceeds(f, w)
  \/ \E f, u, v, w : Descends(f, u, v, w)
  \/ \E ok \in BOOLEAN : \E data, w : Yields(ok, data, w)
  \/ Starts /\ ~answer'.ended
  \/ UNCHANGED <<world, frames, depth>> /\ ~answer'.ended

(* A combined thunk is no constructor. *)
LEMMA MarkedFacts ==
  ASSUME NEW f, Marked(f)
  PROVE  f.runs \in Combining \ New /\ f.runs \in Units
BY CombiningFacts, MethodsAssumption DEF Marked, Thunks, Units

LEMMA ProceedKeeps ==
  ASSUME Known, RetInv, NEW f, NEW w, Proceeds(f, w)
  PROVE  RetInv'
<1>0. depth \in 1 .. MaxDepth /\ MaxDepth \in Nat /\ DOMAIN frames = 1 .. MaxDepth /\ depth' = depth
      /\ world' = w /\ (w.returned = world.returned \/ w.returned = 1)
  BY BoundsAssumption DEF Known, TypeInv, Proceeds
<1>1. /\ \A i \in 1 .. depth : i # depth => frames'[i] = frames[i]
      /\ frames'[depth] = f
      /\ \A i \in 1 .. depth : frames'[i].runs = frames[i].runs /\ frames'[i].snap = frames[i].snap
  BY <1>0 DEF Proceeds, Top
<1>2. \A i \in 1 .. depth : ReturnForm(frames'[i])
  BY <1>0, <1>1 DEF RetInv, Proceeds
<1>3. \A i \in 1 .. depth - 1 : frames'[i].waits \in Tries => frames'[i + 1].runs = frames'[i].waits
  <2>1. \A i \in 1 .. depth - 1 : i \in 1 .. depth /\ i + 1 \in 1 .. depth /\ i # depth
    BY <1>0
  <2> QED BY <1>1, <2>1 DEF RetInv
<1>4. \A i \in 1 .. depth : frames'[i].runs \in Combining \ New =>
        \E j \in 1 .. i : Guarded(frames'[j].runs)
  <2>1. \A i \in 1 .. depth : \A j \in 1 .. i : j \in 1 .. depth
    BY <1>0
  <2> QED BY <1>1, <2>1 DEF RetInv
<1>5. ASSUME NEW i \in 1 .. depth, Marked(frames'[i])
      PROVE  /\ w.returned = 1
             /\ \A j \in i + 1 .. depth : /\ frames'[j].snap.returned = 1
                                          /\ frames'[j].runs \notin Combining \ New
  <2>1. CASE i = depth
    <3>1. w.returned = 1
      BY <1>0, <1>1, <1>5, <2>1 DEF RetInv, Proceeds, Top
    <3> QED BY <1>0, <2>1, <3>1
  <2>2. CASE i # depth
    <3>1. Marked(frames[i]) /\ \A j \in i + 1 .. depth : j \in 1 .. depth
      BY <1>0, <1>1, <1>5, <2>2
    <3> QED BY <1>0, <1>1, <3>1 DEF RetInv
  <2> QED BY <2>1, <2>2
<1>6. ReturnsReadRight'
  BY <1>0, <1>1 DEF ReturnsReadRight, AwaitsTry, Top, Proceeds
<1> QED BY <1>0, <1>2, <1>3, <1>4, <1>5, <1>6 DEF RetInv

LEMMA DescentKeeps ==
  ASSUME Known, RetInv, NEW f, NEW u, NEW v, NEW w, Descends(f, u, v, w)
  PROVE  RetInv'
<1>0. /\ depth \in 1 .. MaxDepth /\ depth + 1 \in 1 .. MaxDepth /\ MaxDepth \in Nat
      /\ DOMAIN frames = 1 .. MaxDepth /\ depth' = depth + 1 /\ world' = w
      /\ w.returned = world.returned /\ v.returned = world.returned
      /\ u \in Units \cup {Outside} /\ (u \in Tries => u \in Thunks) /\ v \in World
  BY BoundsAssumption DEF Known, TypeInv, Descends
<1> DEFINE g == NewFrame(u, v)
<1>1. /\ ReturnForm(g) /\ ~Marked(g) /\ g.runs = u /\ g.snap = v /\ g.waits \notin Tries
  BY <1>0, NewForm, NewFrameFacts, NamesAssumption DEF Units
<1> HIDE DEF g
<1>2. /\ \A i \in 1 .. depth - 1 : frames'[i] = frames[i]
      /\ frames'[depth] = f /\ frames'[depth + 1] = g
      /\ \A i \in 1 .. depth : frames'[i].runs = frames[i].runs /\ frames'[i].snap = frames[i].snap
  BY <1>0 DEF Descends, Top, g
<1>3. \A i \in 1 .. depth + 1 : i \in 1 .. depth - 1 \/ i = depth \/ i = depth + 1
  BY <1>0
<1>4. \A i \in 1 .. depth + 1 : ReturnForm(frames'[i])
  <2>1. \A i \in 1 .. depth - 1 : i \in 1 .. depth
    BY <1>0
  <2> QED BY <1>1, <1>2, <1>3, <2>1 DEF RetInv, Descends
<1>5. ASSUME NEW i \in 1 .. depth, frames'[i].waits \in Tries PROVE frames'[i + 1].runs = frames'[i].waits
  <2>1. CASE i = depth
    BY <1>1, <1>2, <1>5, <2>1 DEF Descends
  <2>2. CASE i # depth
    <3>1. i \in 1 .. depth - 1 /\ i + 1 \in 1 .. depth
      BY <1>0, <2>2
    <3> QED BY <1>2, <1>5, <3>1 DEF RetInv
  <2> QED BY <2>1, <2>2
<1>6. ASSUME NEW i \in 1 .. depth + 1, frames'[i].runs \in Combining \ New
      PROVE  \E j \in 1 .. i : Guarded(frames'[j].runs)
  <2>1. CASE i = depth + 1
    <3>1. Guarded(u) \/ \E j \in 1 .. depth : Guarded(frames[j].runs)
      BY <1>1, <1>2, <1>6, <2>1 DEF Descends
    <3>2. depth + 1 \in 1 .. i /\ \A j \in 1 .. depth : j \in 1 .. i
      BY <1>0, <2>1
    <3> QED BY <1>1, <1>2, <3>1, <3>2
  <2>2. CASE i # depth + 1
    <3>1. i \in 1 .. depth /\ \A j \in 1 .. i : j \in 1 .. depth
      BY <1>0, <2>2
    <3> QED BY <1>2, <1>6, <3>1 DEF RetInv
  <2> QED BY <2>1, <2>2
<1>7. ASSUME NEW i \in 1 .. depth + 1, Marked(frames'[i])
      PROVE  /\ w.returned = 1
             /\ \A j \in i + 1 .. depth + 1 : /\ frames'[j].snap.returned = 1
                                              /\ frames'[j].runs \notin Combining \ New
  <2>1. i \in 1 .. depth
    BY <1>0, <1>1, <1>2, <1>7
  <2>2. Marked(frames[i])
    <3>1. CASE i = depth
      BY <1>2, <1>7, <3>1 DEF Descends, Top
    <3>2. CASE i # depth
      <4>1. i \in 1 .. depth - 1
        BY <1>0, <2>1, <3>2
      <4> QED BY <1>2, <1>7, <4>1
    <3> QED BY <3>1, <3>2
  <2>3. u \notin Combining \ New
    BY <2>1, <2>2 DEF Descends
  <2>4. world.returned = 1 /\ \A j \in i + 1 .. depth : /\ frames[j].snap.returned = 1
                                                       /\ frames[j].runs \notin Combining \ New
    BY <2>1, <2>2 DEF RetInv
  <2>5. ASSUME NEW j \in i + 1 .. depth + 1
        PROVE  frames'[j].snap.returned = 1 /\ frames'[j].runs \notin Combining \ New
    <3>1. CASE j = depth + 1
      BY <1>0, <1>1, <1>2, <2>3, <2>4, <3>1
    <3>2. CASE j # depth + 1
      <4>1. j \in i + 1 .. depth /\ j \in 1 .. depth
        BY <1>0, <3>2
      <4> QED BY <1>2, <2>4, <4>1
    <3> QED BY <3>1, <3>2
  <2> QED BY <1>0, <2>4, <2>5
<1>8. ReturnsReadRight'
  BY DEF ReturnsReadRight, AwaitsTry, Descends
<1>9. \A i \in 1 .. depth' - 1 : i \in 1 .. depth
  BY <1>0
<1> QED BY <1>0, <1>4, <1>5, <1>6, <1>7, <1>8, <1>9 DEF RetInv

LEMMA YieldKeeps ==
  ASSUME Known, RetInv, NEW ok \in BOOLEAN, NEW data, NEW w, Yields(ok, data, w)
  PROVE  RetInv'
<1>0. /\ depth \in 1 .. MaxDepth /\ MaxDepth \in Nat
      /\ DOMAIN frames = 1 .. MaxDepth /\ depth' = depth - 1
      /\ world' = IF ok THEN w ELSE frames[depth].snap
  BY BoundsAssumption DEF Known, TypeInv, Yields, Top
<1>1. \A i \in 1 .. depth - 1 : i \in 1 .. depth /\ i + 1 \in 1 .. depth /\ frames'[i] = frames[i]
  BY <1>0 DEF Yields
<1>2. \A i \in 1 .. depth - 1 : \A j \in 1 .. i : j \in 1 .. depth - 1
  BY <1>0
<1>3. ASSUME NEW i \in 1 .. depth - 1, Marked(frames'[i])
      PROVE  /\ world'.returned = 1
             /\ \A j \in i + 1 .. depth - 1 : /\ frames'[j].snap.returned = 1
                                              /\ frames'[j].runs \notin Combining \ New
  <2>1. /\ world.returned = 1
        /\ \A j \in i + 1 .. depth : /\ frames[j].snap.returned = 1
                                     /\ frames[j].runs \notin Combining \ New
    BY <1>1, <1>3 DEF RetInv
  <2>2. depth \in i + 1 .. depth
        /\ \A j \in i + 1 .. depth - 1 : j \in i + 1 .. depth /\ j \in 1 .. depth - 1
    BY <1>0
  <2>3. frames[depth].snap.returned = 1 /\ Top.runs \notin Combining \ New
    BY <2>1, <2>2 DEF Top
  <2>4. world'.returned = 1
    BY <1>0, <2>1, <2>3 DEF Yields
  <2> QED BY <1>1, <2>1, <2>2, <2>4
<1>4. ReturnsReadRight'
  <2> SUFFICES ASSUME NEW t \in Tries, AwaitsTry(t)', answer'.ok PROVE Reads(t)' = answer'.data
    BY DEF ReturnsReadRight
  <2>1. depth - 1 \in 1 .. depth - 1 /\ frames'[depth - 1].waits = t
    BY <1>0 DEF AwaitsTry, Top
  <2>2. frames[depth - 1].waits = t
    BY <1>1, <2>1
  <2>3. depth - 1 + 1 = depth
    BY <1>0
  <2>4. Top.runs = t
    BY <2>1, <2>2, <2>3 DEF RetInv, Top
  <2>5. ok /\ world' = w /\ answer'.data = data
    BY <1>0 DEF Yields
  <2> QED BY <2>4, <2>5 DEF Yields, Reads
<1>5. \A i \in 1 .. depth - 1 : ReturnForm(frames'[i])
  BY <1>1 DEF RetInv
<1>6. \A i \in 1 .. depth - 1 - 1 : i \in 1 .. depth - 1 /\ i + 1 \in 1 .. depth - 1
  BY <1>0
<1>7. \A i \in 1 .. depth - 1 - 1 : frames'[i].waits \in Tries => frames'[i + 1].runs = frames'[i].waits
  BY <1>1, <1>6 DEF RetInv
<1>8. \A i \in 1 .. depth - 1 : frames'[i].runs \in Combining \ New =>
        \E j \in 1 .. i : Guarded(frames'[j].runs)
  BY <1>1, <1>2 DEF RetInv
<1> QED BY <1>0, <1>3, <1>4, <1>5, <1>7, <1>8 DEF RetInv

LEMMA ReturnMoveKeeps ==
  ASSUME Known, RetInv, ReturnMove
  PROVE  RetInv'
<1>1. CASE Starts /\ ~answer'.ended
  <2>1. frames'[1].runs = Outside /\ ReturnForm(frames'[1]) /\ ~Marked(frames'[1]) /\ depth' = 1
    <3> DEFINE c == ClearTransient(world)
    <3>1. frames'[1] = NewFrame(Outside, c) /\ depth' = 1
      BY <1>1, BoundsAssumption DEF Starts, Known, TypeInv
    <3>2. c \in World /\ Outside \notin Tries
      BY ClearFacts, NamesAssumption DEF Known, TypeInv, Units, Outside
    <3> HIDE DEF c
    <3> QED BY <3>1, <3>2, NewForm, NewFrameFacts
  <2>2. Outside \notin Combining
    BY CombiningFacts, NamesAssumption DEF Outside
  <2>3. ReturnsReadRight'
    BY <1>1 DEF ReturnsReadRight, AwaitsTry
  <2> QED BY <2>1, <2>2, <2>3 DEF RetInv
<1>2. CASE UNCHANGED <<world, frames, depth>> /\ ~answer'.ended
  <2>1. ReturnsReadRight'
    BY <1>2 DEF ReturnsReadRight, AwaitsTry
  <2> QED BY <1>2, <2>1 DEF RetInv
<1> QED BY <1>1, <1>2, ProceedKeeps, DescentKeeps, YieldKeeps DEF ReturnMove

-----------------------------------------------------------------------------
(* Every action is such a move, if the contract meets the conditions. *)

LEMMA ReturnedFacts ==
  ASSUME NEW w \in World, NEW u
  PROVE  /\ Unlock(w, u).returned = w.returned
         /\ Deployed(Unlock(w, u), u).returned = w.returned
         /\ Prologue(w, u).returned = w.returned
<1>1. Unlock(w, u).returned = w.returned /\ Unlock(w, u) \in World
  BY UnlockFacts DEF Unlock, World
<1>2. ASSUME NEW v \in World PROVE Deployed(v, u).returned = v.returned
  BY DEF Deployed, World
<1>3. Prologue(w, u).returned = w.returned
  BY DEF Prologue, World
<1> QED BY <1>1, <1>2, <1>3

(* The frame on top is one the invariant tells of.                           *)
LEMMA TopForm ==
  ASSUME Known, RetInv, depth > 0
  PROVE  /\ ReturnForm(Top)
         /\ Top.runs \in Combining \ New => \E i \in 1 .. depth : Guarded(frames[i].runs)
         /\ Marked(Top) => world.returned = 1
         /\ \A i \in 1 .. depth - 1 : Marked(frames[i]) => Top.runs \notin Combining \ New
<1>1. depth \in 1 .. depth /\ \A i \in 1 .. depth - 1 : i \in 1 .. depth /\ depth \in i + 1 .. depth
  BY BelowTop DEF Known
<1> QED BY <1>1 DEF RetInv, Top

(* Its next statement. *)
LEMMA ActForms ==
  ASSUME Known, RetInv, depth > 0, Top.runs # Outside
  PROVE  /\ ActForm(Act, Top.runs) /\ Act \in Activations /\ Act.unit \in Units
         /\ Entry => Act.unit = Top.runs /\ Act = Top.acts[Len(Top.acts)]
         /\ Top.waits \in Tries => Top.waits \in Thunks /\ Within[Top.waits] = Act.unit /\ ~Act.returning
         /\ Marked(Top) /\ ~Entry => Act.unit \notin Combining
<1>1. ReturnForm(Top) /\ Top.acts \in Seq(Activations) /\ Top.acts # <<>>
  BY TopForm, TopFacts DEF Known, WellFormed, Frame
<1>2. Act = Top.acts[1] /\ Len(Top.acts) \in Nat \ {0} /\ 1 \in 1 .. Len(Top.acts)
  BY <1>1 DEF Act
<1>3. ~Entry => 1 \in 1 .. Len(Top.acts) - 1
  <2> SUFFICES ASSUME NEW n \in Nat \ {0}, n # 1 PROVE 1 \in 1 .. n - 1
    BY <1>2 DEF Entry
  <2> QED OBVIOUS
<1>4. Act \in Activations /\ Act.unit \in Units /\ (Entry => Act.unit = Top.runs)
  BY OwnFacts
<1>5. Entry => Act = Top.acts[Len(Top.acts)]
  BY <1>2 DEF Entry
<1> QED BY <1>1, <1>2, <1>3, <1>4, <1>5 DEF ReturnForm

(* A frame ends. *)
LEMMA EndReturns ==
  ASSUME depth > 0, NEW ok \in BOOLEAN, NEW data, NEW w, EndFrame(ok, data, w),
         ok => w.returned = world.returned \/ w.returned = 1 \/ Top.runs \in Combining \ New,
         ok /\ Top.runs \in Tries =>
           data = IF HasRet[Top.runs] /\ data # "none" /\ (Top.runs \in Mutates => w.returned = 1)
                  THEN "value" ELSE IF Top.runs \in Mutates THEN "captures" ELSE "none"
  PROVE  ReturnMove
<1>1. Yields(ok, data, w)
  BY DEF Yields, EndFrame
<1> QED BY <1>1 DEF ReturnMove

(* Or goes on. *)
LEMMA GoReturns ==
  ASSUME depth > 0, NEW f, SetTop(f), depth' = depth,
         f.runs = Top.runs, f.snap = Top.snap, ReturnForm(f),
         world'.returned = world.returned \/ world'.returned = 1,
         Marked(f) => Marked(Top) \/ world'.returned = 1,
         answer'.ended /\ answer'.ok /\ answer'.ran => f.waits \notin Tries
  PROVE  ReturnMove
<1>1. Proceeds(f, world')
  BY DEF Proceeds, SetTop
<1> QED BY <1>1 DEF ReturnMove

LEMMA TransactionReturns ==
  ASSUME StartTransaction \/ EndTransaction \/ OutsideGoesOn
  PROVE  ReturnMove
BY DEF StartTransaction, EndTransaction, OutsideGoesOn, Starts, NoAnswer, ReturnMove

LEMMA FailureReturns ==
  ASSUME Revert \/ CallBubbles \/ (\E ok \in BOOLEAN : OutsideEnds(ok)) \/ \E t \in Tries : TryLacks(t)
  PROVE  ReturnMove
<1>1. CASE Revert \/ CallBubbles \/ \E t \in Tries : TryLacks(t)
  BY <1>1, EndReturns DEF Revert, Running, CallBubbles, TryLacks, AwaitsTry
<1>2. ASSUME NEW ok \in BOOLEAN, OutsideEnds(ok) PROVE ReturnMove
  <2>1. Outside \notin Tries
    BY NamesAssumption DEF Outside, Units
  <2> QED BY <1>2, <2>1, EndReturns DEF OutsideEnds, OutsideRuns
<1> QED BY <1>1, <1>2

(* While a marked return is under way a guarded entry point is below, so none    *)
(* that may come to a combined thunk is let in.                                *)
LEMMA CallEntryReturns ==
  ASSUME CombiningIsGuarded, Known, RetInv, NEW u \in Entries, CallEntry(u)
  PROVE  ReturnMove
<1>1. depth > 0 /\ ~answer.ended /\ Top.runs = Outside
  BY DEF CallEntry, OutsideRuns
<1>2. world.cap = 0 /\ world \in World /\ WellFormed(Top) /\ Top.waits \notin Tries /\ ReturnForm(Top)
  BY <1>1, NoCapability, TopFacts, WaitsFacts, TopForm DEF Known, TypeInv
<1>3. ASSUME NEW ok \in BOOLEAN, NoCall(ok, Top, world) PROVE ReturnMove
  BY <1>1, <1>2, <1>3, GoReturns DEF NoCall
<1>4. ASSUME ~Refuses(world, u), Enter(Top, u, world, Prologue(world, u)) PROVE ReturnMove
  <2>1. u \in Exports /\ u \in Units /\ u \notin Tries /\ (Guarded(u) => world.lock # 1)
    BY <1>2, <1>4, MethodsAssumption DEF Refuses, Entries, Thunks, Units
  <2>2. ASSUME u \in Combining
        PROVE  Guarded(u) /\ \A i \in 1 .. depth : ~Marked(frames[i])
    <3>1. Guarded(u)
      BY <2>1, <2>2 DEF CombiningIsGuarded, Guarded
    <3>2. \A i \in 1 .. depth : ~Guarded(frames[i].runs)
      BY <2>1, <3>1 DEF Known, LockInv
    <3>3. \A i \in 1 .. depth : \A j \in 1 .. i : j \in 1 .. depth
      BY BelowTop DEF Known
    <3>4. \A i \in 1 .. depth : frames[i].runs \notin Combining \ New
      BY <3>2, <3>3 DEF RetInv
    <3> QED BY <3>1, <3>4, MarkedFacts
  <2>3. Prologue(world, u).returned = world.returned
    BY <1>2, ReturnedFacts
  <2>4. Descends(Top, u, world, Prologue(world, u))
    BY <1>1, <1>2, <1>4, <2>1, <2>2, <2>3 DEF Descends, Enter
  <2> QED BY <2>4 DEF ReturnMove
<1>5. \/ \E ok \in BOOLEAN : NoCall(ok, Top, world)
      \/ ~Refuses(world, u) /\ Enter(Top, u, world, Prologue(world, u))
  <2>1. world.code \in Bit
    BY <1>2 DEF World
  <2> QED BY <2>1, Bits DEF CallEntry
<1> QED BY <1>3, <1>4, <1>5

LEMMA CreateReturns ==
  ASSUME Known, RetInv, NEW m \in New, Create(m)
  PROVE  ReturnMove
<1>1. depth > 0 /\ ~answer.ended /\ Top.runs = Outside
  BY DEF Create, OutsideRuns
<1>2. world \in World /\ Top.waits \notin Tries /\ ReturnForm(Top)
  BY <1>1, WaitsFacts, TopFacts, TopForm DEF Known, TypeInv, WellFormed
<1>3. CASE depth = MaxDepth
  BY <1>1, <1>2, <1>3, GoReturns DEF Create, NoCall
<1>4. CASE depth # MaxDepth
  <2>1. m \in Units /\ m \notin Tries
    BY MethodsAssumption DEF Units
  <2>2. Descends(Top, m, world, world)
    BY <1>1, <1>2, <1>4, <2>1 DEF Create, Descends, Enter
  <2> QED BY <2>2 DEF ReturnMove
<1> QED BY <1>3, <1>4

LEMMA WriteReturns ==
  ASSUME Known, RetInv, Write
  PROVE  ReturnMove
<1>1. depth > 0 /\ ~answer.ended /\ world \in World /\ ReturnForm(Top)
  BY RunningFacts, TopForm DEF Write
<1>2. SetTop(Top)
  BY <1>1, TopFacts DEF Known, TypeInv, Top, Write, SetTop
<1>3. world'.returned = world.returned
  BY <1>1 DEF Write, World
<1> QED BY <1>1, <1>2, <1>3, GoReturns DEF Write

LEMMA CallInternalReturns ==
  ASSUME ValuesRunNoTry, Known, RetInv, NEW m \in Methods, CallInternal(m)
  PROVE  ReturnMove
<1>1. /\ depth > 0 /\ Top.runs # Outside /\ WellFormed(Top) /\ world \in World
      /\ Top.waits = "nothing" /\ ~answer.ended /\ ReturnForm(Top)
  BY RunningFacts, TopFacts, TopForm DEF CallInternal, Known
<1> DEFINE f == [Top EXCEPT !.acts = <<Activation(m)>> \o @]
<1>2. m \in Internal[Head(Top.acts).unit]
  BY DEF CallInternal, Act
<1>3. f.runs = Top.runs /\ f.snap = Top.snap /\ ReturnForm(f) /\ (Marked(f) <=> Marked(Top))
  BY <1>1, <1>2, CallingForm, CallingFrame
<1>4. SetTop(f) /\ depth' = depth /\ answer' = answer /\ world' = [world EXCEPT !.runs = RunsAfter(world, m)]
  BY DEF CallInternal
<1>5. world'.returned = world.returned
  BY <1>1, <1>4 DEF World
<1> HIDE DEF f
<1> QED BY <1>1, <1>3, <1>4, <1>5, GoReturns

LEMMA CallOutsideReturns ==
  ASSUME Known, RetInv, CallOutside
  PROVE  ReturnMove
<1>1. depth > 0 /\ Top.runs # Outside /\ ~answer.ended /\ WellFormed(Top) /\ world \in World /\ ReturnForm(Top)
  BY RunningFacts, TopFacts, TopForm DEF CallOutside, Known
<1> DEFINE f == [Top EXCEPT !.waits = "call"]
<1>2. f.runs = Top.runs /\ f.snap = Top.snap /\ f.waits = "call" /\ ReturnForm(f) /\ (Marked(f) <=> Marked(Top))
  BY <1>1, WaitingFrame, WaitingForm
<1>3. IF depth = MaxDepth THEN NoCall(FALSE, f, world) ELSE Enter(f, Outside, world, world)
  BY DEF CallOutside
<1>4. "call" \notin Tries /\ Outside \notin Tries /\ Outside \notin Combining
  BY CombiningFacts, NamesAssumption DEF Units, Outside
<1> HIDE DEF f
<1>5. CASE depth = MaxDepth
  BY <1>1, <1>2, <1>3, <1>5, GoReturns DEF NoCall
<1>6. CASE depth # MaxDepth
  <2>1. Descends(f, Outside, world, world)
    BY <1>1, <1>2, <1>3, <1>4, <1>6 DEF Enter, Descends
  <2> QED BY <2>1 DEF ReturnMove
<1> QED BY <1>5, <1>6

LEMMA CallAnswerReturns ==
  ASSUME Known, RetInv, CallReturns \/ CallRaises
  PROVE  ReturnMove
<1>1. depth > 0 /\ Top.waits = "call"
  BY DEF CallReturns, CallRaises
<1>2. Top.runs # Outside /\ WellFormed(Top) /\ world \in World /\ ReturnForm(Top)
  BY <1>1, WaitsFacts, TopFacts, TopForm DEF Known, TypeInv
<1> DEFINE f == [Top EXCEPT !.waits = "nothing"]
<1>3. f.runs = Top.runs /\ f.snap = Top.snap /\ ReturnForm(f) /\ (Marked(f) <=> Marked(Top))
  BY <1>2, WaitingFrame, WaitingForm
<1>4. SetTop(f) /\ depth' = depth /\ (world' = world \/ world' = [world EXCEPT !.exc = 1]) /\ ~answer'.ended
  BY DEF CallReturns, CallRaises, NoAnswer
<1>5. world'.returned = world.returned
  BY <1>2, <1>4 DEF World
<1> HIDE DEF f
<1> QED BY <1>1, <1>3, <1>4, <1>5, GoReturns

(* A frame's newest activation is now a. *)
LEMMA ActReturns ==
  ASSUME Known, RetInv, depth > 0, Top.runs # Outside,
         NEW x \in {"nothing", "call"}, NEW a \in Activations, a.unit = Act.unit, ActForm(a, Top.runs),
         SetTop([Top EXCEPT !.waits = x, !.acts = <<a>> \o Tail(@)]),
         depth' = depth, ~answer'.ended,
         world'.returned = world.returned \/ world'.returned = 1,
         Entry /\ a.returning /\ ~Act.returning /\ Act.unit \in Thunks /\ Combined(Act.unit) =>
           world'.returned = 1
  PROVE  ReturnMove
<1> DEFINE f == [Top EXCEPT !.waits = x, !.acts = <<a>> \o Tail(@)]
<1>1. WellFormed(Top) /\ ReturnForm(Top)
  BY TopFacts, TopForm DEF Known
<1>2. x \notin Tries /\ a.unit = Head(Top.acts).unit /\ x \in Tries \cup {"nothing", "call"}
  BY NamesAssumption DEF Units, Act
<1>3. f.runs = Top.runs /\ f.snap = Top.snap
  BY <1>1 DEF WellFormed, Frame
<1>4. /\ ReturnForm(f)
      /\ Marked(f) => Marked(Top) \/ (Len(Top.acts) = 1 /\ a.returning /\ ~Head(Top.acts).returning)
  BY <1>1, <1>2, ActingForm
<1>5. Entry => Act.unit = Top.runs
  BY OwnFacts
<1>6. SetTop(f)
  OBVIOUS
<1> HIDE DEF f
<1>7. Marked(f) => Marked(Top) \/ world'.returned = 1
  BY <1>3, <1>4, <1>5 DEF Entry, Act, Marked
<1> QED BY <1>3, <1>4, <1>6, <1>7, GoReturns

LEMMA SetActReturns ==
  ASSUME Known, RetInv, Running, NEW a \in Activations, a.unit = Act.unit, ActForm(a, Top.runs), SetAct(a),
         UNCHANGED <<depth, answer>>,
         world'.returned = world.returned \/ world'.returned = 1,
         Entry /\ a.returning /\ ~Act.returning /\ Act.unit \in Thunks /\ Combined(Act.unit) =>
           world'.returned = 1
  PROVE  ReturnMove
<1>1. WellFormed(Top) /\ depth > 0 /\ Top.runs # Outside /\ Top.waits \in {"nothing", "call"} /\ ~answer.ended
  BY RunningFacts, TopFacts DEF Known
<1>2. SetTop([Top EXCEPT !.waits = Top.waits, !.acts = <<a>> \o Tail(@)])
  BY <1>1, SameWait DEF SetAct
<1> QED BY <1>1, <1>2, ActReturns

(* A return statement of a combined thunk is marked: those of its own body and    *)
(* inline tries are, and there is none in the catch block of a hoisted one.      *)
LEMMA ReturnReturns ==
  ASSUME CatchesStay, Known, RetInv, Return
  PROVE  ReturnMove
<1>1. Running /\ ~Act.returning /\ MayReturn(Act) /\ SetAct([Act EXCEPT !.returning = TRUE])
      /\ world' = (IF Marks(Act) THEN [world EXCEPT !.returned = 1] ELSE world) /\ UNCHANGED <<depth, answer>>
  BY DEF Return
<1>2. Act \in Activations /\ ActForm(Act, Top.runs) /\ world \in World /\ (Entry => Act.unit = Top.runs)
  BY <1>1, RunningFacts, ActForms
<1> DEFINE a == [Act EXCEPT !.returning = TRUE]
<1>3. a \in Activations /\ a.unit = Act.unit /\ a.mode = Act.mode /\ a.try = Act.try
  BY <1>2 DEF Activations
<1>4. Act.unit \in Tries => HasRet[Act.unit]
  <2> SUFFICES ASSUME Act.unit \in Tries PROVE HasRet[Act.unit]
    OBVIOUS
  <2>1. Act.unit \notin Methods
    BY MethodsAssumption
  <2>2. CASE Act.mode = "body"
    BY <1>1, <2>1, <2>2, HasRetFacts DEF MayReturn
  <2>3. CASE Act.mode # "body"
    <3>1. Act.try \in Tries /\ Within[Act.try] = Act.unit
      BY <1>2, <2>3 DEF ActForm
    <3>2. Act.try \in BodyReturns \/ Act.try \in CatchReturns
      BY <1>1, <2>1, <2>3 DEF MayReturn
    <3> QED BY <3>1, <3>2, HasRetFacts
  <2> QED BY <2>2, <2>3
<1>5. ActForm(a, Top.runs)
  BY <1>2, <1>3, <1>4 DEF ActForm
<1>6. world'.returned = world.returned \/ world'.returned = 1
  BY <1>1, <1>2 DEF World
<1>7. Act.unit \in Thunks /\ Combined(Act.unit) => Marks(Act)
  <2> SUFFICES ASSUME Act.unit \in Thunks, Combined(Act.unit), Act.mode = "catch" PROVE FALSE
    BY DEF Marks, Thunks
  <2>1. Act.try \in Thunks /\ Within[Act.try] = Act.unit
    BY <1>2 DEF ActForm
  <2>2. Act.try \in CatchReturns
    BY <1>1, MethodsAssumption DEF MayReturn, Thunks
  <2> QED BY <2>1, <2>2 DEF CatchesStay
<1>8. Act.unit \in Thunks /\ Combined(Act.unit) => world'.returned = 1
  BY <1>1, <1>2, <1>7 DEF World
<1> HIDE DEF a
<1>9. SetAct(a)
  BY <1>1 DEF a
<1> QED BY <1>1, <1>3, <1>5, <1>6, <1>8, <1>9, SetActReturns

LEMMA BlockReturns ==
  ASSUME Known, RetInv, CheckException \/ EndBlock \/ \E t \in Tries : BeginInlineTry(t)
  PROVE  ReturnMove
<1>1. Running /\ ~Act.returning /\ UNCHANGED <<depth, answer>>
  BY DEF CheckException, EndBlock, BeginInlineTry, MayTry
<1>2. Act \in Activations /\ ActForm(Act, Top.runs) /\ world \in World
  BY <1>1, RunningFacts, ActForms
<1>3. 0 \in 0 .. MaxData /\ world.data \in 0 .. MaxData
  BY <1>2, BoundsAssumption DEF World
<1>4. world'.returned = world.returned
  BY <1>2 DEF CheckException, EndBlock, BeginInlineTry, World
<1>5. ASSUME NEW a \in Activations, a.unit = Act.unit, a.returning = Act.returning, ActForm(a, Top.runs), SetAct(a)
      PROVE  ReturnMove
  BY <1>1, <1>4, <1>5, SetActReturns
<1>6. CASE CheckException
  <2> DEFINE a == [Act EXCEPT !.mode = "handler"]
  <2>1. a \in Activations /\ a.unit = Act.unit /\ a.returning = Act.returning /\ a.try = Act.try /\ a.mode = "handler"
    BY <1>2 DEF Activations
  <2>2. SetAct(a) /\ Act.mode = "inline"
    BY <1>6 DEF CheckException
  <2> HIDE DEF a
  <2>3. ActForm(a, Top.runs)
    BY <1>2, <2>1, <2>2 DEF ActForm
  <2> QED BY <1>5, <2>1, <2>2, <2>3
<1>7. CASE EndBlock
  <2> DEFINE a == [Act EXCEPT !.mode = "body", !.try = "none", !.before = 0]
  <2>1. a \in Activations /\ a.unit = Act.unit /\ a.returning = Act.returning /\ a.mode = "body"
    BY <1>2, <1>3 DEF Activations
  <2>2. SetAct(a)
    BY <1>7 DEF EndBlock
  <2> HIDE DEF a
  <2>3. ActForm(a, Top.runs)
    BY <1>2, <2>1 DEF ActForm
  <2> QED BY <1>5, <2>1, <2>2, <2>3
<1>8. ASSUME NEW t \in Tries, BeginInlineTry(t) PROVE ReturnMove
  <2> DEFINE a == [Act EXCEPT !.mode = "inline", !.try = t, !.before = world.data]
  <2>1. a \in Activations /\ a.unit = Act.unit /\ a.returning = Act.returning /\ a.mode = "inline" /\ a.try = t
    BY <1>2, <1>3 DEF Activations
  <2>2. SetAct(a) /\ Within[t] = Act.unit
    BY <1>8 DEF BeginInlineTry, MayTry
  <2> HIDE DEF a
  <2>3. ActForm(a, Top.runs)
    BY <1>2, <2>1, <2>2 DEF ActForm
  <2> QED BY <1>5, <2>1, <2>2, <2>3
<1> QED BY <1>6, <1>7, <1>8

(* A helper's activation is over. *)
LEMMA LeaveReturns ==
  ASSUME Known, RetInv, depth > 0, Top.runs # Outside, ~Entry,
         NEW x \in {"nothing", "call"},
         SetTop([Top EXCEPT !.waits = x, !.acts = Tail(@)]),
         depth' = depth, ~answer'.ended, world'.returned = world.returned \/ world'.returned = 1
  PROVE  ReturnMove
<1> DEFINE f == [Top EXCEPT !.waits = x, !.acts = Tail(@)]
<1>1. WellFormed(Top) /\ ReturnForm(Top) /\ Len(Top.acts) # 1
  BY TopFacts, TopForm DEF Known, Entry
<1>2. f.runs = Top.runs /\ f.snap = Top.snap /\ ReturnForm(f) /\ (Marked(f) <=> Marked(Top))
  BY <1>1, LeavingFrame, LeavingForm
<1>3. SetTop(f)
  OBVIOUS
<1> HIDE DEF f
<1> QED BY <1>2, <1>3, GoReturns

(* A thunk that returns gives a value, and if it is combined its flag is set; one *)
(* that falls through clears it.                                             *)
LEMMA EndingReturns ==
  ASSUME Known, RetInv, Returned \/ FallThrough
  PROVE  ReturnMove
<1>1. Running
  BY DEF Returned, FallThrough
<1>2. /\ depth > 0 /\ Top.runs # Outside /\ world \in World /\ ~answer.ended
      /\ Top.waits \in {"nothing", "call"} /\ WellFormed(Top) /\ Top.runs \in Units
  BY <1>1, RunningFacts, TopFacts, OwnFacts DEF Known
<1>3. CASE ~Entry
  <2>1. Leave(world)
    BY <1>3 DEF Returned, FallThrough
  <2>2. [Top EXCEPT !.acts = Tail(@)] = [Top EXCEPT !.waits = Top.waits, !.acts = Tail(@)]
    BY <1>2 DEF WellFormed, Frame
  <2>3. SetTop([Top EXCEPT !.waits = Top.waits, !.acts = Tail(@)])
        /\ depth' = depth /\ world' = world /\ answer' = answer
    BY <2>1, <2>2 DEF Leave
  <2> QED BY <1>2, <1>3, <2>3, LeaveReturns
<1>4. CASE Entry
  <2> DEFINE e == Deployed(Unlock(world, Top.runs), Top.runs)
  <2>1. e.returned = world.returned
    BY <1>2, ReturnedFacts
  <2> HIDE DEF e
  <2>2. /\ ActForm(Act, Top.runs) /\ Act.unit = Top.runs /\ Act = Top.acts[Len(Top.acts)]
        /\ ReturnForm(Top) /\ (Marked(Top) => world.returned = 1)
    BY <1>2, <1>4, ActForms, TopForm
  <2>3. CASE Returned
    <3>1. EndFrame(TRUE, ReturnData(Top.runs), e) /\ Act.returning
      BY <1>4, <2>3 DEF Returned, e
    <3>2. ASSUME Top.runs \in Tries
          PROVE  /\ ReturnData(Top.runs) = "value" /\ HasRet[Top.runs]
                 /\ Top.runs \in Mutates => e.returned = 1
      <4>1. HasRet[Top.runs] /\ Top.runs \in Thunks
        BY <2>2, <3>1, <3>2, <1>2 DEF ActForm, ReturnForm
      <4>2. Top.runs \in Mutates => Marked(Top)
        BY <2>2, <3>1, <4>1 DEF Marked, Combined
      <4> QED BY <2>1, <2>2, <3>2, <4>1, <4>2 DEF ReturnData
    <3> QED BY <1>2, <2>1, <3>1, <3>2, EndReturns
  <2>4. CASE FallThrough /\ Act.unit \in Methods
    <3>1. EndFrame(TRUE, "none", e) /\ Top.runs \notin Tries
      BY <1>4, <2>2, <2>4, MethodsAssumption DEF FallThrough, e
    <3> QED BY <1>2, <2>1, <3>1, EndReturns
  <2>5. CASE FallThrough /\ Act.unit \notin Methods
    <3> DEFINE d == IF Top.runs \in Mutates THEN "captures" ELSE "none"
               w == IF Combined(Top.runs) THEN [world EXCEPT !.returned = 0] ELSE world
    <3>1. EndFrame(TRUE, d, w)
      BY <1>4, <2>2, <2>5 DEF FallThrough
    <3>2. Top.runs \in Thunks /\ Top.runs \notin New
      BY <1>2, <2>2, <2>5, MethodsAssumption DEF ReturnForm, Units
    <3>3. w.returned = world.returned \/ Top.runs \in Combining \ New
      BY <3>2, CombiningFacts
    <3>4. Top.runs \in Tries =>
            d = IF HasRet[Top.runs] /\ d # "none" /\ (Top.runs \in Mutates => w.returned = 1)
                THEN "value" ELSE IF Top.runs \in Mutates THEN "captures" ELSE "none"
      <4>1. Combined(Top.runs) => w.returned = 0
        BY <1>2 DEF World
      <4> HIDE DEF w
      <4> QED BY <4>1 DEF Combined
    <3> HIDE DEF d, w
    <3> QED BY <1>2, <3>1, <3>3, <3>4, EndReturns
  <2> QED BY <2>3, <2>4, <2>5
<1> QED BY <1>3, <1>4

(* A try whose thunk may come to a combined one is in a unit that may, so a       *)
(* guarded entry point is below and no marked return is under way.             *)
LEMMA BeginTryReturns ==
  ASSUME Known, RetInv, NEW t \in Tries, BeginTry(t)
  PROVE  ReturnMove
<1>1. Running /\ ~Act.returning /\ Act.mode = "body" /\ Within[t] = Act.unit /\ Hoisted(t)
  BY DEF BeginTry, MayTry
<1>2. depth > 0 /\ Top.runs # Outside /\ ~answer.ended /\ world \in World /\ WellFormed(Top) /\ ReturnForm(Top)
  BY <1>1, RunningFacts, TopFacts, TopForm DEF Known
<1>3. Act \in Activations /\ ActForm(Act, Top.runs) /\ world.data \in 0 .. MaxData
  BY <1>2, ActForms DEF World
<1> DEFINE a == [Act EXCEPT !.try = t, !.before = world.data]
           f == [Top EXCEPT !.waits = t, !.acts = <<a>> \o Tail(@)]
           w == [world EXCEPT !.cap = 1]
           p == Prologue(w, t)
<1>4. a \in Activations /\ a.unit = Act.unit /\ a.mode = "body" /\ ~a.returning
  BY <1>1, <1>3 DEF Activations
<1>5. w \in World /\ w.returned = world.returned /\ w.code = world.code
  BY <1>2, Bits DEF World
<1>6. IF depth = MaxDepth THEN NoCall(FALSE, f, w)
      ELSE IF world.code = 0 THEN NoCall(TRUE, f, w) ELSE Enter(f, t, w, p)
  BY DEF BeginTry
<1> HIDE DEF a, w
<1>7. p.returned = world.returned
  BY <1>5, ReturnedFacts
<1> HIDE DEF p
<1>8. ActForm(a, Top.runs) /\ t \in Thunks
  BY <1>1, <1>3, <1>4 DEF ActForm, Thunks
<1>9. f.runs = Top.runs /\ f.snap = Top.snap /\ f.waits = t
  BY <1>2 DEF WellFormed, Frame
<1>10. ReturnForm(f) /\ (Marked(f) => Marked(Top))
  <2>1. a.unit = Head(Top.acts).unit /\ t \in Tries \cup {"nothing", "call"} /\ Within[t] = a.unit
    BY <1>1, <1>4 DEF Act
  <2> QED BY <1>2, <1>4, <1>8, <2>1, ActingForm
<1> HIDE DEF f
<1>11. ASSUME NEW ok \in BOOLEAN, NoCall(ok, f, w) PROVE ReturnMove
  BY <1>2, <1>5, <1>9, <1>10, <1>11, GoReturns DEF NoCall
<1>12. ASSUME world.code # 0, Enter(f, t, w, p) PROVE ReturnMove
  <2>1. ASSUME t \in Combining
        PROVE  /\ \A i \in 1 .. depth : ~Marked(frames[i])
               /\ \E i \in 1 .. depth : Guarded(frames[i].runs)
    <3>1. Act.unit \in Combining /\ Top.runs \in Combining
      BY <1>1, <1>3, <1>8, <2>1, CombiningFacts DEF ActForm
    <3>2. Top.runs \notin New
      <4>1. Fits(world, Top.runs) /\ Top.runs \in Units /\ world.code = 1
        BY <1>2, <1>12, OwnFacts, BelowTop, Bits DEF Known, CodeInv, Top, World
      <4> QED BY <4>1 DEF Fits
    <3>3. ~Marked(Top)
      BY <1>1, <1>2, <3>1, ActForms DEF Marked
    <3>4. \A i \in 1 .. depth : i = depth \/ i \in 1 .. depth - 1
      BY BelowTop DEF Known
    <3>5. \A i \in 1 .. depth - 1 : ~Marked(frames[i])
      BY <1>2, <3>1, <3>2, TopForm
    <3> QED BY <1>2, <3>1, <3>2, <3>3, <3>4, <3>5, TopForm DEF Top
  <2>2. t \in Units
    BY DEF Units
  <2>3. Descends(f, t, w, p)
    BY <1>2, <1>5, <1>7, <1>8, <1>9, <1>10, <1>12, <2>1, <2>2 DEF Descends, Enter
  <2> QED BY <2>3 DEF ReturnMove
<1> QED BY <1>6, <1>11, <1>12

LEMMA TryAnswerReturns ==
  ASSUME Known, RetInv, NEW t \in Tries, TryFallsThrough(t) \/ TryReturns(t) \/ TryCatches(t)
  PROVE  ReturnMove
<1>1. depth > 0 /\ Top.waits = t
  BY DEF TryFallsThrough, TryReturns, TryCatches, AwaitsTry
<1>2. /\ Top.runs # Outside /\ Act \in Activations /\ Act.mode = "body" /\ Act.try = t /\ world \in World
      /\ ActForm(Act, Top.runs) /\ ~Act.returning /\ t \in Thunks /\ Within[t] = Act.unit
  BY <1>1, WaitsFacts, OwnFacts, ActForms DEF Known, TypeInv
<1>3. CASE TryFallsThrough(t)
  <2> DEFINE a == [Act EXCEPT !.try = "none", !.before = 0]
  <2>0. 0 \in 0 .. MaxData
    BY BoundsAssumption
  <2>1. a \in Activations /\ a.unit = Act.unit /\ a.mode = "body" /\ ~a.returning
    BY <1>2, <2>0 DEF Activations
  <2>2. world'.returned = world.returned /\ depth' = depth /\ ~answer'.ended
    BY <1>2, <1>3 DEF TryFallsThrough, NoAnswer, World
  <2>3. SetTop([Top EXCEPT !.waits = "nothing", !.acts = <<a>> \o Tail(@)])
    BY <1>3 DEF TryFallsThrough
  <2> HIDE DEF a
  <2>4. ActForm(a, Top.runs)
    BY <1>2, <2>1 DEF ActForm
  <2> QED BY <1>1, <1>2, <2>1, <2>2, <2>3, <2>4, ActReturns
<1>4. CASE TryCatches(t)
  <2> DEFINE a == [Act EXCEPT !.mode = "catch"]
  <2>1. a \in Activations /\ a.unit = Act.unit /\ a.mode = "catch" /\ a.try = t /\ ~a.returning
    BY <1>2 DEF Activations
  <2>2. world'.returned = world.returned /\ depth' = depth /\ ~answer'.ended
    BY <1>2, <1>4 DEF TryCatches, NoAnswer, World
  <2>3. SetTop([Top EXCEPT !.waits = "nothing", !.acts = <<a>> \o Tail(@)])
    BY <1>4 DEF TryCatches
  <2> HIDE DEF a
  <2>4. ActForm(a, Top.runs)
    BY <1>2, <2>1 DEF ActForm
  <2> QED BY <1>1, <1>2, <2>1, <2>2, <2>3, <2>4, ActReturns
<1>5. CASE TryReturns(t)
  <2> DEFINE w == [world EXCEPT !.cap = 0, !.returned = 1]
  <2>1. w \in World /\ w.returned = 1
    BY <1>2, Bits DEF World
  <2>2. /\ HasRet[t]
        /\ IF Entry THEN EndFrame(TRUE, "value", Unlock(w, Top.runs))
           ELSE /\ SetTop([Top EXCEPT !.waits = "nothing", !.acts = Tail(@)])
                /\ world' = w /\ answer' = NoAnswer /\ depth' = depth
    BY <1>5 DEF TryReturns, Reads
  <2> HIDE DEF w
  <2>3. CASE Entry
    <3>1. EndFrame(TRUE, "value", Unlock(w, Top.runs)) /\ Unlock(w, Top.runs).returned = 1
      BY <2>1, <2>2, <2>3, ReturnedFacts
    <3>2. Top.runs \in Tries => HasRet[Top.runs]
      BY <1>1, <1>2, <2>2, <2>3, OwnFacts, HasRetFacts
    <3> QED BY <1>1, <3>1, <3>2, EndReturns
  <2>4. CASE ~Entry
    <3>1. SetTop([Top EXCEPT !.waits = "nothing", !.acts = Tail(@)]) /\ depth' = depth
          /\ ~answer'.ended /\ world'.returned = 1
      BY <2>1, <2>2, <2>4 DEF NoAnswer
    <3> QED BY <1>1, <1>2, <2>4, <3>1, LeaveReturns
  <2> QED BY <2>3, <2>4
<1> QED BY <1>3, <1>4, <1>5

LEMMA NextReturns ==
  ASSUME CombiningIsGuarded, ValuesRunNoTry, CatchesStay, Known, RetInv, Next
  PROVE  ReturnMove
BY TransactionReturns, FailureReturns, CreateReturns, CallEntryReturns, WriteReturns, CallOutsideReturns,
   CallAnswerReturns, CallInternalReturns, ReturnReturns, EndingReturns, BlockReturns, BeginTryReturns,
   TryAnswerReturns
   DEF Next

(* A try statement takes its thunk's return data for what the thunk encoded      *)
(* there, if contract and compiler meet the three conditions: each is needed.    *)
THEOREM ReturnsAreReadRight ==
  ASSUME CombiningIsGuarded, ValuesRunNoTry, CatchesStay
  PROVE  Spec => []ReturnsReadRight
<1>1. Init => RetInv
  <2> SUFFICES ASSUME Init PROVE RetInv
    OBVIOUS
  <2> QED BY DEF Init, RetInv, ReturnsReadRight, AwaitsTry
<1>2. Known /\ RetInv /\ [Next]_vars => RetInv'
  <2> SUFFICES ASSUME Known, RetInv, [Next]_vars PROVE RetInv'
    OBVIOUS
  <2>1. CASE Next
    <3>1. ReturnMove
      BY <2>1, NextReturns
    <3> QED BY <3>1, ReturnMoveKeeps
  <2>2. CASE UNCHANGED vars
    BY <2>2 DEF vars, RetInv, ReturnsReadRight, AwaitsTry, Top, Reads
  <2> QED BY <2>1, <2>2
<1>3. RetInv => ReturnsReadRight
  BY DEF RetInv
<1> QED BY <1>1, <1>2, <1>3, FramesInvariant, PTL DEF Spec
=============================================================================
