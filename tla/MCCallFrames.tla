----------------------------- MODULE MCCallFrames -----------------------------
(* A small contract for TLC:                                                *)
(*   run   has a return type; its try t1 assigns a local and may return, and  *)
(*         holds t2, which assigns a local and calls out                     *)
(*   step  internal, reached from run and t1; calls out; its try t3 may be    *)
(*         inline                                                           *)
(*   poke  calls out through step only                                      *)
(*   bump  writes and never calls out, so it has no guard                    *)
(*   init  once and unsafe, and calls out                                    *)
(*   new   calls out, and bump; its try t4 assigns a local                    *)
EXTENDS CallFrames

MCMethods == {"new", "run", "poke", "step", "bump", "init"}
MCNew     == {"new"}
MCTries   == {"t1", "t2", "t3", "t4"}
MCExports == {"run", "poke", "bump", "init"}
MCUnsafe  == {"init"}
MCOnce    == {"init"}
MCHasReturn == {"run"}

MCInternal ==
  [u \in MCMethods \cup MCTries |->
     IF u \in {"run", "poke", "t1"} THEN {"step"} ELSE IF u = "new" THEN {"bump"} ELSE {}]
MCExternal == {"step", "t2", "init", "new"}
MCWithin   == [t \in MCTries |-> CASE t = "t1" -> "run" [] t = "t2" -> "t1"
                                 [] t = "t3" -> "step" [] t = "t4" -> "new"]
(* Every call is looked up as what it runs; the type checker comes to step's   *)
(* only, the others are arguments of method calls, say.                     *)
Made == [u \in MCMethods \cup MCTries |->
           MCInternal[u] \cup IF u \in MCExternal THEN {"outside"} ELSE {}]
MCNoted == {"step"}

MCUntyped     == {"t3"}
MCBodyReturns == {"t1"}
MCMutates     == {"t1", "t2", "t4"}

(* The same contract with a return in the catch block of t2.                 *)
MCCatchReturns == {"t2"}
(* And with a return type of step as well, whose try t3 assigns a local and   *)
(* may return, as t1 does: run's return in t1 may be `return self.step()`.    *)
MCHasReturnBoth   == {"run", "step"}
MCBodyReturnsBoth == {"t1", "t3"}
(* And with a try in new that assigns no local.                              *)
MCMutatesLess     == {"t1", "t2"}
(* And with run opted out of the guard.                                      *)
MCUnsafeRun       == {"init", "run"}
(* And with step the version of poke that poke replaced, run by super.poke()    *)
(* and looked up as poke.                                                   *)
MadeBySuper == [u \in DOMAIN Made |->
                  IF "step" \in Made[u] THEN {"poke"} \cup (Made[u] \ {"step"}) ELSE Made[u]]

(* So CallsAreFound, a hypothesis of NoneReenters, holds of the contract of the  *)
(* passing run, by RoundsFindCalls.                                         *)
ASSUME PassingContract == LooksUp = Made /\ Noted = MCNoted => CallsAsMade /\ HasExternalCalls
=============================================================================
