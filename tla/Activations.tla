----------------------------- MODULE Activations -----------------------------
(***************************************************************************)
(* What coroutines promise the Kotlin functions that Lua code calls.       *)
(*                                                                         *)
(* One chain of threads is executing, each resumed by the one before it.   *)
(* Every thread has a stack of activations of Kotlin functions.  Only the  *)
(* top one of the last thread makes progress: it returns, or suspends, and *)
(* then its thread leaves the chain before anything else happens.  It is   *)
(* continued at most once for each time the thread was resumed.  An        *)
(* activation that waits may be given up, one that executes never is.      *)
(*                                                                         *)
(* A stack is a function on the heights that are in use.  What it has at a *)
(* height stays there until it is popped: an activation keeps its frame.   *)
(***************************************************************************)
EXTENDS Naturals

CONSTANTS First, Others   \* the thread the chain begins with; the others

VARIABLES
    acts,      \* the activations of every thread, "executing" or "waiting"
    chain,     \* the executing threads
    leaving    \* the last of them has yielded

vars == <<acts, chain, leaving>>

IsTop(s, h)     == h \in DOMAIN s /\ \A k \in DOMAIN s : k <= h
IsFree(s, h)    == h \in Nat /\ \A k \in DOMAIN s : k < h
With(s, h, x)   == [k \in DOMAIN s \cup {h} |-> IF k = h THEN x ELSE s[k]]
Without(s, h)   == [k \in DOMAIN s \ {h} |-> s[k]]

Current == chain[CHOOSE h \in DOMAIN chain : IsTop(chain, h)]
Members == {chain[k] : k \in DOMAIN chain}
Mine    == acts[Current]
TopIs(h, state) == IsTop(Mine, h) /\ Mine[h] = state

Init ==
    /\ acts = [th \in {First} \cup Others |-> [h \in {} |-> "waiting"]]
    /\ chain = [h \in {0} |-> First]
    /\ leaving = FALSE

Invoke ==
    /\ ~leaving
    /\ \E h \in DOMAIN acts'[Current] :
          IsFree(Mine, h) /\ acts' = [acts EXCEPT ![Current] = With(@, h, "executing")]
    /\ UNCHANGED <<chain, leaving>>

Return ==
    /\ ~leaving
    /\ \E h \in DOMAIN Mine :
          TopIs(h, "executing") /\ acts' = [acts EXCEPT ![Current] = Without(@, h)]
    /\ UNCHANGED <<chain, leaving>>

(* Lua code yields, or a Kotlin function that waits to be continued, or one *)
(* that has nothing to do afterwards.                                       *)
Yield ==
    /\ ~leaving /\ Current # First
    /\ \/ acts' = acts /\ \A h \in DOMAIN Mine : ~TopIs(h, "executing")
       \/ \E h \in DOMAIN Mine :
             /\ TopIs(h, "executing")
             /\ \/ acts' = [acts EXCEPT ![Current] = Without(@, h)]
                \/ acts' = [acts EXCEPT ![Current] = With(@, h, "waiting")]
    /\ leaving' = TRUE
    /\ UNCHANGED chain

Continue ==
    /\ ~leaving
    /\ \E h \in DOMAIN Mine :
          TopIs(h, "waiting") /\ acts' = [acts EXCEPT ![Current] = With(@, h, "executing")]
    /\ UNCHANGED <<chain, leaving>>

(* Another thread goes on, or begins, perhaps with a Kotlin function. *)
Resume(co) ==
    /\ ~leaving /\ co \notin Members
    /\ \E h \in DOMAIN chain' : IsFree(chain, h) /\ chain' = With(chain, h, co)
    /\ \/ acts' = acts
       \/ /\ DOMAIN acts[co] = {}
          /\ \E h \in DOMAIN acts'[co] :
                IsFree(acts[co], h) /\ acts' = [acts EXCEPT ![co] = With(@, h, "executing")]
    /\ UNCHANGED leaving

(* The last thread has yielded, ended or failed; none of its activations executes. *)
Leave ==
    /\ \A h \in DOMAIN Mine : Mine[h] = "waiting"
    /\ \E h \in DOMAIN chain \ {0} : IsTop(chain, h) /\ chain' = Without(chain, h)
    /\ leaving' = FALSE
    /\ UNCHANGED acts

(* An error goes past activations that wait, or a suspended thread is closed. *)
GiveUp(th) ==
    /\ ~leaving /\ th \notin Members \ {Current}
    /\ \E kept \in SUBSET DOMAIN acts[th] :
          /\ \A h \in DOMAIN acts[th] \ kept :
                acts[th][h] = "waiting" /\ \A k \in kept : k < h
          /\ acts' = [acts EXCEPT ![th] = [h \in kept |-> acts[th][h]]]
    /\ UNCHANGED <<chain, leaving>>

Next == \/ Invoke \/ Return \/ Yield \/ Continue \/ Leave
        \/ \E th \in {First} \cup Others : Resume(th) \/ GiveUp(th)

Spec == Init /\ [][Next]_vars
=============================================================================
