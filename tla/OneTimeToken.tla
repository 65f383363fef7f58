---------------------------- MODULE OneTimeToken ----------------------------
(***************************************************************************)
(* What a token sent by e-mail promises, with no request, row lock or      *)
(* clock: it is issued once, it may be retired at any time before it is    *)
(* used, and it takes effect at most once, in the step that uses it up.    *)
(* Password reset and e-mail verification both implement it.               *)
(***************************************************************************)
EXTENDS Sequences

CONSTANT Token

VARIABLES state,  \* what has become of each token
          log     \* the tokens that took effect, in order

vars == <<state, log>>

Init == /\ state = [t \in Token |-> "unborn"]
        /\ log = <<>>

Issue(t) == /\ state[t] = "unborn"
            /\ state' = [state EXCEPT ![t] = "live"]
            /\ UNCHANGED log

(* Replaced by a newer one, expired, or used when nobody is there to benefit. *)
Retire(T) == /\ \A t \in T : state[t] = "live"
             /\ state' = [t \in Token |-> IF t \in T THEN "dead" ELSE state[t]]
             /\ UNCHANGED log

Spend(t) == /\ state[t] = "live"
            /\ state' = [state EXCEPT ![t] = "dead"]
            /\ log' = Append(log, t)

Next == \/ \E t \in Token : Issue(t) \/ Spend(t)
        \/ \E T \in SUBSET Token : Retire(T)

Spec == Init /\ [][Next]_vars
=============================================================================
