---------------------------- MODULE TokenFamily ----------------------------
(***************************************************************************)
(* What refresh-token rotation promises, with no request, lock or clock.   *)
(*                                                                         *)
(* A login opens a family of sessions, named by its first session.  At     *)
(* any moment a family has at most one usable session, its head.  A        *)
(* refresh moves the head to a session that was never used before; a       *)
(* logout, a logout-all, a password reset or a detected replay kills       *)
(* families, for good.                                                     *)
(***************************************************************************)
CONSTANTS Session,  \* the identifiers of rows of the sessions table
          Unborn,   \* the head of a family nobody has opened
          Dead      \* the head of a family that was killed

VARIABLES head,     \* the usable session of each family
          spent     \* every session that was ever a head

vars == <<head, spent>>

(* The families that have a usable session. *)
LiveFamily == {f \in Session : head[f] \notin {Unborn, Dead}}

Init == /\ head = [f \in Session |-> Unborn]
        /\ spent = {}

Open(f) == /\ f \notin spent
           /\ head' = [head EXCEPT ![f] = f]
           /\ spent' = spent \union {f}

Rotate(f, s) == /\ f \in LiveFamily
                /\ s \notin spent
                /\ head' = [head EXCEPT ![f] = s]
                /\ spent' = spent \union {s}

Kill(F) == /\ F \subseteq LiveFamily
           /\ head' = [f \in Session |-> IF f \in F THEN Dead ELSE head[f]]
           /\ UNCHANGED spent

Next == \/ \E f \in Session : Open(f)
        \/ \E f, s \in Session : Rotate(f, s)
        \/ \E F \in SUBSET Session : Kill(F)

Spec == Init /\ [][Next]_vars
=============================================================================
