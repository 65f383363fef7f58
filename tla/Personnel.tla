------------------------------ MODULE Personnel ------------------------------
(***************************************************************************)
(* What the user administration of a tenant promises, with no request,     *)
(* index or earlier check: people are hired, moved to other roles, given   *)
(* another status, and leave, each in one step; employee numbers come from *)
(* a counter.  Users implements it, though its requests take the number    *)
(* from the rows they see and write later.                                 *)
(***************************************************************************)
EXTENDS Naturals

CONSTANTS User, Founder, Email, FounderEmail, NoEmail, Role, Status

VARIABLES people, \* those who have ever been hired
          left,   \* those of them who have left
          role, status, email, number,
          given   \* the last employee number given out

vars == <<people, left, role, status, email, number, given>>

Init ==
  /\ people = {Founder}
  /\ left = {}
  /\ role = [u \in User |-> IF u = Founder THEN "OWNER" ELSE "STAFF"]
  /\ status = [u \in User |-> "ACTIVE"]
  /\ email = [u \in User |-> IF u = Founder THEN FounderEmail ELSE NoEmail]
  /\ number = [u \in User |-> 0]
  /\ given = 0

Present == people \ left

-----------------------------------------------------------------------------
(* Nobody has, or has ever had, the same address.  An OWNER gets no number.  *)
Hire(u, ro, e) ==
  /\ u \notin people
  /\ \A v \in people : email[v] # e
  /\ given' = IF ro = "OWNER" THEN given ELSE given + 1
  /\ number' = [number EXCEPT ![u] = IF ro = "OWNER" THEN 0 ELSE given + 1]
  /\ people' = people \union {u}
  /\ role' = [role EXCEPT ![u] = ro]
  /\ status' = [status EXCEPT ![u] = "ACTIVE"]
  /\ email' = [email EXCEPT ![u] = e]
  /\ UNCHANGED left

Move(u, ro) ==
  /\ u \in Present
  /\ role' = [role EXCEPT ![u] = ro]
  /\ UNCHANGED <<people, left, status, email, number, given>>

SetStatus(u, st) ==
  /\ u \in Present
  /\ status' = [status EXCEPT ![u] = st]
  /\ UNCHANGED <<people, left, role, email, number, given>>

Leave(u) ==
  /\ u \in Present
  /\ left' = left \union {u}
  /\ UNCHANGED <<people, role, status, email, number, given>>

Next ==
  \E u \in User :
    \/ \E ro \in Role : Move(u, ro) \/ \E e \in Email : Hire(u, ro, e)
    \/ \E st \in Status : SetStatus(u, st)
    \/ Leave(u)

Spec == Init /\ [][Next]_vars
=============================================================================
