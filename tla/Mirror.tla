------------------------------- MODULE Mirror -------------------------------
(***************************************************************************)
(* What an incremental sync promises about the objects it mirrors, however *)
(* it is interrupted: a copy is always some version the source really had, *)
(* it never goes back to an older one, and an object the gate excludes is  *)
(* never copied at all.                                                    *)
(***************************************************************************)
EXTENDS Naturals

CONSTANT Objects

VARIABLES
  source,  \* [Objects -> Nat], the version in the source, 0 before it exists
  gated,   \* objects of the source that must not be copied
  copy     \* [Objects -> Nat], the version in the mirror, 0 when there is none

Init ==
  /\ source = [o \in Objects |-> 0]
  /\ gated = {}
  /\ copy = [o \in Objects |-> 0]

\* The source writes an object; whether it is gated is settled when it is created.
Change(o) ==
  /\ source' = [source EXCEPT ![o] = @ + 1]
  /\ gated' \in IF source[o] = 0 THEN {gated, gated \cup {o}} ELSE {gated}
  /\ copy' = copy

Copy(o) ==
  /\ o \notin gated
  /\ \E v \in copy[o]..source[o] : copy' = [copy EXCEPT ![o] = v]
  /\ UNCHANGED <<source, gated>>

Next == \E o \in Objects : Change(o) \/ Copy(o)

Spec == Init /\ [][Next]_<<source, gated, copy>>
=============================================================================
