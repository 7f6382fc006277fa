---------------------------- MODULE MCWorkspace ----------------------------
(***************************************************************************)
(* Small instances of Workspace, in three scenes: people sign up and in at *)
(* the same time, with and without the token of somebody else; people who  *)
(* signed up one after the other import what pickers offer and connect to  *)
(* their default clients; and they connect to the clients they name.       *)
(* People and tenants are interchangeable, and requests.                   *)
(***************************************************************************)
EXTENDS Workspace, TLC

VARIABLE scene

MCSymmetry == Permutations(Emails) \cup Permutations(Tenants) \cup Permutations(Requests)

SigningUp == {r \in Requests : call[r].op = "signUp"}
Connecting == {r \in Requests : call[r].op \in {"import", "connect"}}

\* Everybody with a user row is signed in, and no tenant was made in vain.
AllSignedIn ==
  /\ \A e \in Emails : users[e] # NONE => \E token \in tokens : token.email = e
  /\ \A t \in tenants : \E e \in Emails, r \in Requests : t \in {users[e], call[r].tenant}

Apart ==
  /\ AllSignedIn /\ \A r \in SigningUp : call[r].caller = NONE
  /\ SigningUp # {} => Connecting = {} /\ \E r \in Requests : SigningUp = {r}

WorkspaceSpec ==
  /\ scene \in {"people", "imports", "connects"}
  /\ Init
  /\ [][/\ Next
        /\ UNCHANGED scene
        /\ scene = "people" => Connecting' = {} /\ UNCHANGED connVars
        /\ scene = "imports" => Apart' /\ \A r \in Requests : ~call'[r].named
        /\ scene = "connects" => Apart' /\ UNCHANGED pickers]_<<scene, vars>>
=============================================================================
