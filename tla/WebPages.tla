------------------------------ MODULE WebPages ------------------------------
(***************************************************************************)
(* The pages of the web application, one scene of a tab each: what one of  *)
(* them does touches no variable of another, so a behaviour is about the   *)
(* scene it starts with, and the others stay as they begin.                *)
(***************************************************************************)
EXTENDS Connections, Reports, StageDialog, ReviewPage

VARIABLE scene

webVars == <<scene, connectionsVars, reportsVars, stageVars, reviewVars>>

\* The scenes that are not played start in one state only.
OneStart ==
  /\ scene # "connections" => key = "crm" /\ row = [r \in Rows |-> "gone"]
  /\ scene # "reports" => screen = "creatives"
  /\ scene # "stages" => mapping = NoCopy
  /\ scene # "review" => lead = [l \in Leads |-> "new"]

WebInit ==
  /\ scene \in {"connections", "reports", "stages", "review"}
  /\ ConnectionsInit /\ ReportsInit /\ StageDialogInit /\ ReviewInit
  /\ OneStart

WebNext ==
  /\ UNCHANGED scene
  /\ \/ /\ scene = "connections" /\ ConnectionsNext
        /\ UNCHANGED <<reportsVars, stageVars, reviewVars>>
     \/ /\ scene = "reports" /\ ReportsNext
        /\ UNCHANGED <<connectionsVars, stageVars, reviewVars>>
     \/ /\ scene = "stages" /\ StageDialogNext
        /\ UNCHANGED <<connectionsVars, reportsVars, reviewVars>>
     \/ /\ scene = "review" /\ ReviewNext
        /\ UNCHANGED <<connectionsVars, reportsVars, stageVars>>

WebSpec ==
  /\ WebInit /\ [][WebNext]_webVars
  /\ scene = "connections" => PollsFire

\* The variables of every page have their types, and a dialog is open only on a
\* page, an account ticked only when it was found, a crumb a child of the last.
WebTypeOK == ConnectionsTypeOK /\ ReportsTypeOK /\ StageDialogTypeOK /\ ReviewTypeOK
=============================================================================
