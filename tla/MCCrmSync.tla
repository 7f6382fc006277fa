----------------------------- MODULE MCCrmSync -----------------------------
(***************************************************************************)
(* Small instances of CrmSync: pipelines of three stages, one or two CRMs. *)
(***************************************************************************)
EXTENDS CrmSync, TLC

CONSTANTS e1, e2, k1, bx, amo, fresh, paid, junk

\* Everything is kept by bx, except e2 when there are two CRMs.
MCHomeOf == [x \in Deals \cup Contacts |-> IF x = e2 /\ amo \in Conns THEN amo ELSE bx]

\* The user mapped the paid and the lost stage, the first stage has no mapping.
MCMapped == [c \in Conns |-> [s \in Stages |->
              IF s = paid THEN "WON" ELSE IF s = junk THEN "LOST" ELSE NONE]]

MCNoMapping == [c \in Conns |-> [s \in Stages |-> NONE]]

MCNoDtos == {}

\* The user maps the pipeline, or calls one more stage qualified.
MCDtos == {{<<paid, "WON">>, <<fresh, "LOST">>}, {<<fresh, "QUALIFIED">>}}

\* The user maps the paid stage of another pipeline.
MCOneStage == {{<<paid, "QUALIFIED">>}}

\* Two users disagree about the paid stage.
MCDisagree == {{<<paid, "QUALIFIED">>}, {<<paid, "WON">>}}

\* With one CRM, deals are interchangeable.
MCDealSymmetry == Permutations(Deals)
=============================================================================
