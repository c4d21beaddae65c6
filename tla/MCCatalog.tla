-------------------------------- MODULE MCCatalog --------------------------------
(***************************************************************************)
(* The catalog at both ends, for TLC: the tracker of its revision in the   *)
(* engine, or the store of the Mocks page that follows it.  They share no  *)
(* state, so subject is chosen once and the state spaces add up.  For the  *)
(* tracker: an endpoint file that lists a response file or does not, and a *)
(* response file that may be unreadable.                                   *)
(***************************************************************************)
EXTENDS CatalogRevision, CatalogStore

CONSTANTS Subjects, absent, coll, endpoint, response, v1, v2, gone, unreadable, e1, e2

RefsDef == [f \in {coll, endpoint, response} |-> [c \in {v1, v2, gone, unreadable} |->
              IF f = endpoint /\ c = v2 THEN {response} ELSE {}]]
StartDef == {[f \in {coll, endpoint, response} |->
                IF f = coll THEN absent
                ELSE [content |-> IF f = endpoint THEN v2 ELSE v1, stamp |-> 0]]}
HoldsDef == [f \in {coll, endpoint, response} |->
               CASE f = coll -> {} [] f = endpoint -> {v1, v2} [] f = response -> {v1, unreadable}]
DetailDef == {{endpoint, response}}

B(changes, failures, window, acts, total) ==
  [changes |-> changes, failures |-> failures, window |-> window, acts |-> acts, total |-> total]
CatalogBudgetDef == B(2, 1, 1, 1, 2)
StaleBudgetDef == B(1, 0, 0, 1, 2)

VARIABLE subject

\* The values of what is not the subject: the store was just opened, the tracker idle.
MCInit ==
  /\ subject \in Subjects /\ Init /\ InitCatalog
  /\ subject = "tracker" => ui.sel.id = e1

MCNext ==
  /\ UNCHANGED subject
  /\ \/ subject = "tracker" /\ Next /\ UNCHANGED catalogVars
     \/ subject = "store" /\ CatalogStep /\ UNCHANGED vars

MCSpec == MCInit /\ [][MCNext]_<<vars, catalogVars, subject>>
MCFairSpec == MCSpec /\ CatalogFairness
==============================================================================
