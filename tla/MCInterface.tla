------------------------------- MODULE MCInterface -------------------------------
(***************************************************************************)
(* The interface, for TLC: one of the stores of the status bar, the draft  *)
(* of a variant, the mocks made from captured traffic, the page of the     *)
(* data files, or the moves in the catalog.                                *)
(* subject is chosen once, as in MCServing.                                *)
(***************************************************************************)
EXTENDS StatusStores, DraftGuard, CaptureBatch, DataPage, CatalogDnd

CONSTANTS Subjects, v1, v2, ta, tb, k1, k2, c1, c2, e1, e2

B(changes, failures, window, acts, total) ==
  [changes |-> changes, failures |-> failures, window |-> window, acts |-> acts, total |-> total]
StatusBudgetDef ==
  [k \in Kinds |-> IF Queues(k) THEN B(1, 1, 1, 1, 3) ELSE B(1, 1, 1, 2, 2)]
DraftBudgetDef == [changes |-> 2, drafts |-> 2, saves |-> 2, reads |-> 2, total |-> 5]
HomeDef == (k1 :> 1) @@ (k2 :> 2)
File1(k, on, variant) ==
  [key |-> k, on |-> on, readable |-> TRUE, variants |-> <<variant>>, selected |-> 1]
HandDef ==
  {<<NoEndpointFile, NoEndpointFile>>,
   <<File1(k1, TRUE, OwnVariant), File1(k1, TRUE, OwnVariant)>>,      \* a duplicate
   <<File1(k1, FALSE, OwnVariant), File1(k2, TRUE, BadVariant)>>,     \* switched off; broken
   <<File1(k2, TRUE, OwnVariant),                                     \* in the place of another
     [File1(k1, TRUE, OwnVariant) EXCEPT !.readable = FALSE]>>}
\* Two files, and the selection of the last visit: none, or one that is gone.
DirsDef == {<<[id |-> 11, text |-> 11], [id |-> 12, text |-> 12]>>}
VisitsDef == {NoName, 3}
DataBudgetDef == [changes |-> 2, selections |-> 1, forms |-> 1, failures |-> 1, total |-> 3]
\* Everything at the top at first: the moves make the rest.
OrdersDef == {[k \in ParentKey |-> IF k = RootOrder THEN <<c1, c2>>
                                   ELSE IF k = UnsortedOrder THEN <<e1, e2>> ELSE <<>>]}

VARIABLE subject

\* The values of what is not the subject: nothing happens there, nothing is expected.
NoBudget == B(0, 0, 0, 0, 0)
NoStore == [kind |-> "server", shown |-> Unknown, reads |-> {}, patches |-> {}, retry |-> FALSE,
            reread |-> FALSE, floor |-> 0, late |-> FALSE, crossed |-> FALSE, early |-> TRUE,
            told |-> FALSE]

MCInit ==
  /\ subject \in Subjects
  /\ IF subject = "status" THEN InitStatus ELSE InitSync(Default, "A", NoBudget) /\ store = NoStore
  /\ InitDraft
  /\ InitBatch /\ (subject = "capture" \/ endpointFile = <<NoEndpointFile, NoEndpointFile>>)
  /\ IF subject = "data" THEN InitData(DirsDef, VisitsDef) ELSE InitData({<< >>}, {NoName})
  /\ InitDnd /\ (subject = "drag" \/ folded = {})

MCNext ==
  /\ UNCHANGED subject
  /\ \/ subject = "status" /\ StatusStep /\ UNCHANGED <<draftVars, batchVars, dataVars, dndVars>>
     \/ subject = "draft" /\ DraftStep /\ UNCHANGED <<syncVars, store, batchVars, dataVars, dndVars>>
     \/ subject = "capture" /\ BatchStep /\ UNCHANGED <<syncVars, store, draftVars, dataVars, dndVars>>
     \/ subject = "data" /\ DataStep /\ UNCHANGED <<syncVars, store, draftVars, batchVars, dndVars>>
     \/ subject = "drag" /\ DndStep /\ UNCHANGED <<syncVars, store, draftVars, batchVars, dataVars>>

MCSpec ==
  /\ MCInit
  /\ [][MCNext]_<<syncVars, store, draftVars, batchVars, dataVars, dndVars, subject>>
  /\ StatusFairness
=================================================================================
