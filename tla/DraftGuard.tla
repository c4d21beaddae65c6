------------------------------- MODULE DraftGuard -------------------------------
(***************************************************************************)
(* The draft of a variant: DraftGuard                                      *)
(* (mockxy-ui/src/app/pages/mocks-next/draft-conflict/draft-guard.ts), how *)
(* the detail of the page feeds it, and the revision the engine compares   *)
(* before it writes (src/src/admin/revision-tokens.js).  A draft keeps the *)
(* variant and the revision it was opened on; everything that is read      *)
(* later only tells it that they changed.                                  *)
(*                                                                         *)
(* A revision stands for the workspace, the variant and the content it is  *)
(* computed from.  One endpoint, with the same id in every workspace; its  *)
(* detail is read again by RuntimeSync, which is not modelled here: a read *)
(* may begin at any time.                                                  *)
(***************************************************************************)
EXTENDS Integers, FiniteSets

CONSTANTS Variants,
          Texts,        \* what files contain, drafts apart
          Deleted,      \* the content of a variant that is not there
          NoRevision,
          DraftBudget   \* [changes, drafts, saves, reads, total]

VARIABLES disk, page, draft, drafts   \* drafts: what is left of the budget

draftVars == <<disk, page, draft, drafts>>

Revision(d, v) == [ws |-> d.ws, variant |-> v, content |-> d.files[v]]
There(d, v) == d.files[v] # Deleted

NoDraft == [open |-> FALSE, text |-> 0, variant |-> CHOOSE v \in Variants : TRUE,
            base |-> NoRevision, conflict |-> FALSE, missing |-> FALSE, blocked |-> FALSE,
            remote |-> NoRevision, changed |-> FALSE]

\* The detail: the selected variant with its revision, and the variants that exist.
DetailNow(d) == [ws |-> d.ws, selected |-> d.selected, revision |-> Revision(d, d.selected),
                 listed |-> {v \in Variants : There(d, v)}]

\* seen, written and refused are history: the revisions the user was shown for the open
\* draft, the drafts the engine wrote, the drafts it answered with a conflict; wrong is
\* set when one is closed as saved and was not, blind when content nobody saw is replaced.
InitDraft ==
  /\ disk = [ws |-> "A", files |-> [v \in Variants |-> CHOOSE t \in Texts : TRUE],
             selected |-> CHOOSE v \in Variants : TRUE]
  /\ page = [detail |-> DetailNow(disk), gone |-> FALSE, stale |-> FALSE, reads |-> {},
             saves |-> {}, texts |-> 0, seen |-> {}, written |-> {}, refused |-> {},
             wrong |-> FALSE, blind |-> FALSE]
  /\ draft = NoDraft /\ drafts = DraftBudget

SpendDraft(what) ==
  /\ drafts[what] > 0 /\ drafts.total > 0
  /\ drafts' = [drafts EXCEPT ![what] = @ - 1, !.total = @ - 1]

---------------------------------------------------------------------------------
\* DraftGuard.

\* open(target): a draft of a resource already known as gone, or of another workspace,
\* cannot be saved.
OpenDraft ==
  /\ ~draft.open /\ SpendDraft("drafts") /\ UNCHANGED disk
  /\ LET d == page.detail
     IN /\ draft' = [NoDraft EXCEPT !.open = TRUE, !.text = page.texts + 1, !.variant = d.selected,
                       !.base = d.revision, !.blocked = page.stale, !.missing = ~page.stale /\ page.gone]
        /\ page' = [page EXCEPT !.texts = @ + 1, !.seen = {d.revision}]
\* close() by the user; the reads of the draft are dropped (reset).
OwnReads(p) == {r \in p.reads : r.kind # "detail"}
CancelDraft ==
  /\ draft.open /\ draft' = NoDraft
  /\ page' = [page EXCEPT !.reads = @ \ OwnReads(page)] /\ UNCHANGED <<disk, drafts>>

\* Mutant: a revision read later silently becomes the base.
ObserveVersion_Rebase(g, rev) == [g EXCEPT !.base = rev, !.changed = FALSE]
\* observe(version): the base stays; the version shown beside the draft follows.
ObserveVersion(g, rev) ==
  [g EXCEPT !.changed = rev # g.base,
            !.remote = IF @ # NoRevision THEN rev ELSE @]
\* The user sees the remote version of the panel.
Seeing(p, g) == [p EXCEPT !.seen = IF g.remote = NoRevision THEN @ ELSE @ \cup {g.remote}]

\* observeVariantDraft: what the detail on the page says of the target of the draft.
ObserveDetail(g, d, gone, stale) ==
  IF ~g.open THEN g
  ELSE IF stale THEN [g EXCEPT !.blocked = TRUE]
  ELSE IF gone THEN [g EXCEPT !.missing = TRUE]
  ELSE IF g.variant = d.selected THEN ObserveVersion(g, d.revision)
  ELSE IF g.variant \notin d.listed THEN [g EXCEPT !.missing = TRUE] ELSE g

\* saveWith: on the variant of the draft, over its base or over the version shown ("save
\* mine"); one save of the endpoint at a time.
Save(rev) ==
  /\ draft.open /\ ~draft.missing /\ ~draft.blocked /\ page.saves = {}
  /\ rev = draft.base \/ (rev = draft.remote /\ rev # NoRevision)
  /\ SpendDraft("saves")
  /\ page' = [page EXCEPT !.saves = {[at |-> "sent", text |-> draft.text, variant |-> draft.variant,
                                      rev |-> rev, seen |-> page.seen,
                                      detail |-> page.detail, late |-> FALSE]}]
  /\ UNCHANGED <<disk, draft>>
\* compare(), confirmReload() (kind "compare", "reload": the previous one is dropped) and
\* recheck() (one at a time, none while the others load).
Load(kind) ==
  /\ draft.open /\ SpendDraft("reads")
  /\ kind = "recheck" => OwnReads(page) = {} /\ page.detail.selected # draft.variant
  /\ LET dropped == IF kind = "recheck" THEN {} ELSE {r \in page.reads : r.kind \in {"compare", "reload"}}
     IN page' = [page EXCEPT !.reads = (@ \ dropped) \cup
                   {[kind |-> kind, at |-> "sent", text |-> draft.text, rev |-> NoRevision,
                     detail |-> page.detail, late |-> FALSE]}]
  /\ UNCHANGED <<disk, draft>>
\* The detail is read again (syncRefresh).
ReadDetail ==
  /\ \A r \in page.reads : r.kind # "detail"
  /\ SpendDraft("reads") /\ UNCHANGED <<disk, draft>>
  /\ page' = [page EXCEPT !.reads = @ \cup
                {[kind |-> "detail", at |-> "sent", text |-> 0, rev |-> NoRevision,
                  detail |-> page.detail, late |-> FALSE]}]

---------------------------------------------------------------------------------
\* The engine.

\* Mutant: a save without its precondition.
Accepts_Always(d, s) == There(d, s.variant)
\* assertResponseRevision, in the queue of the writes: the revision is computed again.
Accepts(d, s) == There(d, s.variant) /\ Revision(d, s.variant) = s.rev
AnswerSave(s) ==
  /\ s.at = "sent" /\ UNCHANGED <<draft, drafts>>
  /\ LET at == IF Accepts(disk, s) THEN "done"
               ELSE IF There(disk, s.variant) THEN "conflict" ELSE "missing"
     IN /\ disk' = IF at = "done" THEN [disk EXCEPT !.files[s.variant] = s.text] ELSE disk
        /\ page' = [page EXCEPT
             !.saves = {[s EXCEPT !.at = at, !.detail = DetailNow(disk')]},
             !.blind = @ \/ (at = "done" /\ Revision(disk, s.variant) \notin s.seen),
             !.written = IF at = "done" THEN @ \cup {s.text} ELSE @,
             !.refused = IF at = "conflict" THEN @ \cup {s.text} ELSE @]
AnswerDraftRead(r) ==
  /\ r.at = "sent" /\ UNCHANGED <<disk, draft, drafts>>
  /\ LET v == draft.variant
         new == IF r.kind = "detail" THEN [r EXCEPT !.at = "done", !.detail = DetailNow(disk)]
                ELSE IF There(disk, v) THEN [r EXCEPT !.at = "done", !.rev = Revision(disk, v)]
                ELSE [r EXCEPT !.at = "missing"]
     IN page' = [page EXCEPT !.reads = (@ \ {r}) \cup {new}]
\* An agent, another window, the disk: a file, the selection, or a new workspace.
DiskChanged ==
  /\ SpendDraft("changes") /\ UNCHANGED <<page, draft>>
  /\ \/ \E v \in Variants, t \in Texts \cup {Deleted} :
          /\ t = Deleted => v # disk.selected
          /\ disk' = [disk EXCEPT !.files[v] = t]
     \/ \E v \in Variants : There(disk, v) /\ disk' = [disk EXCEPT !.selected = v]
     \/ disk' = [disk EXCEPT !.ws = IF @ = "A" THEN "B" ELSE "A"]

---------------------------------------------------------------------------------
\* What an answer does.

\* Mutant: the outcome of a save counts for whatever draft is open.
Mine_Any(g, text) == g.open
\* The generation: an answer counts for the draft it was asked for.
Mine(g, text) == g.open /\ g.text = text

\* The store shows what came with the answer (applyMutationDetail), but not after a
\* change of workspace (sameWorkspace); then the page sees the new detail.
EndSave(s) ==
  /\ s.at # "sent" /\ UNCHANGED <<disk, drafts>>
  /\ LET mine == ~s.late /\ Mine(draft, s.text)
         closes == mine /\ s.at = "done"
         shows == ~s.late /\ s.at = "done"
         told == IF closes THEN NoDraft
                 ELSE IF shows THEN ObserveDetail(draft, s.detail, FALSE, page.stale)
                 ELSE IF ~mine THEN draft
                 ELSE IF s.at = "conflict" THEN [draft EXCEPT !.conflict = TRUE, !.remote = NoRevision]
                 ELSE [draft EXCEPT !.missing = TRUE]
     IN /\ draft' = told
        /\ page' = Seeing([page EXCEPT !.saves = {},
                      !.detail = IF shows THEN s.detail ELSE @, !.gone = @ /\ ~shows,
                      !.reads = IF closes THEN @ \ OwnReads(page) ELSE @,
                      !.wrong = @ \/ (closes /\ draft.text \notin page.written)], told)
EndLoad(r) ==
  /\ r.kind # "detail" /\ r.at # "sent" /\ UNCHANGED <<disk, drafts>>
  /\ \E unsupported \in BOOLEAN :
       LET reloads == r.kind = "reload" /\ ~unsupported
           told == IF r.at = "missing" THEN [draft EXCEPT !.missing = TRUE]
                   ELSE IF r.kind = "recheck" THEN ObserveVersion(draft, r.rev)
                   ELSE IF reloads
                   THEN [draft EXCEPT !.base = r.rev, !.conflict = FALSE, !.remote = NoRevision, !.changed = FALSE]
                   ELSE [draft EXCEPT !.remote = r.rev]
       IN /\ r.kind # "reload" \/ r.at = "missing" => ~unsupported
          /\ draft' = told
          /\ page' = Seeing([page EXCEPT !.reads = @ \ {r},
                               !.seen = IF reloads /\ r.at = "done" THEN {r.rev} ELSE @], told)
\* A detail read before a change of workspace the page knows of is dropped.
EndDetail(r) ==
  /\ r.kind = "detail" /\ r.at # "sent" /\ UNCHANGED <<disk, drafts>>
  /\ LET shown == IF r.late \/ page.stale THEN page.detail ELSE r.detail
         told == ObserveDetail(draft, shown, page.gone, page.stale)
     IN /\ draft' = told
        /\ page' = Seeing([page EXCEPT !.reads = @ \ {r}, !.detail = shown], told)
\* onWorkspaceChanged: what is open stays, of the workspace before, and is blocked.
TellWorkspace ==
  /\ disk.ws # page.detail.ws /\ ~page.stale /\ UNCHANGED <<disk, drafts>>
  /\ draft' = ObserveDetail(draft, page.detail, FALSE, TRUE)
  /\ page' = [page EXCEPT !.stale = TRUE, !.gone = FALSE,
                !.reads = {[r EXCEPT !.late = TRUE] : r \in @},
                !.saves = {[s EXCEPT !.late = TRUE] : s \in @}]
\* The user opens the endpoint of the new workspace: the draft of the one before falls.
OpenAgain ==
  /\ page.stale /\ UNCHANGED <<disk, drafts>>
  /\ draft' = NoDraft
  /\ page' = [page EXCEPT !.stale = FALSE, !.gone = FALSE, !.detail = DetailNow(disk),
                          !.reads = @ \ OwnReads(page)]
\* The catalog does not list the endpoint any more, or again.
TellGone(gone) ==
  /\ page.gone # gone /\ ~page.stale /\ UNCHANGED <<disk, drafts>>
  /\ page' = [page EXCEPT !.gone = gone]
  /\ draft' = ObserveDetail(draft, page.detail, gone, FALSE)

\* The network: an error is shown, the draft stays as it is.
LoseRequest ==
  /\ UNCHANGED <<disk, draft, drafts>>
  /\ \/ page.saves # {} /\ page' = [page EXCEPT !.saves = {}]
     \/ \E r \in page.reads : r.at = "sent" /\ page' = [page EXCEPT !.reads = @ \ {r}]

DraftStep ==
  \/ OpenDraft \/ CancelDraft \/ ReadDetail \/ DiskChanged \/ TellWorkspace \/ OpenAgain
  \/ LoseRequest
  \/ \E rev \in {draft.base, draft.remote} : Save(rev)
  \/ \E kind \in {"compare", "reload", "recheck"} : Load(kind)
  \/ \E s \in page.saves : AnswerSave(s) \/ EndSave(s)
  \/ \E r \in page.reads : AnswerDraftRead(r) \/ EndLoad(r) \/ EndDetail(r)
  \/ \E gone \in BOOLEAN : TellGone(gone)

DraftSpec == InitDraft /\ [][DraftStep]_draftVars

---------------------------------------------------------------------------------
\* A save never replaces content the user was not shown for that draft, in that
\* workspace, whatever was read, compared or changed between the opening and the save.
NothingReplacedBlind == ~page.blind

\* An answer never touches a draft it does not belong to: one that is closed as saved was
\* written, one in conflict was refused.
AnswersFindTheirDraft == ~page.wrong /\ (draft.open /\ draft.conflict => draft.text \in page.refused)

\* A draft overwrites nothing that its author has not seen, and only its own answers close it.
DraftSafe == NothingReplacedBlind /\ AnswersFindTheirDraft
==============================================================================
