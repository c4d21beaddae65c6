----------------------------- MODULE InterfaceProofs -----------------------------
(***************************************************************************)
(* Theorems about the pages of the interface: the draft of a variant in    *)
(* the detail page (DraftGuard), the stores of the status bar              *)
(* (StatusStores), the mocks made from captured traffic (CaptureBatch),    *)
(* and the page of the data files (DataPage).                              *)
(* Each part is the inductive invariant the property needs, one lemma per  *)
(* step that keeps it, and the theorem.                                    *)
(***************************************************************************)
EXTENDS StatusStores, DraftGuard, CaptureBatch, DataPage, FiniteSetTheorems, TLAPS

-------------------------------------------------------------------------------
(* The draft of a variant.                                                 *)

PageFields == {"detail", "gone", "stale", "reads", "saves", "texts", "seen", "written", "refused", "wrong", "blind"}
DraftFields == {"open", "text", "variant", "base", "conflict", "missing", "blocked", "remote", "changed"}
GuardTyped(g) ==
  DOMAIN g = DraftFields /\ g.open \in BOOLEAN /\ g.conflict \in BOOLEAN
  /\ g.missing \in BOOLEAN /\ g.blocked \in BOOLEAN
SaveTyped(s) == DOMAIN s = {"at", "text", "variant", "rev", "seen", "detail", "late"}
ReadTyped(r) ==
  DOMAIN r = {"kind", "at", "text", "rev", "detail", "late"} /\ r.at \in {"sent", "done", "missing"}

DraftTyped ==
  /\ DOMAIN page = PageFields /\ page.gone \in BOOLEAN /\ page.stale \in BOOLEAN
  /\ GuardTyped(draft)
  /\ \A s \in page.saves : SaveTyped(s)
  /\ \A r \in page.reads : ReadTyped(r)

\* A draft that can be saved was opened on, and is compared with, what its user was shown;
\* one whose resource has left the catalog cannot be saved any more.
DraftShown ==
  draft.open =>
    /\ draft.base \in page.seen
    /\ page.gone => draft.missing \/ draft.blocked
    /\ draft.remote # NoRevision /\ ~draft.missing /\ ~draft.blocked => draft.remote \in page.seen
    /\ draft.conflict => draft.text \in page.refused

\* A save carries what its user was shown, and its answer what the engine did.
SavesTold ==
  \A s \in page.saves :
    /\ s.at = "sent" => s.rev \in s.seen
    /\ s.at = "done" => s.text \in page.written
    /\ s.at = "conflict" => s.text \in page.refused

DraftInv == DraftTyped /\ DraftShown /\ SavesTold /\ ~page.wrong /\ ~page.blind

\* What the detail says of a draft changes what is shown beside it, and may only stop it.
LEMMA Observed ==
  ASSUME NEW g, GuardTyped(g), NEW d, NEW gone \in BOOLEAN, NEW stale \in BOOLEAN,
         NEW h, h = ObserveDetail(g, d, gone, stale)
  PROVE  /\ GuardTyped(h)
         /\ h.open = g.open /\ h.text = g.text /\ h.base = g.base /\ h.conflict = g.conflict
         /\ g.missing => h.missing
         /\ g.blocked => h.blocked
         /\ g.open /\ gone => h.missing \/ h.blocked
         /\ g.open /\ stale => h.blocked
BY DEF ObserveDetail, ObserveVersion, GuardTyped, DraftFields

\* What the user sees of a draft is kept.
LEMMA SeenType ==
  ASSUME NEW p, DOMAIN p = PageFields, NEW g
  PROVE  /\ DOMAIN Seeing(p, g) = PageFields
         /\ \A f \in PageFields \ {"seen"} : Seeing(p, g)[f] = p[f]
         /\ p.seen \subseteq Seeing(p, g).seen
         /\ g.remote # NoRevision => g.remote \in Seeing(p, g).seen
BY DEF Seeing, PageFields

LEMMA DraftStart == InitDraft => DraftInv
BY DEF InitDraft, DraftInv, DraftTyped, DraftShown, SavesTold, GuardTyped, NoDraft, PageFields, DraftFields,
       ReadTyped, SaveTyped

LEMMA NoDraftType == GuardTyped(NoDraft) /\ ~NoDraft.open
BY DEF GuardTyped, NoDraft, DraftFields

LEMMA OpenDraftKeeps == ASSUME DraftInv, OpenDraft PROVE DraftInv'
<1> USE DEF DraftInv
<1>1. /\ DOMAIN draft' = DraftFields /\ draft'.open /\ draft'.base = page.detail.revision
      /\ draft'.blocked = page.stale /\ draft'.missing = (~page.stale /\ page.gone)
      /\ draft'.conflict = FALSE /\ draft'.remote = NoRevision /\ draft'.open = TRUE
      BY DEF OpenDraft, NoDraft, DraftFields
<1>2. /\ DOMAIN page' = PageFields /\ page'.seen = {page.detail.revision}
      /\ \A f \in PageFields \ {"seen", "texts"} : page'[f] = page[f]
      BY DEF OpenDraft, DraftTyped, PageFields
<1> QED
    BY <1>1, <1>2 DEF DraftTyped, DraftShown, SavesTold, GuardTyped, PageFields

LEMMA CancelKeeps == ASSUME DraftInv, CancelDraft PROVE DraftInv'
<1> USE DEF DraftInv
<1>1. /\ DOMAIN page' = PageFields /\ page'.reads \subseteq page.reads
      /\ \A f \in PageFields \ {"reads"} : page'[f] = page[f]
      BY DEF CancelDraft, DraftTyped, PageFields
<1> QED
    BY <1>1, NoDraftType DEF CancelDraft, DraftTyped, DraftShown, SavesTold, PageFields

LEMMA SaveKeeps == ASSUME DraftInv, NEW rev, Save(rev) PROVE DraftInv'
<1> USE DEF DraftInv
<1>1. PICK s : /\ s = [at |-> "sent", text |-> draft.text, variant |-> draft.variant,
                       rev |-> rev, seen |-> page.seen, detail |-> page.detail, late |-> FALSE]
               /\ page' = [page EXCEPT !.saves = {s}]
      BY DEF Save
<1>2. /\ DOMAIN page' = PageFields /\ page'.saves = {s}
      /\ \A f \in PageFields \ {"saves"} : page'[f] = page[f]
      BY <1>1 DEF DraftTyped, PageFields
<1>3. rev \in page.seen /\ UNCHANGED draft
      BY DEF Save, DraftShown, DraftTyped, GuardTyped
<1> QED
    BY <1>1, <1>2, <1>3 DEF DraftTyped, DraftShown, SavesTold, SaveTyped, PageFields

\* What begins a read.
LEMMA ReadsKeep ==
  ASSUME DraftInv, NEW reads, page' = [page EXCEPT !.reads = reads], UNCHANGED draft,
         \A r \in reads : ReadTyped(r)
  PROVE  DraftInv'
<1> USE DEF DraftInv
<1>1. /\ DOMAIN page' = PageFields /\ page'.reads = reads
      /\ \A f \in PageFields \ {"reads"} : page'[f] = page[f]
      BY DEF DraftTyped, PageFields
<1> QED
    BY <1>1 DEF DraftTyped, DraftShown, SavesTold, PageFields

LEMMA LoadKeeps == ASSUME DraftInv, NEW kind, Load(kind) PROVE DraftInv'
<1>1. PICK r, old : /\ r = [kind |-> kind, at |-> "sent", text |-> draft.text, rev |-> NoRevision,
                            detail |-> page.detail, late |-> FALSE]
                    /\ page' = [page EXCEPT !.reads = (page.reads \ old) \cup {r}]
      BY DEF Load
<1>2. \A t \in (page.reads \ old) \cup {r} : ReadTyped(t)
      BY <1>1 DEF DraftInv, DraftTyped, ReadTyped
<1> QED
    BY <1>1, <1>2, ReadsKeep DEF Load

LEMMA ReadDetailKeeps == ASSUME DraftInv, ReadDetail PROVE DraftInv'
<1>1. PICK r : /\ r = [kind |-> "detail", at |-> "sent", text |-> 0, rev |-> NoRevision,
                       detail |-> page.detail, late |-> FALSE]
               /\ page' = [page EXCEPT !.reads = page.reads \cup {r}]
      BY DEF ReadDetail
<1>2. \A t \in page.reads \cup {r} : ReadTyped(t)
      BY <1>1 DEF DraftInv, DraftTyped, ReadTyped
<1> QED
    BY <1>1, <1>2, ReadsKeep DEF ReadDetail

LEMMA AnswerReadKeeps == ASSUME DraftInv, NEW r \in page.reads, AnswerDraftRead(r) PROVE DraftInv'
<1>1. ReadTyped(r)
      BY DEF DraftInv, DraftTyped
<1>2. PICK new : ReadTyped(new) /\ page' = [page EXCEPT !.reads = (page.reads \ {r}) \cup {new}]
      BY <1>1 DEF AnswerDraftRead, ReadTyped
<1>3. \A t \in (page.reads \ {r}) \cup {new} : ReadTyped(t)
      BY <1>2 DEF DraftInv, DraftTyped
<1> QED
    BY <1>2, <1>3, ReadsKeep DEF AnswerDraftRead

LEMMA LoseKeeps == ASSUME DraftInv, LoseRequest PROVE DraftInv'
<1>1. CASE page' = [page EXCEPT !.saves = {}]
  <2>1. /\ DOMAIN page' = PageFields /\ page'.saves = {}
        /\ \A f \in PageFields \ {"saves"} : page'[f] = page[f]
        BY <1>1 DEF DraftInv, DraftTyped, PageFields
  <2> QED
      BY <2>1 DEF LoseRequest, DraftInv, DraftTyped, DraftShown, SavesTold, PageFields
<1>2. ASSUME NEW r \in page.reads, page' = [page EXCEPT !.reads = page.reads \ {r}] PROVE DraftInv'
  <2>1. \A t \in page.reads \ {r} : ReadTyped(t)
        BY DEF DraftInv, DraftTyped
  <2> QED
      BY <1>2, <2>1, ReadsKeep DEF LoseRequest
<1> QED
    BY <1>1, <1>2 DEF LoseRequest

\* The engine writes over the revision of the save, which its user was shown.
LEMMA AnswerSaveKeeps == ASSUME DraftInv, NEW s \in page.saves, AnswerSave(s) PROVE DraftInv'
<1> USE DEF DraftInv
<1>1. PICK at, t :
        /\ at = IF Accepts(disk, s) THEN "done" ELSE IF There(disk, s.variant) THEN "conflict" ELSE "missing"
        /\ t = [s EXCEPT !.at = at, !.detail = DetailNow(disk')]
        /\ page' = [page EXCEPT
             !.saves = {t},
             !.blind = @ \/ (at = "done" /\ Revision(disk, s.variant) \notin s.seen),
             !.written = IF at = "done" THEN @ \cup {s.text} ELSE @,
             !.refused = IF at = "conflict" THEN @ \cup {s.text} ELSE @]
        /\ s.at = "sent" /\ UNCHANGED draft
      BY DEF AnswerSave
<1>2. /\ DOMAIN page' = PageFields /\ page'.saves = {t}
      /\ page'.blind = (page.blind \/ (at = "done" /\ Revision(disk, s.variant) \notin s.seen))
      /\ page'.written = IF at = "done" THEN page.written \cup {s.text} ELSE page.written
      /\ page'.refused = IF at = "conflict" THEN page.refused \cup {s.text} ELSE page.refused
      /\ \A f \in PageFields \ {"saves", "blind", "written", "refused"} : page'[f] = page[f]
      BY <1>1 DEF DraftTyped, PageFields
<1>3. SaveTyped(t) /\ t.at = at /\ t.text = s.text
      BY <1>1 DEF DraftTyped, SaveTyped
<1>4. at = "done" => Revision(disk, s.variant) \in s.seen
      BY <1>1 DEF Accepts, SavesTold
<1>5. ~page'.blind
  <2>1. page'.blind = (page.blind \/ (at = "done" /\ Revision(disk, s.variant) \notin s.seen))
        BY <1>2
  <2> QED
      BY <2>1, <1>4, Zenon
<1>6. SavesTold'
  <2>1. at \in {"done", "conflict", "missing"}
        BY <1>1
  <2> QED
      BY <2>1, <1>2, <1>3 DEF SavesTold
<1>7. DraftTyped'
      BY <1>1, <1>2, <1>3, <1>5 DEF DraftTyped, PageFields
<1>8. DraftShown'
      BY <1>1, <1>2 DEF DraftShown, PageFields
<1> QED
    BY <1>2, <1>5, <1>6, <1>7, <1>8 DEF PageFields

\* The answer of a save counts for the draft that asked for it.
LEMMA EndSaveKeeps == ASSUME DraftInv, NEW s \in page.saves, EndSave(s) PROVE DraftInv'
<1> USE DEF DraftInv
<1>1. PICK mine \in BOOLEAN, closes \in BOOLEAN, shows \in BOOLEAN :
        /\ mine <=> ~s.late /\ Mine(draft, s.text)
        /\ closes <=> mine /\ s.at = "done"
        /\ shows <=> ~s.late /\ s.at = "done"
      OBVIOUS
<1>2. /\ s.at # "sent"
      /\ draft' = IF closes THEN NoDraft
                  ELSE IF shows THEN ObserveDetail(draft, s.detail, FALSE, page.stale)
                  ELSE IF ~mine THEN draft
                  ELSE IF s.at = "conflict" THEN [draft EXCEPT !.conflict = TRUE, !.remote = NoRevision]
                  ELSE [draft EXCEPT !.missing = TRUE]
      BY <1>1 DEF EndSave
<1>3. PICK p :
        /\ p = [page EXCEPT !.saves = {}, !.detail = IF shows THEN s.detail ELSE @, !.gone = @ /\ ~shows,
                            !.reads = IF closes THEN @ \ OwnReads(page) ELSE @,
                            !.wrong = @ \/ (closes /\ draft.text \notin page.written)]
        /\ page' = Seeing(p, draft')
      BY <1>1 DEF EndSave
<1>4. /\ DOMAIN p = PageFields /\ p.saves = {} /\ p.reads \subseteq page.reads
      /\ p.gone = (page.gone /\ ~shows) /\ p.wrong = (page.wrong \/ (closes /\ draft.text \notin page.written))
      /\ \A f \in PageFields \ {"saves", "detail", "gone", "reads", "wrong"} : p[f] = page[f]
      BY <1>3 DEF DraftTyped, PageFields
<1>5. /\ DOMAIN page' = PageFields /\ \A f \in PageFields \ {"seen"} : page'[f] = p[f]
      /\ page.seen \subseteq page'.seen
      /\ draft'.remote # NoRevision => draft'.remote \in page'.seen
  <2>1. page.seen = p.seen
        BY <1>4 DEF PageFields
  <2>2. page' = Seeing(p, draft') /\ DOMAIN p = PageFields
        BY <1>3, <1>4
  <2> QED
      BY <2>1, <2>2, SeenType
<1>6. closes => draft.text = s.text /\ s.text \in page.written
      BY <1>1 DEF Mine, SavesTold
<1>7. ~page'.wrong
  <2>1. ~p.wrong
        BY <1>4, <1>6, Zenon
  <2> QED
      BY <1>5, <2>1 DEF PageFields
<1>8. GuardTyped(draft) /\ page.stale \in BOOLEAN /\ page.gone \in BOOLEAN
      BY DEF DraftTyped
<1>9. /\ GuardTyped(draft')
      /\ draft'.open => /\ draft.open /\ draft'.base = draft.base /\ draft'.text = draft.text
                        /\ draft.missing => draft'.missing
                        /\ draft.blocked => draft'.blocked
                        /\ draft'.conflict => draft.conflict \/ (draft.text = s.text /\ s.at = "conflict")
  <2>1. CASE closes
        BY <2>1, <1>2, NoDraftType
  <2>2. CASE ~closes /\ shows
    <3>1. PICK no \in BOOLEAN : no = FALSE
          OBVIOUS
    <3>2. draft' = ObserveDetail(draft, s.detail, no, page.stale)
          BY <3>1, <2>2, <1>2
    <3> QED
        BY <3>2, <1>8, Observed
  <2>3. CASE ~closes /\ ~shows
        BY <2>3, <1>1, <1>2, <1>8 DEF GuardTyped, DraftFields, Mine
  <2> QED
      BY <2>1, <2>2, <2>3
<1>10. DraftTyped'
  <2>1. /\ page'.gone \in BOOLEAN /\ page'.stale \in BOOLEAN /\ page'.saves = {}
        /\ page'.reads \subseteq page.reads /\ page'.blind = page.blind
        BY <1>4, <1>5, <1>8 DEF PageFields
  <2> QED
      BY <2>1, <1>5, <1>7, <1>9 DEF DraftTyped
<1>11. DraftShown'
  <2>1. page'.gone => page.gone
        BY <1>4, <1>5, <1>8 DEF PageFields
  <2>2. page'.refused = page.refused
        BY <1>4, <1>5 DEF PageFields
  <2>3. s.at = "conflict" => s.text \in page.refused
        BY DEF SavesTold
  <2> SUFFICES ASSUME draft'.open PROVE DraftShown'
      BY DEF DraftShown
  <2>4. /\ draft.open /\ draft'.base = draft.base /\ draft'.text = draft.text
        /\ draft.missing => draft'.missing
        /\ draft.blocked => draft'.blocked
        /\ draft'.conflict => draft.conflict \/ (draft.text = s.text /\ s.at = "conflict")
        BY <1>9
  <2>5. /\ draft.base \in page.seen /\ (page.gone => draft.missing \/ draft.blocked)
        /\ draft.conflict => draft.text \in page.refused
        BY <2>4 DEF DraftShown
  <2>6. draft'.base \in page'.seen /\ (draft'.conflict => draft'.text \in page'.refused)
        BY <2>2, <2>3, <2>4, <2>5, <1>5
  <2>7. page'.gone => draft'.missing \/ draft'.blocked
        BY <2>1, <2>4, <2>5
  <2> QED
      BY <2>6, <2>7, <1>5 DEF DraftShown
<1>12. SavesTold' /\ ~page'.blind
      BY <1>4, <1>5 DEF SavesTold, PageFields
<1> QED
    BY <1>7, <1>10, <1>11, <1>12

\* What the page has read, and told the draft of it.
LEMMA ToldKeeps ==
  ASSUME DraftInv, NEW p, DOMAIN p = PageFields,
         \A f \in PageFields \ {"reads", "detail", "seen"} : p[f] = page[f],
         p.reads \subseteq page.reads,
         page' = Seeing(p, draft'),
         GuardTyped(draft'), draft'.open = draft.open, draft'.text = draft.text,
         draft'.conflict => draft.conflict,
         draft.missing => draft'.missing, draft.blocked => draft'.blocked,
         \/ draft'.base = draft.base /\ page.seen \subseteq p.seen
         \/ draft'.base \in p.seen
  PROVE  DraftInv'
<1> USE DEF DraftInv
<1>1. /\ DOMAIN page' = PageFields /\ \A f \in PageFields \ {"seen"} : page'[f] = p[f]
      /\ p.seen \subseteq page'.seen
      /\ draft'.remote # NoRevision => draft'.remote \in page'.seen
      BY SeenType
<1>2. \A f \in PageFields \ {"reads", "detail", "seen"} : page'[f] = page[f]
      BY <1>1
<1>3. page'.reads \subseteq page.reads
      BY <1>1 DEF PageFields
<1>4. DraftTyped' /\ SavesTold' /\ ~page'.wrong /\ ~page'.blind
      BY <1>1, <1>2, <1>3 DEF DraftTyped, SavesTold, PageFields
<1>5. page'.gone = page.gone /\ page'.refused = page.refused
      BY <1>2 DEF PageFields
<1> QED
    BY <1>1, <1>4, <1>5 DEF DraftShown

LEMMA EndLoadKeeps == ASSUME DraftInv, NEW r \in page.reads, EndLoad(r) PROVE DraftInv'
<1>1. /\ ReadTyped(r) /\ GuardTyped(draft) /\ DOMAIN page = PageFields
      BY DEF DraftInv, DraftTyped
<1>2. PICK unsupported, reloads, p :
        /\ unsupported \in BOOLEAN /\ reloads \in BOOLEAN
        /\ reloads <=> r.kind = "reload" /\ ~unsupported
        /\ r.at = "missing" => ~unsupported
        /\ r.at # "sent"
        /\ draft' = IF r.at = "missing" THEN [draft EXCEPT !.missing = TRUE]
                    ELSE IF r.kind = "recheck" THEN ObserveVersion(draft, r.rev)
                    ELSE IF reloads
                    THEN [draft EXCEPT !.base = r.rev, !.conflict = FALSE, !.remote = NoRevision, !.changed = FALSE]
                    ELSE [draft EXCEPT !.remote = r.rev]
        /\ p = [page EXCEPT !.reads = @ \ {r}, !.seen = IF reloads /\ r.at = "done" THEN {r.rev} ELSE @]
        /\ page' = Seeing(p, draft')
      BY DEF EndLoad
<1>3. /\ DOMAIN p = PageFields /\ p.reads \subseteq page.reads
      /\ p.seen = IF reloads /\ r.at = "done" THEN {r.rev} ELSE page.seen
      /\ \A f \in PageFields \ {"reads", "detail", "seen"} : p[f] = page[f]
      BY <1>1, <1>2 DEF PageFields
<1>4. /\ GuardTyped(draft') /\ draft'.open = draft.open /\ draft'.text = draft.text
      /\ draft'.conflict => draft.conflict
      /\ draft.missing => draft'.missing
      /\ draft.blocked => draft'.blocked
      /\ draft'.base = IF reloads /\ r.at = "done" /\ r.kind # "recheck" THEN r.rev ELSE draft.base
      BY <1>1, <1>2 DEF GuardTyped, DraftFields, ObserveVersion, ReadTyped
<1>5. \/ draft'.base = draft.base /\ page.seen \subseteq p.seen
      \/ draft'.base \in p.seen
      BY <1>2, <1>3, <1>4
<1> QED
    BY <1>2, <1>3, <1>4, <1>5, ToldKeeps

LEMMA EndDetailKeeps == ASSUME DraftInv, NEW r \in page.reads, EndDetail(r) PROVE DraftInv'
<1>1. /\ GuardTyped(draft) /\ DOMAIN page = PageFields /\ page.gone \in BOOLEAN /\ page.stale \in BOOLEAN
      BY DEF DraftInv, DraftTyped
<1>2. PICK shown, p :
        /\ draft' = ObserveDetail(draft, shown, page.gone, page.stale)
        /\ p = [page EXCEPT !.reads = @ \ {r}, !.detail = shown]
        /\ page' = Seeing(p, draft')
      BY DEF EndDetail
<1>3. /\ DOMAIN p = PageFields /\ p.reads \subseteq page.reads /\ p.seen = page.seen
      /\ \A f \in PageFields \ {"reads", "detail", "seen"} : p[f] = page[f]
      BY <1>1, <1>2 DEF PageFields
<1>4. /\ GuardTyped(draft') /\ draft'.open = draft.open /\ draft'.text = draft.text
      /\ draft'.conflict => draft.conflict
      /\ draft.missing => draft'.missing
      /\ draft.blocked => draft'.blocked
      /\ draft'.base = draft.base
      BY <1>1, <1>2, Observed
<1> QED
    BY <1>2, <1>3, <1>4, ToldKeeps

LEMMA WorkspaceKeeps == ASSUME DraftInv, TellWorkspace PROVE DraftInv'
<1> USE DEF DraftInv
<1>1. /\ draft' = ObserveDetail(draft, page.detail, FALSE, TRUE) /\ GuardTyped(draft)
      BY DEF TellWorkspace, DraftTyped
<1>2. /\ GuardTyped(draft') /\ draft'.open = draft.open /\ draft'.text = draft.text
      /\ draft'.conflict = draft.conflict /\ draft'.base = draft.base
      /\ draft.open => draft'.blocked
      BY <1>1 DEF ObserveDetail, GuardTyped, DraftFields
<1>3. /\ DOMAIN page' = PageFields /\ page'.stale = TRUE /\ page'.gone = FALSE
      /\ page'.reads = {[r EXCEPT !.late = TRUE] : r \in page.reads}
      /\ page'.saves = {[s EXCEPT !.late = TRUE] : s \in page.saves}
      /\ \A f \in PageFields \ {"stale", "gone", "reads", "saves"} : page'[f] = page[f]
      BY DEF TellWorkspace, DraftTyped, PageFields
<1>4. \A s \in page.saves : LET t == [s EXCEPT !.late = TRUE] IN
        SaveTyped(t) /\ t.at = s.at /\ t.rev = s.rev /\ t.seen = s.seen /\ t.text = s.text
      BY DEF DraftTyped, SaveTyped
<1>5. ASSUME NEW r \in page.reads PROVE ReadTyped([r EXCEPT !.late = TRUE])
  <2>1. ReadTyped(r)
        BY DEF DraftTyped
  <2> QED
      BY <2>1 DEF ReadTyped
<1>6. SavesTold'
  <2> SUFFICES ASSUME NEW t \in page'.saves
               PROVE  /\ t.at = "sent" => t.rev \in t.seen
                      /\ t.at = "done" => t.text \in page'.written
                      /\ t.at = "conflict" => t.text \in page'.refused
      BY DEF SavesTold
  <2>1. PICK s \in page.saves : t = [s EXCEPT !.late = TRUE]
        BY <1>3
  <2>2. t.at = s.at /\ t.rev = s.rev /\ t.seen = s.seen /\ t.text = s.text
        BY <1>4, <2>1
  <2>3. page'.written = page.written /\ page'.refused = page.refused
        BY <1>3 DEF PageFields
  <2> QED
      BY <2>2, <2>3 DEF SavesTold
<1>7. DraftTyped' /\ ~page'.wrong /\ ~page'.blind
  <2>1. page'.gone \in BOOLEAN /\ page'.stale \in BOOLEAN
        BY <1>3
  <2>2. ~page'.wrong /\ ~page'.blind
        BY <1>3 DEF PageFields
  <2>3. (\A s \in page'.saves : SaveTyped(s)) /\ \A r \in page'.reads : ReadTyped(r)
        BY <1>3, <1>4, <1>5
  <2> QED
      BY <2>1, <2>2, <2>3, <1>2, <1>3 DEF DraftTyped
<1>8. DraftShown'
      BY <1>2, <1>3 DEF DraftShown, PageFields, GuardTyped
<1> QED
    BY <1>6, <1>7, <1>8

LEMMA OpenAgainKeeps == ASSUME DraftInv, OpenAgain PROVE DraftInv'
<1> USE DEF DraftInv
<1>1. /\ DOMAIN page' = PageFields /\ page'.stale = FALSE /\ page'.gone = FALSE
      /\ page'.reads \subseteq page.reads
      /\ \A f \in PageFields \ {"stale", "gone", "reads", "detail"} : page'[f] = page[f]
      BY DEF OpenAgain, DraftTyped, PageFields
<1> QED
    BY <1>1, NoDraftType DEF OpenAgain, DraftTyped, DraftShown, SavesTold, PageFields

LEMMA GoneKeeps == ASSUME DraftInv, NEW gone \in BOOLEAN, TellGone(gone) PROVE DraftInv'
<1> USE DEF DraftInv
<1>1. /\ draft' = ObserveDetail(draft, page.detail, gone, FALSE) /\ GuardTyped(draft)
      BY DEF TellGone, DraftTyped
<1>2. /\ GuardTyped(draft') /\ draft'.open = draft.open /\ draft'.text = draft.text
      /\ draft'.conflict = draft.conflict /\ draft'.base = draft.base
      /\ draft.missing => draft'.missing
      /\ draft.blocked => draft'.blocked
      /\ draft.open /\ gone => draft'.missing \/ draft'.blocked
  <2>1. PICK no \in BOOLEAN : no = FALSE
        OBVIOUS
  <2>2. draft' = ObserveDetail(draft, page.detail, gone, no)
        BY <1>1, <2>1
  <2>3. GuardTyped(draft)
        BY <1>1
  <2> QED
      BY <2>2, <2>3, Observed
<1>3. /\ DOMAIN page' = PageFields /\ page'.gone = gone /\ page.gone # gone
      /\ \A f \in PageFields \ {"gone"} : page'[f] = page[f]
      BY DEF TellGone, DraftTyped, PageFields
<1>4. draft.open /\ ~gone => draft.missing \/ draft.blocked
      BY <1>3 DEF DraftShown, DraftTyped
<1>5. DraftTyped' /\ SavesTold' /\ ~page'.wrong /\ ~page'.blind
      BY <1>2, <1>3 DEF DraftTyped, SavesTold, PageFields
<1>6. DraftShown'
      BY <1>2, <1>3, <1>4 DEF DraftShown, PageFields
<1> QED
    BY <1>5, <1>6

LEMMA DraftKept == ASSUME DraftInv, [DraftStep]_draftVars PROVE DraftInv'
<1>1. CASE DiskChanged \/ UNCHANGED draftVars
      BY <1>1 DEF DiskChanged, draftVars, DraftInv, DraftTyped, DraftShown, SavesTold
<1> QED
    BY <1>1, OpenDraftKeeps, CancelKeeps, ReadDetailKeeps, WorkspaceKeeps, OpenAgainKeeps, LoseKeeps,
       SaveKeeps, LoadKeeps, AnswerSaveKeeps, EndSaveKeeps, AnswerReadKeeps, EndLoadKeeps,
       EndDetailKeeps, GoneKeeps DEF DraftStep

\* A draft overwrites nothing that its author has not seen, and only its own answers close it
\* or put it in conflict (DraftSafe).
THEOREM DraftSafeHolds == DraftSpec => []DraftSafe
<1>1. DraftInv => DraftSafe
      BY DEF DraftInv, DraftShown, DraftSafe, NothingReplacedBlind, AnswersFindTheirDraft
<1> QED
    BY <1>1, DraftStart, DraftKept, PTL DEF DraftSpec

-------------------------------------------------------------------------------
(* The stores of the status bar.                                           *)

StoreFields == {"kind", "shown", "reads", "patches", "retry", "reread", "floor", "late", "crossed", "early", "told"}
EngineFields == {"run", "ws", "content", "ver", "rev", "last"}
StatusRead(r) ==
  /\ DOMAIN r = {"first", "latest", "fresh", "at", "content", "ver"}
  /\ r.latest \in BOOLEAN /\ r.fresh \in BOOLEAN /\ r.at \in {"sent", "answered", "failed"} /\ r.ver \in Nat
StatusPatch(p) ==
  /\ DOMAIN p = {"ch", "at", "previous", "over", "content", "ver"}
  /\ p.at \in {"sent", "answered", "failed"} /\ p.ver \in Nat
StoreTyped(s) ==
  /\ DOMAIN s = StoreFields /\ s.kind \in Kinds /\ s.floor \in Nat
  /\ \A r \in s.reads : StatusRead(r)
  /\ \A p \in s.patches : StatusPatch(p)

\* What is known of the engine is not newer than it; v is its version.
NotAhead(s, v) ==
  /\ s.floor <= v
  /\ \A p \in s.patches : p.at = "answered" => p.ver <= v
  /\ \A r \in s.reads : r.at = "answered" => r.ver <= v

\* Of the reads in flight one at most is shown when it arrives: where reads queue there is
\* no other; elsewhere it is the latest, begun after the changes of the user.  What it
\* brings is not older than what the interface knows.
ReadsOrdered(s) ==
  /\ \A r, q \in s.reads : Queues(s.kind) \/ (r.latest /\ q.latest) => r = q
  /\ \A r \in s.reads : ~Queues(s.kind) /\ s.patches # {} => ~r.fresh
  /\ \A r \in s.reads : r.at = "answered" /\ r.fresh /\ (Queues(s.kind) \/ r.latest) => s.floor <= r.ver

StoreInv(s, v) == StoreTyped(s) /\ NotAhead(s, v) /\ ReadsOrdered(s) /\ ~s.late

StatusInv ==
  /\ DOMAIN engine = EngineFields /\ engine.ver \in Nat
  /\ store.kind = "diagnostics" => store.patches = {}
  /\ StoreInv(store, engine.ver)

\* The engine only gets newer.
LEMMA WrittenNewer ==
  ASSUME NEW e, DOMAIN e = EngineFields, e.ver \in Nat, NEW c
  PROVE  /\ DOMAIN Write(e, c) = EngineFields
         /\ Write(e, c).ver \in Nat /\ e.ver <= Write(e, c).ver
BY DEF Write, ObserveRevision, EngineFields

LEMMA StoreNewer ==
  ASSUME NEW s, NEW v \in Nat, NEW w \in Nat, v <= w, StoreInv(s, v)
  PROVE  StoreInv(s, w)
<1>1. s.floor \in Nat /\ (\A p \in s.patches : p.ver \in Nat) /\ \A r \in s.reads : r.ver \in Nat
      BY DEF StoreInv, StoreTyped, StatusPatch, StatusRead
<1>2. NotAhead(s, w)
      BY <1>1 DEF StoreInv, NotAhead
<1> QED
    BY <1>2 DEF StoreInv

\* A read that begins is the latest, and has nothing to show yet.
LEMMA StartedInv ==
  ASSUME NEW s, NEW v \in Nat, StoreInv(s, v), NEW first,
         Queues(s.kind) => s.reads = {}, ~Queues(s.kind) => s.patches = {}
  PROVE  /\ StoreInv(StartRead(s, first), v)
         /\ StartRead(s, first).kind = s.kind /\ StartRead(s, first).patches = s.patches
<1> DEFINE new == SentRead(first)
<1>1. PICK t : t = StartRead(s, first)
      OBVIOUS
<1>2. /\ DOMAIN t = StoreFields
      /\ t.reads = {[r EXCEPT !.latest = FALSE] : r \in s.reads} \cup {new}
      /\ \A f \in StoreFields \ {"retry", "reads"} : t[f] = s[f]
      BY <1>1 DEF StartRead, StoreInv, StoreTyped, StoreFields
<1>3. t.kind = s.kind /\ t.patches = s.patches /\ t.floor = s.floor /\ t.late = s.late
      BY <1>2 DEF StoreFields
<1>4. StatusRead(new) /\ new.at = "sent" /\ new.latest
      BY DEF SentRead, StatusRead
<1> HIDE DEF new
<1>5. ASSUME NEW r \in s.reads, NEW q, q = [r EXCEPT !.latest = FALSE]
      PROVE  StatusRead(q) /\ ~q.latest /\ q.at = r.at /\ q.ver = r.ver /\ q.fresh = r.fresh
  <2>1. StatusRead(r)
        BY <1>5 DEF StoreInv, StoreTyped
  <2> QED
      BY <2>1, <1>5 DEF StatusRead
<1>6. ASSUME NEW q \in t.reads
      PROVE  /\ StatusRead(q)
             /\ q = new \/ (~q.latest /\ ~Queues(s.kind) /\ \E r \in s.reads : q.at = r.at /\ q.ver = r.ver)
  <2>1. CASE q = new
        BY <2>1, <1>4
  <2>2. ASSUME NEW r \in s.reads, q = [r EXCEPT !.latest = FALSE]
        PROVE  StatusRead(q) /\ ~q.latest /\ ~Queues(s.kind) /\ q.at = r.at /\ q.ver = r.ver
        BY <2>2, <1>5
  <2> QED
      BY <2>1, <2>2, <1>2, <1>6
<1>7. StoreTyped(t)
      BY <1>2, <1>3, <1>6 DEF StoreInv, StoreTyped
<1>8. NotAhead(t, v)
      BY <1>3, <1>4, <1>6 DEF StoreInv, NotAhead
<1>9. ReadsOrdered(t)
      BY <1>3, <1>4, <1>6 DEF StoreInv, ReadsOrdered
<1> QED
    BY <1>1, <1>3, <1>7, <1>8, <1>9 DEF StoreInv

\* A read that is asked for begins or waits.
LEMMA RefreshedInv ==
  ASSUME NEW s, NEW v \in Nat, StoreInv(s, v)
  PROVE  /\ StoreInv(Refresh(s), v)
         /\ Refresh(s).kind = s.kind /\ Refresh(s).patches = s.patches
<1>1. PICK off \in BOOLEAN : off <=> IF Queues(s.kind) THEN s.reads # {} ELSE s.patches # {}
      OBVIOUS
<1>2. CASE off
  <2>1. PICK t : t = [s EXCEPT !.retry = FALSE, !.reread = TRUE]
        OBVIOUS
  <2>2. DOMAIN t = StoreFields /\ \A f \in StoreFields \ {"retry", "reread"} : t[f] = s[f]
        BY <2>1 DEF StoreInv, StoreTyped, StoreFields
  <2>3. t.kind = s.kind /\ t.reads = s.reads /\ t.patches = s.patches /\ t.floor = s.floor /\ t.late = s.late
        BY <2>2 DEF StoreFields
  <2>4. StoreInv(t, v)
        BY <2>2, <2>3 DEF StoreInv, StoreTyped, NotAhead, ReadsOrdered
  <2>5. Refresh(s) = t
        BY <1>1, <1>2, <2>1 DEF Refresh
  <2> QED
      BY <2>3, <2>4, <2>5
<1>3. CASE ~off
  <2>3. PICK no : no = FALSE
        OBVIOUS
  <2>1. Refresh(s) = StartRead(s, no)
        BY <1>1, <1>3, <2>3 DEF Refresh
  <2>2. (Queues(s.kind) => s.reads = {}) /\ (~Queues(s.kind) => s.patches = {})
        BY <1>1, <1>3
  <2> QED
      BY <2>1, <2>2, StartedInv
<1> QED
    BY <1>2, <1>3

\* Fewer reads and patches, other fields but floor and late.
LEMMA LessInv ==
  ASSUME NEW s, NEW v \in Nat, StoreInv(s, v), NEW t,
         DOMAIN t = StoreFields, t.kind = s.kind, t.floor = s.floor, t.late = s.late,
         t.reads \subseteq s.reads, t.patches \subseteq s.patches
  PROVE  StoreInv(t, v)
BY DEF StoreInv, StoreTyped, NotAhead, ReadsOrdered

\* What is shown is not older than what was known.
LEMMA AppliedInv ==
  ASSUME NEW s, NEW v \in Nat, StoreInv(s, v), NEW r \in s.reads,
         r.at = "answered", r.fresh, Queues(s.kind) \/ r.latest,
         NEW rest, rest = [s EXCEPT !.reads = @ \ {r}]
  PROVE  /\ StoreInv(Applied(rest, r), v)
         /\ Applied(rest, r).kind = s.kind /\ Applied(rest, r).patches = s.patches
<1>1. PICK t : t = Applied(rest, r)
      OBVIOUS
<1>2. /\ DOMAIN rest = StoreFields /\ rest.reads = s.reads \ {r}
      /\ \A f \in StoreFields \ {"reads"} : rest[f] = s[f]
      BY DEF StoreInv, StoreTyped, StoreFields
<1>3. rest.kind = s.kind /\ rest.patches = s.patches /\ rest.floor = s.floor /\ rest.late = s.late
      BY <1>2 DEF StoreFields
<1>4. /\ DOMAIN t = StoreFields /\ t.reads = rest.reads /\ t.kind = rest.kind /\ t.patches = rest.patches
      /\ t.floor = (IF r.ver > rest.floor THEN r.ver ELSE rest.floor)
      /\ t.late = (rest.late \/ r.ver < rest.floor)
      BY <1>1, <1>2 DEF Applied, StoreFields
<1>5. StatusRead(r) /\ r.ver \in Nat /\ s.floor \in Nat /\ s.floor <= r.ver /\ r.ver <= v
      BY DEF StoreInv, StoreTyped, StatusRead, NotAhead, ReadsOrdered
<1>6. t.floor = r.ver
      BY <1>3, <1>4, <1>5
<1>7. ~t.late
  <2>1. ~(r.ver < rest.floor)
        BY <1>3, <1>5
  <2>2. ~rest.late
        BY <1>3 DEF StoreInv
  <2> QED
      BY <1>4, <2>1, <2>2, Zenon
<1>8. StoreTyped(t)
      BY <1>2, <1>3, <1>4, <1>5, <1>6 DEF StoreInv, StoreTyped
<1>9. NotAhead(t, v)
      BY <1>2, <1>3, <1>4, <1>5, <1>6 DEF StoreInv, NotAhead
<1>10. ReadsOrdered(t)
  <2>1. \A q \in t.reads : q \in s.reads /\ q # r
        BY <1>2, <1>4
  <2>2. \A q \in t.reads : ~(Queues(s.kind) \/ q.latest)
        BY <2>1 DEF StoreInv, ReadsOrdered
  <2> QED
      BY <2>1, <2>2, <1>3, <1>4 DEF StoreInv, ReadsOrdered
<1> QED
    BY <1>1, <1>3, <1>4, <1>7, <1>8, <1>9, <1>10 DEF StoreInv

\* A read that ended.
LEMMA EndedInv ==
  ASSUME NEW s, NEW v \in Nat, StoreInv(s, v), NEW r \in s.reads, r.at # "sent", NEW t,
         t = IF Queues(s.kind) THEN QueuedRead(s, r) ELSE SettledRead(s, r)
  PROVE  StoreInv(t, v) /\ t.kind = s.kind /\ t.patches = s.patches
<1>1. PICK rest : rest = [s EXCEPT !.reads = @ \ {r}]
      OBVIOUS
<1>2. /\ DOMAIN rest = StoreFields /\ rest.reads = s.reads \ {r}
      /\ \A f \in StoreFields \ {"reads"} : rest[f] = s[f]
      BY <1>1 DEF StoreInv, StoreTyped, StoreFields
<1>3. rest.kind = s.kind /\ rest.patches = s.patches /\ rest.floor = s.floor /\ rest.late = s.late
      BY <1>2 DEF StoreFields
<1>4. StoreInv(rest, v)
      BY <1>2, <1>3, LessInv
<1>5. /\ StoreInv(ReadFailed(rest, r), v)
      /\ ReadFailed(rest, r).kind = s.kind /\ ReadFailed(rest, r).patches = s.patches
  <2>1. PICK u : u = ReadFailed(rest, r)
        OBVIOUS
  <2>2. DOMAIN u = StoreFields /\ \A f \in StoreFields \ {"retry", "shown"} : u[f] = rest[f]
        BY <2>1, <1>2 DEF ReadFailed, StoreFields
  <2>3. /\ u.kind = s.kind /\ u.patches = rest.patches /\ u.floor = rest.floor /\ u.late = rest.late
        /\ u.reads = rest.reads /\ u.kind = rest.kind
        BY <2>2, <1>3 DEF StoreFields
  <2>4. StoreInv(u, v)
        BY <2>2, <2>3, <1>4, LessInv
  <2> QED
      BY <2>1, <2>3, <2>4, <1>3
<1>6. r.at \in {"answered", "failed"}
      BY DEF StoreInv, StoreTyped, StatusRead
<1>7. CASE Queues(s.kind)
  <2>1. PICK done : done = IF r.at = "failed" THEN ReadFailed(rest, r)
                           ELSE IF r.fresh THEN Applied(rest, r) ELSE [rest EXCEPT !.retry = FALSE]
        OBVIOUS
  <2>2. t = IF s.reread THEN Refresh([done EXCEPT !.reread = FALSE]) ELSE done
        BY <1>1, <1>7, <2>1 DEF QueuedRead
  <2>3. StoreInv(done, v) /\ done.kind = s.kind /\ done.patches = s.patches
    <3>1. CASE r.at = "failed"
          BY <3>1, <2>1, <1>5
    <3>2. CASE r.at # "failed" /\ r.fresh
          BY <3>2, <2>1, <1>1, <1>6, <1>7, AppliedInv
    <3>3. CASE r.at # "failed" /\ ~r.fresh
      <4>1. done = [rest EXCEPT !.retry = FALSE]
            BY <3>3, <2>1
      <4>2. DOMAIN done = StoreFields /\ \A f \in StoreFields \ {"retry"} : done[f] = rest[f]
            BY <4>1, <1>2 DEF StoreFields
      <4>3. /\ done.kind = rest.kind /\ done.patches = rest.patches /\ done.floor = rest.floor
            /\ done.late = rest.late /\ done.reads = rest.reads
            BY <4>2 DEF StoreFields
      <4> QED
          BY <4>2, <4>3, <1>3, <1>4, LessInv
    <3> QED
        BY <3>1, <3>2, <3>3
  <2>4. PICK u : u = [done EXCEPT !.reread = FALSE]
        OBVIOUS
  <2>5. DOMAIN u = StoreFields /\ \A f \in StoreFields \ {"reread"} : u[f] = done[f]
        BY <2>3, <2>4 DEF StoreInv, StoreTyped, StoreFields
  <2>6. /\ u.kind = done.kind /\ u.patches = done.patches /\ u.floor = done.floor
        /\ u.late = done.late /\ u.reads = done.reads
        BY <2>5 DEF StoreFields
  <2>7. StoreInv(u, v)
        BY <2>3, <2>5, <2>6, LessInv
  <2>8. StoreInv(Refresh(u), v) /\ Refresh(u).kind = s.kind /\ Refresh(u).patches = s.patches
        BY <2>3, <2>6, <2>7, RefreshedInv
  <2> QED
      BY <2>2, <2>3, <2>4, <2>8
<1>8. CASE ~Queues(s.kind)
  <2>1. t = IF ~r.latest THEN rest
            ELSE IF ~r.fresh \/ s.patches # {} THEN Refresh(rest)
            ELSE IF r.at = "failed" THEN ReadFailed(rest, r) ELSE Applied(rest, r)
        BY <1>1, <1>8 DEF SettledRead
  <2>2. StoreInv(Refresh(rest), v) /\ Refresh(rest).kind = s.kind /\ Refresh(rest).patches = s.patches
        BY <1>3, <1>4, RefreshedInv
  <2>3. CASE r.latest /\ r.fresh /\ s.patches = {} /\ r.at # "failed"
    <3>1. StoreInv(Applied(rest, r), v) /\ Applied(rest, r).kind = s.kind /\ Applied(rest, r).patches = s.patches
          BY <2>3, <1>1, <1>6, AppliedInv
    <3> QED
        BY <2>1, <2>3, <3>1
  <2> QED
      BY <2>1, <2>2, <2>3, <1>3, <1>4, <1>5
<1> QED
    BY <1>7, <1>8

\* A store that other fields than those of the invariant tell apart.
LEMMA SameInv ==
  ASSUME NEW s, NEW v \in Nat, StoreInv(s, v), NEW t, DOMAIN t = StoreFields,
         \A f \in {"kind", "floor", "late", "reads", "patches"} : t[f] = s[f]
  PROVE  StoreInv(t, v) /\ t.kind = s.kind /\ t.patches = s.patches
<1>1. /\ t.kind = s.kind /\ t.floor = s.floor /\ t.late = s.late
      /\ t.reads = s.reads /\ t.patches = s.patches
      OBVIOUS
<1> QED
    BY <1>1, LessInv

LEMMA StatusStarts == InitStatus => StatusInv
<1> SUFFICES ASSUME NEW k \in Kinds, InitSync(Default, "A", StatusBudget[k]),
                    store = [kind |-> k, shown |-> IF k = "server" THEN Default ELSE Unknown,
                             reads |-> {SentRead(k = "dump")}, patches |-> {}, retry |-> FALSE, reread |-> FALSE,
                             floor |-> 0, late |-> FALSE, crossed |-> FALSE, early |-> FALSE, told |-> FALSE]
             PROVE  StatusInv
    BY Zenon DEF InitStatus
<1>1. DOMAIN engine = EngineFields /\ engine.ver \in Nat
      BY DEF InitSync, EngineFields
<1>2. PICK new : new = SentRead(k = "dump")
      OBVIOUS
<1>3. StatusRead(new) /\ new.at = "sent"
      BY <1>2 DEF SentRead, StatusRead
<1>4. StoreTyped(store) /\ store.patches = {} /\ store.reads = {new} /\ ~store.late /\ store.floor = 0
      BY <1>2, <1>3 DEF StoreTyped, StoreFields
<1>5. NotAhead(store, engine.ver) /\ ReadsOrdered(store)
      BY <1>1, <1>3, <1>4 DEF NotAhead, ReadsOrdered
<1> QED
    BY <1>1, <1>4, <1>5 DEF StatusInv, StoreInv

LEMMA AnswerStatusKeeps == ASSUME StatusInv, NEW r \in store.reads, AnswerRead(r) PROVE StatusInv'
<1> USE DEF StatusInv, StoreInv
<1>1. PICK new : /\ new = [r EXCEPT !.at = "answered", !.content = engine.content, !.ver = engine.ver]
                 /\ store' = [store EXCEPT !.reads = (@ \ {r}) \cup {new}]
                 /\ UNCHANGED engine
      BY DEF AnswerRead, syncVars
<1>2. /\ StatusRead(new) /\ new.at = "answered" /\ new.ver = engine.ver
      /\ new.latest = r.latest /\ new.fresh = r.fresh
      BY <1>1 DEF StoreTyped, StatusRead
<1>3. /\ DOMAIN store' = StoreFields /\ store'.reads = (store.reads \ {r}) \cup {new}
      /\ \A f \in StoreFields \ {"reads"} : store'[f] = store[f]
      BY <1>1 DEF StoreTyped, StoreFields
<1>4. store'.kind = store.kind /\ store'.patches = store.patches /\ store'.floor = store.floor /\ store'.late = store.late
      BY <1>3 DEF StoreFields
<1>5. StoreTyped(store')
      BY <1>2, <1>3, <1>4 DEF StoreTyped
<1>6. NotAhead(store', engine.ver)
      BY <1>2, <1>3, <1>4 DEF NotAhead
<1>7. ReadsOrdered(store')
      BY <1>2, <1>3, <1>4 DEF ReadsOrdered, NotAhead
<1> QED
    BY <1>1, <1>4, <1>5, <1>6, <1>7

LEMMA LoseStatusKeeps == ASSUME StatusInv, NEW r \in store.reads, LoseRead(r) PROVE StatusInv'
<1> USE DEF StatusInv, StoreInv
<1>1. PICK new : /\ new = [r EXCEPT !.at = "failed"]
                 /\ store' = [store EXCEPT !.reads = (@ \ {r}) \cup {new}]
                 /\ UNCHANGED engine
      BY DEF LoseRead
<1>2. /\ StatusRead(new) /\ new.at = "failed"
      /\ new.latest = r.latest /\ new.fresh = r.fresh
      BY <1>1 DEF StoreTyped, StatusRead
<1>3. /\ DOMAIN store' = StoreFields /\ store'.reads = (store.reads \ {r}) \cup {new}
      /\ \A f \in StoreFields \ {"reads"} : store'[f] = store[f]
      BY <1>1 DEF StoreTyped, StoreFields
<1>4. store'.kind = store.kind /\ store'.patches = store.patches /\ store'.floor = store.floor /\ store'.late = store.late
      BY <1>3 DEF StoreFields
<1>5. StoreTyped(store')
      BY <1>2, <1>3, <1>4 DEF StoreTyped
<1>6. NotAhead(store', engine.ver)
      BY <1>2, <1>3, <1>4 DEF NotAhead
<1>7. ReadsOrdered(store')
      BY <1>2, <1>3, <1>4 DEF ReadsOrdered
<1> QED
    BY <1>1, <1>4, <1>5, <1>6, <1>7

\* The user moves a switch: what is being read would be older than that.
LEMMA ChangeKeeps ==
  ASSUME StatusInv, NEW ch \in Changes(store.kind), Change(ch) PROVE StatusInv'
<1> USE DEF StatusInv, StoreInv
<1>1. PICK p, reads :
        /\ p = [ch |-> ch, at |-> "sent", previous |-> store.shown, over |-> store.patches # {},
                content |-> Unknown, ver |-> 0]
        /\ reads = IF store.kind = "config" THEN store.reads ELSE {[r EXCEPT !.fresh = FALSE] : r \in store.reads}
        /\ store' = [store EXCEPT !.patches = @ \cup {p},
                       !.shown = IF store.kind = "server" THEN Changed(@, ch) ELSE @,
                       !.reads = reads]
        /\ UNCHANGED engine
      BY DEF Change
<1>2. StatusPatch(p) /\ p.at = "sent"
      BY <1>1 DEF StatusPatch
<1>3. /\ DOMAIN store' = StoreFields /\ store'.reads = reads /\ store'.patches = store.patches \cup {p}
      /\ \A f \in StoreFields \ {"reads", "patches", "shown"} : store'[f] = store[f]
      BY <1>1 DEF StoreTyped, StoreFields
<1>4. store'.kind = store.kind /\ store'.floor = store.floor /\ store'.late = store.late
      BY <1>3 DEF StoreFields
<1>5. store.kind # "diagnostics"
      BY DEF Changes
<1>6. ASSUME NEW r \in store.reads, NEW q, q = [r EXCEPT !.fresh = FALSE]
      PROVE  StatusRead(q) /\ ~q.fresh /\ q.at = r.at /\ q.ver = r.ver /\ q.latest = r.latest
  <2>1. StatusRead(r)
        BY DEF StoreTyped
  <2> QED
      BY <2>1, <1>6 DEF StatusRead
<1>7. ASSUME NEW q \in reads
      PROVE  \E r \in store.reads :
               /\ StatusRead(q) /\ q.at = r.at /\ q.ver = r.ver /\ q.latest = r.latest
               /\ IF store.kind = "config" THEN q = r ELSE ~q.fresh /\ q = [r EXCEPT !.fresh = FALSE]
  <2>1. CASE store.kind = "config"
        BY <2>1, <1>1, <1>7 DEF StoreTyped
  <2>2. CASE store.kind # "config"
    <3>1. PICK r \in store.reads : q = [r EXCEPT !.fresh = FALSE]
          BY <2>2, <1>1, <1>7
    <3> QED
        BY <3>1, <2>2, <1>6
  <2> QED
      BY <2>1, <2>2
<1>8. StoreTyped(store')
      BY <1>2, <1>3, <1>4, <1>7 DEF StoreTyped
<1>9. NotAhead(store', engine.ver)
      BY <1>2, <1>3, <1>4, <1>7 DEF NotAhead
<1>10. ReadsOrdered(store')
  <2>1. store.kind = "config" => Queues(store.kind)
        BY DEF Queues
  <2>2. store.kind # "config" => ~Queues(store.kind)
        BY <1>5 DEF Queues
  <2>3. ASSUME NEW r \in reads, NEW q \in reads, Queues(store.kind) \/ (r.latest /\ q.latest) PROVE r = q
    <3>1. PICK a \in store.reads :
               /\ r.latest = a.latest
               /\ IF store.kind = "config" THEN r = a ELSE r = [a EXCEPT !.fresh = FALSE]
          BY <1>7, <2>3
    <3>2. PICK b \in store.reads :
               /\ q.latest = b.latest
               /\ IF store.kind = "config" THEN q = b ELSE q = [b EXCEPT !.fresh = FALSE]
          BY <1>7, <2>3
    <3>3. a = b
          BY <2>3, <3>1, <3>2 DEF ReadsOrdered
    <3> QED
        BY <3>1, <3>2, <3>3
  <2>4. \A r \in reads : ~Queues(store.kind) => ~r.fresh
        BY <1>7, <2>1
  <2>5. \A r \in reads : r.at = "answered" /\ r.fresh => store.kind = "config" /\ r \in store.reads
        BY <1>7
  <2> QED
      BY <2>1, <2>3, <2>4, <2>5, <1>3, <1>4 DEF ReadsOrdered
<1> QED
    BY <1>1, <1>3, <1>4, <1>5, <1>8, <1>9, <1>10

LEMMA AnswerChangeKeeps == ASSUME StatusInv, NEW p \in store.patches, AnswerChange(p) PROVE StatusInv'
<1> USE DEF StatusInv
<1>1. PICK new :
        /\ p.at = "sent"
        /\ engine' = Write(engine, Changed(engine.content, p.ch))
        /\ new = [p EXCEPT !.at = "answered", !.content = engine'.content, !.ver = engine'.ver]
        /\ store' = Moved([store EXCEPT !.patches = (@ \ {p}) \cup {new}])
      BY DEF AnswerChange
<1>2. DOMAIN engine' = EngineFields /\ engine'.ver \in Nat /\ engine.ver <= engine'.ver /\ engine.ver \in Nat
      BY <1>1, WrittenNewer
<1>3. StoreInv(store, engine'.ver)
      BY <1>2, StoreNewer
<1>4. StatusPatch(new) /\ new.ver = engine'.ver
      BY <1>1, <1>2 DEF StoreInv, StoreTyped, StatusPatch
<1>5. /\ DOMAIN store' = StoreFields /\ store'.patches = (store.patches \ {p}) \cup {new}
      /\ \A f \in StoreFields \ {"patches", "early"} : store'[f] = store[f]
      BY <1>1 DEF Moved, StoreInv, StoreTyped, StoreFields
<1>6. store'.kind = store.kind /\ store'.reads = store.reads /\ store'.floor = store.floor /\ store'.late = store.late
      BY <1>5 DEF StoreFields
<1>7. StoreTyped(store')
      BY <1>4, <1>5, <1>6 DEF StoreInv, StoreTyped
<1>8. NotAhead(store', engine'.ver)
      BY <1>2, <1>3, <1>4, <1>5, <1>6 DEF StoreInv, NotAhead
<1>9. ReadsOrdered(store')
      BY <1>5, <1>6 DEF StoreInv, ReadsOrdered
<1> QED
    BY <1>2, <1>6, <1>7, <1>8, <1>9 DEF StoreInv

LEMMA LoseChangeKeeps == ASSUME StatusInv, NEW p \in store.patches, LoseChange(p) PROVE StatusInv'
<1> USE DEF StatusInv, StoreInv
<1>1. PICK new :
        /\ new = [p EXCEPT !.at = "failed"]
        /\ store' = [store EXCEPT !.patches = (@ \ {p}) \cup {new}] /\ UNCHANGED engine
      BY DEF LoseChange
<1>2. StatusPatch(new) /\ new.at = "failed"
      BY <1>1 DEF StoreTyped, StatusPatch
<1>3. /\ DOMAIN store' = StoreFields /\ store'.patches = (store.patches \ {p}) \cup {new}
      /\ \A f \in StoreFields \ {"patches"} : store'[f] = store[f]
      BY <1>1 DEF StoreTyped, StoreFields
<1>4. store'.kind = store.kind /\ store'.reads = store.reads /\ store'.floor = store.floor /\ store'.late = store.late
      BY <1>3 DEF StoreFields
<1> QED
    BY <1>1, <1>2, <1>3, <1>4 DEF StoreTyped, NotAhead, ReadsOrdered

\* What waited for the last action of the user.
LEMMA ReleasedInv ==
  ASSUME NEW s, NEW v \in Nat, StoreInv(s, v)
  PROVE  StoreInv(Released(s), v) /\ Released(s).kind = s.kind /\ Released(s).patches = s.patches
<1>1. PICK t : t = [s EXCEPT !.reread = FALSE]
      OBVIOUS
<1>2. DOMAIN t = StoreFields /\ \A f \in {"kind", "floor", "late", "reads", "patches"} : t[f] = s[f]
      BY <1>1 DEF StoreInv, StoreTyped, StoreFields
<1>3. StoreInv(t, v) /\ t.kind = s.kind /\ t.patches = s.patches
      BY <1>2, SameInv
<1>4. StoreInv(Refresh(t), v) /\ Refresh(t).kind = s.kind /\ Refresh(t).patches = s.patches
      BY <1>3, RefreshedInv
<1>5. Released(s) = Refresh(t) \/ Released(s) = s
      BY <1>1 DEF Released
<1> QED
    BY <1>4, <1>5

\* The answer of the engine is the newest that is known: no read in flight is older and shown.
LEMMA EndChangeKeeps == ASSUME StatusInv, NEW p \in store.patches, EndChange(p) PROVE StatusInv'
<1> USE DEF StatusInv
<1>1. p.at # "sent" /\ UNCHANGED engine /\ store' = IF p.at = "failed" THEN ChangeFailed(store, p) ELSE ChangeDone(store, p)
      BY DEF EndChange, syncVars
<1>2. StatusPatch(p) /\ store.kind \in Kinds /\ store.kind # "diagnostics" /\ engine.ver \in Nat
      BY DEF StoreInv, StoreTyped
<1>3. CASE p.at = "failed"
  <2>1. PICK rest, u :
          /\ rest = [store EXCEPT !.patches = @ \ {p}]
          /\ u = IF store.kind = "server"
                 THEN [rest EXCEPT !.shown = p.previous, !.crossed = @ \/ p.over] ELSE rest
          /\ store' = Released(u)
        BY <1>1, <1>3 DEF ChangeFailed
  <2>2. /\ DOMAIN rest = StoreFields /\ rest.patches = store.patches \ {p}
        /\ \A f \in StoreFields \ {"patches"} : rest[f] = store[f]
        BY <2>1 DEF StoreInv, StoreTyped, StoreFields
  <2>3. DOMAIN u = StoreFields /\ \A f \in StoreFields \ {"shown", "crossed"} : u[f] = rest[f]
        BY <2>1, <2>2 DEF StoreFields
  <2>4. /\ u.kind = store.kind /\ u.floor = store.floor /\ u.late = store.late
        /\ u.reads = store.reads /\ u.patches = store.patches \ {p}
        BY <2>2, <2>3 DEF StoreFields
  <2>5. StoreInv(u, engine.ver)
        BY <2>3, <2>4, <1>2, LessInv
  <2>6. StoreInv(store', engine.ver) /\ store'.kind = u.kind
        BY <2>1, <2>5, <1>2, ReleasedInv
  <2> QED
      BY <2>4, <2>6, <1>1, <1>2
<1>4. CASE p.at # "failed"
  <2>1. PICK told : told = [store EXCEPT !.patches = @ \ {p}, !.floor = IF p.ver > @ THEN p.ver ELSE @]
        OBVIOUS
  <2>2. /\ DOMAIN told = StoreFields /\ told.patches = store.patches \ {p}
        /\ told.floor = (IF p.ver > store.floor THEN p.ver ELSE store.floor)
        /\ \A f \in StoreFields \ {"patches", "floor"} : told[f] = store[f]
        BY <2>1 DEF StoreInv, StoreTyped, StoreFields
  <2>3. told.kind = store.kind /\ told.reads = store.reads /\ told.late = store.late
        BY <2>2 DEF StoreFields
  <2>4. p.at = "answered" /\ p.ver <= engine.ver /\ p.ver \in Nat /\ store.floor \in Nat /\ store.floor <= engine.ver
        BY <1>1, <1>2, <1>4 DEF StatusPatch, StoreInv, StoreTyped, NotAhead
  <2>5. told.floor \in Nat /\ told.floor <= engine.ver
        BY <2>2, <2>4
  <2>6. CASE store.kind = "config"
    <3>1. PICK u : /\ u = [told EXCEPT !.reads = {[r EXCEPT !.fresh = FALSE] : r \in @}]
                   /\ store' = Refresh(u)
          BY <2>1, <2>6, <1>1, <1>4 DEF ChangeDone
    <3>2. /\ DOMAIN u = StoreFields /\ u.reads = {[r EXCEPT !.fresh = FALSE] : r \in store.reads}
          /\ \A f \in StoreFields \ {"reads"} : u[f] = told[f]
          BY <3>1, <2>2, <2>3 DEF StoreFields
    <3>3. u.kind = store.kind /\ u.patches = told.patches /\ u.floor = told.floor /\ u.late = store.late
          BY <3>2, <2>3 DEF StoreFields
    <3>4. ASSUME NEW r \in store.reads, NEW q, q = [r EXCEPT !.fresh = FALSE]
          PROVE  StatusRead(q) /\ ~q.fresh /\ q.at = r.at /\ q.ver = r.ver
      <4>1. StatusRead(r)
            BY DEF StoreInv, StoreTyped
      <4> QED
          BY <4>1, <3>4 DEF StatusRead
    <3>5. ASSUME NEW q \in u.reads
          PROVE  \E r \in store.reads : /\ q = [r EXCEPT !.fresh = FALSE] /\ StatusRead(q)
                                        /\ ~q.fresh /\ q.at = r.at /\ q.ver = r.ver
      <4>1. PICK r \in store.reads : q = [r EXCEPT !.fresh = FALSE]
            BY <3>2, <3>5
      <4> QED
          BY <4>1, <3>4
    <3>6. StoreTyped(u)
          BY <3>2, <3>3, <3>5, <2>2, <2>5 DEF StoreInv, StoreTyped
    <3>7. NotAhead(u, engine.ver)
          BY <3>3, <3>5, <2>2, <2>5 DEF StoreInv, NotAhead
    <3>8. ReadsOrdered(u)
      <4>1. Queues(store.kind)
            BY <2>6 DEF Queues
      <4>2. \A r, q \in store.reads : r = q
            BY <4>1 DEF StoreInv, ReadsOrdered
      <4>3. \A r, q \in u.reads : r = q
        <5> SUFFICES ASSUME NEW r \in u.reads, NEW q \in u.reads PROVE r = q
            OBVIOUS
        <5>1. PICK a \in store.reads : r = [a EXCEPT !.fresh = FALSE]
              BY <3>5
        <5>2. PICK b \in store.reads : q = [b EXCEPT !.fresh = FALSE]
              BY <3>5
        <5> QED
            BY <5>1, <5>2, <4>2
      <4> QED
          BY <4>1, <4>3, <3>3, <3>5 DEF ReadsOrdered
    <3>9. StoreInv(u, engine.ver)
          BY <3>3, <3>6, <3>7, <3>8 DEF StoreInv
    <3>10. StoreInv(store', engine.ver) /\ store'.kind = u.kind
          BY <3>1, <3>9, <1>2, RefreshedInv
    <3> QED
        BY <3>3, <3>10, <1>1, <1>2
  <2>7. CASE store.kind # "config"
    <3>1. PICK u : u = [told EXCEPT !.shown = p.content] /\ store' = Released(u)
          BY <2>1, <2>7, <1>1, <1>4 DEF ChangeDone
    <3>2. DOMAIN u = StoreFields /\ \A f \in StoreFields \ {"shown"} : u[f] = told[f]
          BY <3>1, <2>2 DEF StoreFields
    <3>3. /\ u.kind = store.kind /\ u.patches = store.patches \ {p} /\ u.floor = told.floor
          /\ u.late = store.late /\ u.reads = store.reads
          BY <3>2, <2>2, <2>3 DEF StoreFields
    <3>4. ~Queues(store.kind)
          BY <2>7, <1>2 DEF Queues
    <3>5. \A r \in store.reads : ~r.fresh
          BY <3>4 DEF StoreInv, ReadsOrdered
    <3>6. StoreTyped(u) /\ NotAhead(u, engine.ver)
          BY <3>2, <3>3, <2>5 DEF StoreInv, StoreTyped, NotAhead
    <3>7. ReadsOrdered(u)
          BY <3>3, <3>4, <3>5 DEF StoreInv, ReadsOrdered
    <3>8. StoreInv(u, engine.ver)
          BY <3>3, <3>6, <3>7 DEF StoreInv
    <3>9. StoreInv(store', engine.ver) /\ store'.kind = u.kind
          BY <3>1, <3>8, <1>2, ReleasedInv
    <3> QED
        BY <3>3, <3>9, <1>1, <1>2
  <2> QED
      BY <2>6, <2>7
<1> QED
    BY <1>3, <1>4

\* What happens elsewhere only makes the engine newer.
LEMMA ElsewhereKeeps ==
  ASSUME StatusInv, DOMAIN engine' = EngineFields, engine'.ver \in Nat, engine.ver <= engine'.ver,
         store' = store \/ store' = Moved(store)
  PROVE  StatusInv'
<1>1. StoreInv(store, engine'.ver)
      BY StoreNewer DEF StatusInv
<1>2. DOMAIN store' = StoreFields /\ \A f \in {"kind", "floor", "late", "reads", "patches"} : store'[f] = store[f]
      BY DEF StatusInv, StoreInv, StoreTyped, StoreFields, Moved
<1>3. StoreInv(store', engine'.ver) /\ store'.kind = store.kind /\ store'.patches = store.patches
      BY <1>1, <1>2, SameInv
<1> QED
    BY <1>3 DEF StatusInv

LEMMA StatusKept == ASSUME StatusInv, [StatusStep]_statusVars PROVE StatusInv'
<1>0. /\ DOMAIN engine = EngineFields /\ engine.ver \in Nat /\ DOMAIN store = StoreFields
      /\ StoreInv(store, engine.ver)
      BY DEF StatusInv, StoreInv, StoreTyped
<1>1. CASE UNCHANGED statusVars
      BY <1>0, <1>1, ElsewhereKeeps DEF statusVars
<1>2. CASE SyncStep /\ UNCHANGED store
  <2>1. DOMAIN engine' = EngineFields /\ engine'.ver = engine.ver
        BY <1>0, <1>2 DEF SyncStep, AnswerInfo, LoseInfo, PollTick, Focus, HideWindow, ShowWindow,
                          ObserveRevision, EngineFields
  <2> QED
      BY <1>0, <1>2, <2>1, ElsewhereKeeps
<1>3. CASE EndPollStatus \/ RetryTick
  <2>1. PICK s : /\ s = store \/ s = [store EXCEPT !.told = TRUE]
                 /\ store' = store \/ store' = Refresh(s)
        BY <1>3 DEF EndPollStatus, RetryTick
  <2>2. UNCHANGED engine
        BY <1>3 DEF EndPollStatus, EndPoll, RetryTick, syncVars
  <2>3. DOMAIN s = StoreFields /\ \A f \in {"kind", "floor", "late", "reads", "patches"} : s[f] = store[f]
        BY <1>0, <2>1 DEF StoreFields
  <2>4. StoreInv(s, engine.ver) /\ s.kind = store.kind /\ s.patches = store.patches
        BY <1>0, <2>3, SameInv
  <2>5. StoreInv(Refresh(s), engine.ver) /\ Refresh(s).kind = store.kind /\ Refresh(s).patches = store.patches
        BY <1>0, <2>4, RefreshedInv
  <2> QED
      BY <2>1, <2>2, <2>5 DEF StatusInv
<1>4. ASSUME NEW r \in store.reads, EndRead(r) PROVE StatusInv'
  <2>1. /\ r.at # "sent" /\ UNCHANGED engine
        /\ store' = IF Queues(store.kind) THEN QueuedRead(store, r) ELSE SettledRead(store, r)
        BY <1>4 DEF EndRead, syncVars
  <2>2. StoreInv(store', engine.ver) /\ store'.kind = store.kind /\ store'.patches = store.patches
        BY <2>1, <1>0, EndedInv
  <2> QED
      BY <2>1, <2>2 DEF StatusInv
<1>5. ASSUME NEW f, ChangedElsewhere(f) PROVE StatusInv'
  <2>1. PICK c : engine' = Write(engine, c) /\ store' = Moved(store)
        BY <1>5 DEF ChangedElsewhere
  <2> QED
      BY <2>1, <1>0, WrittenNewer, ElsewhereKeeps
<1>6. CASE RestartEngine
  <2>1. DOMAIN engine' = EngineFields /\ engine'.ver = engine.ver + 1 /\ store' = Moved(store)
        BY <1>6 DEF RestartEngine, Restarted, EngineFields
  <2> QED
      BY <2>1, <1>0, ElsewhereKeeps
<1> QED
    BY <1>1, <1>2, <1>3, <1>4, <1>5, <1>6, AnswerStatusKeeps, LoseStatusKeeps, ChangeKeeps, AnswerChangeKeeps,
       LoseChangeKeeps, EndChangeKeeps DEF StatusStep

\* A read that arrives late never shows a state older than one the interface was already told
\* of, by another read or by the answer to a change (LateReadsLose).
THEOREM LateReadsLoseHolds == StatusSpec => []LateReadsLose
<1>1. StatusInv => LateReadsLose
      BY DEF StatusInv, StoreInv, LateReadsLose
<1> QED
    BY <1>1, StatusStarts, StatusKept, PTL DEF StatusSpec

-------------------------------------------------------------------------------
(* Mocks from captured traffic: what the page, the files and a batch are.  *)

FileState == {NoEndpointFile} \cup FileRecord
UseState == {Unserved} \cup MockUse

\* A variant made by a batch is of one of the first n batches; this one's are those numbered so.
UpTo(v, n) == v \in Nat \X CaptureRef => v[1] <= n
Made(c) == <<spent.batches, c>>
MadeNow(v) == v \in Nat \X CaptureRef /\ v[1] = spent.batches

EngineTyped ==
  /\ traffic \in [run : Nat, last : Nat] /\ spent \in [batches : Nat, edits : Nat]
  /\ DOMAIN keyOf \subseteq CaptureRef /\ keyOf \in [DOMAIN keyOf -> RouteKey]
  /\ meddled \subseteq BatchFile

\* What is ticked, and what the dialog asks for, the user has chosen.
ViewTyped ==
  /\ view \in [run : Nat, shown : SUBSET Nat, sel : [run : Nat, ids : SUBSET Nat], anchor : Nat,
               prompt : {NoBatch} \cup [run : Nat, wanted : SUBSET CaptureRef, id : Nat],
               ticked : SUBSET CaptureRef]
  /\ IsFiniteSet(view.shown) /\ IsFiniteSet(view.sel.ids)
  /\ \A id \in view.sel.ids : <<view.sel.run, id>> \in view.ticked
  /\ view.prompt # NoBatch => <<view.prompt.run, view.prompt.id>> \in view.prompt.wanted

FilesTyped ==
  /\ endpointFile \in [BatchFile -> FileState] /\ inUse \in [BatchFile -> UseState]
  /\ \A f \in BatchFile : OnDisk(f) => endpointFile[f].selected \in DOMAIN endpointFile[f].variants
  /\ \A f \in BatchFile : inUse[f] # Unserved => UpTo(inUse[f].variant, spent.batches)
  /\ \A f \in BatchFile : OnDisk(f) =>
       \A n \in DOMAIN endpointFile[f].variants : UpTo(endpointFile[f].variants[n], spent.batches)

Phases == {"queued", "items", "answered", "lost"}
BatchKinds == {"selected", "single", "confirm", "dump", "client"}
CopiedCapture == [of : CaptureRef, there : BOOLEAN]
BatchItem ==
  [of : CaptureRef, file : BatchFile \cup {0}, variant : Nat, selects : BOOLEAN, expects : BOOLEAN,
   superseded : BOOLEAN, write : {"created", "variant_added", "skipped", "unavailable", "failed"},
   runtime : {"not_applicable", "applied", "not_applied"}]
BatchFields ==
  {"at", "kind", "run", "todo", "options", "wanted", "captures", "dests", "items", "before", "was",
   "outcome"}
BatchTyped ==
  /\ DOMAIN batch = BatchFields
  /\ batch.at \in Phases /\ batch.kind \in BatchKinds /\ batch.run \in Nat
  /\ batch.todo \in Seq(IF batch.kind = "dump" THEN CaptureRef ELSE Nat)
  /\ batch.options \in [add : BOOLEAN, select : BOOLEAN, enable : BOOLEAN]
  /\ batch.wanted \subseteq CaptureRef
  /\ batch.captures \in Seq(CopiedCapture) /\ batch.items \in Seq(BatchItem)
  /\ batch.outcome \in {"none", "interrupted", "refused", "done", "failed"}

\* A batch that waits names requests that were chosen, each once; nothing is of it yet.
QueuedInv ==
  batch.at = "queued" =>
    /\ batch.items = <<>> /\ batch.outcome = "none" /\ batch.todo # <<>> /\ batch.captures = <<>>
    /\ \A i, j \in DOMAIN batch.todo : batch.todo[i] = batch.todo[j] => i = j
    /\ \A i \in DOMAIN batch.todo :
         IF batch.kind = "dump" THEN batch.todo[i] \in batch.wanted
         ELSE batch.todo[i] \in Nat /\ <<batch.run, batch.todo[i]>> \in batch.wanted
    /\ \A f \in BatchFile :
         /\ inUse[f] # Unserved => ~MadeNow(inUse[f].variant)
         /\ OnDisk(f) => \A n \in DOMAIN endpointFile[f].variants : ~MadeNow(endpointFile[f].variants[n])

Going == batch.at \in {"items", "answered"}
\* A request is chosen, and of the engine that the batch names.
OfBatch(c) == c \in batch.wanted /\ (batch.kind # "dump" => c[1] = batch.run)

\* Each request of the batch is in one place, to do or done, and was chosen.
TodoInv ==
  Going =>
    /\ Len(batch.captures) = Len(batch.todo) \/ batch.outcome = "refused"
    /\ \A i \in DOMAIN batch.captures :
         /\ OfBatch(batch.captures[i].of)
         /\ batch.captures[i].there => batch.captures[i].of \in DOMAIN keyOf
         /\ \A j \in DOMAIN batch.captures : batch.captures[i].of = batch.captures[j].of => i = j
         /\ \A j \in DOMAIN batch.items : batch.items[j].of # batch.captures[i].of
    /\ \A i, j \in DOMAIN batch.items : batch.items[i].of = batch.items[j].of => i = j
    /\ \A i \in DOMAIN batch.items :
         /\ OfBatch(batch.items[i].of)
         /\ batch.items[i].file = 0 =>
              ~Written(batch.items[i]) /\ batch.items[i].runtime = "not_applicable"

\* What an item says it wrote is there, and what is there of this batch an item tells.
WrittenInv ==
  Going /\ batch.outcome # "refused" =>
    /\ \A i \in DOMAIN batch.items :
         LET item == batch.items[i] IN
         Written(item) =>
           /\ item.file \in BatchFile /\ item.of \in DOMAIN keyOf /\ OnDisk(item.file)
           /\ item.variant \in DOMAIN endpointFile[item.file].variants
           /\ endpointFile[item.file].variants[item.variant] = Made(item.of)
           /\ item.file \notin meddled => endpointFile[item.file].key = keyOf[item.of]
    /\ \A f \in BatchFile : OnDisk(f) =>
         \A n \in DOMAIN endpointFile[f].variants :
           MadeNow(endpointFile[f].variants[n]) =>
             \E i \in DOMAIN batch.items :
               /\ endpointFile[f].variants[n] = Made(batch.items[i].of)
               /\ batch.items[i].write \notin {"skipped", "unavailable"}

\* What the batch keeps of the files as it found them, and what its items say meanwhile.
KeptTyped ==
  batch.at = "items" =>
    /\ batch.dests \in [RouteKey -> SUBSET BatchFile] /\ batch.was \in [BatchFile -> FileState]
    /\ batch.before \in [BatchFile -> SUBSET UseState]
    /\ batch.outcome \in {"none", "interrupted"}
    /\ batch.outcome = "interrupted" => batch.todo = <<>>
    /\ batch.items # <<>> \/ batch.todo # <<>>
    /\ \A i \in DOMAIN batch.items :
         LET item == batch.items[i] IN
         /\ item.runtime = "not_applicable" /\ ~item.superseded
         /\ item.expects => item.selects
         /\ item.selects => Written(item)

\* The destinations are those of the files, but for what somebody removed; of the items that
\* select in a file the last is what the file selects; what is served of this batch is not
\* in error, so that a reload which fails cannot leave it by chance.
DestsInv ==
  batch.at = "items" /\ batch.outcome = "none" =>
    /\ \A k \in RouteKey : \A f \in batch.dests[k] \ meddled : OnDisk(f) /\ endpointFile[f].key = k
    /\ \A f \in BatchFile : Readable(endpointFile, f) => f \in batch.dests[endpointFile[f].key]
    /\ \A i \in DOMAIN batch.items :
         batch.items[i].selects /\ ~Superseded(batch.items, i) =>
           endpointFile[batch.items[i].file].selected = batch.items[i].variant
    /\ \A f \in BatchFile \ meddled :
         inUse[f] # Unserved /\ MadeNow(inUse[f].variant) => f \notin LoadErrors(endpointFile)

\* What a file would be served as.
UseOf(f) == [key |-> endpointFile[f].key, variant |-> Chosen(endpointFile[f])]

\* A batch that nobody disturbs: what was there stays, on or off; unless it selects, what is
\* served of it, and would be after a reload, is what was before.
QuietInv ==
  batch.at = "items" /\ meddled = {} =>
    \A f \in BatchFile :
      /\ batch.was[f] # NoEndpointFile => OnDisk(f) /\ endpointFile[f].on = batch.was[f].on
      /\ Unserved \notin batch.before[f] =>
           /\ batch.was[f] # NoEndpointFile
           /\ ~batch.options.select /\ f \notin LoadErrors(endpointFile) =>
                inUse[f] \in batch.before[f] /\ Loadable(endpointFile, f) /\ UseOf(f) \in batch.before[f]

BatchInv ==
  /\ batch # NoBatch =>
       /\ BatchTyped
       /\ QueuedInv /\ TodoInv /\ WrittenInv /\ KeptTyped /\ DestsInv /\ QuietInv
       /\ batch.at = "answered" /\ batch.outcome = "done" => batch.items # <<>>
  /\ batch.at = "none" => batch = NoBatch

CaptureInv == EngineTyped /\ ViewTyped /\ FilesTyped /\ BatchInv /\ MocksAsChosen

-------------------------------------------------------------------------------
(* The files and the reload. *)

\* A file that is there is a record, and its chosen variant one of its own.
LEMMA FileThere ==
  ASSUME FilesTyped, NEW f \in BatchFile, OnDisk(f)
  PROVE  /\ endpointFile[f] \in FileRecord /\ Chosen(endpointFile[f]) \in MockVariant
         /\ UseOf(f) \in MockUse /\ UseOf(f) # Unserved
         /\ UpTo(Chosen(endpointFile[f]), spent.batches)
<1>1. endpointFile[f] \in FileRecord
      BY DEF FilesTyped, FileState, OnDisk
<1>2. /\ endpointFile[f].variants \in Seq(MockVariant) /\ endpointFile[f].key \in RouteKey
      /\ endpointFile[f].selected \in DOMAIN endpointFile[f].variants
      BY <1>1 DEF FilesTyped, FileRecord
<1>3. Chosen(endpointFile[f]) \in MockVariant /\ UpTo(Chosen(endpointFile[f]), spent.batches)
      BY <1>2 DEF Chosen, FilesTyped
<1>4. UseOf(f) \in MockUse
      BY <1>2, <1>3 DEF UseOf, MockUse
<1> QED
    BY <1>1, <1>3, <1>4, BatchAssumption

\* What a reload serves of a file that is not in error, and what it serves at all.
LEMMA ReloadServes ==
  ASSUME FilesTyped, NEW f \in BatchFile
  PROVE  /\ InUseAfter(endpointFile, f) \in {Unserved, inUse[f], UseOf(f)}
         /\ InUseAfter(endpointFile, f) \in UseState
         /\ InUseAfter(endpointFile, f) # Unserved =>
              UpTo(InUseAfter(endpointFile, f).variant, spent.batches)
         /\ f \in LoadErrors(endpointFile) => InUseAfter(endpointFile, f) \in {Unserved, inUse[f]}
         /\ f \notin LoadErrors(endpointFile) =>
              /\ Loadable(endpointFile, f) => InUseAfter(endpointFile, f) = UseOf(f)
              /\ ~Loadable(endpointFile, f) => InUseAfter(endpointFile, f) = Unserved
<1> DEFINE u == InUseAfter(endpointFile, f)
<1>1. f \in LoadErrors(endpointFile) => u \in {Unserved, inUse[f]}
      BY DEF InUseAfter
<1>2. f \notin LoadErrors(endpointFile) =>
        /\ Loadable(endpointFile, f) => u = UseOf(f)
        /\ ~Loadable(endpointFile, f) => u = Unserved
      BY DEF InUseAfter, UseOf
<1>3. Loadable(endpointFile, f) => UseOf(f) \in MockUse /\ UpTo(UseOf(f).variant, spent.batches)
      BY FileThere DEF Loadable, OnDisk, UseOf
<1>4. inUse[f] \in UseState /\ (inUse[f] # Unserved => UpTo(inUse[f].variant, spent.batches))
      BY DEF FilesTyped
<1> HIDE DEF u
<1>5. u \in {Unserved, inUse[f], UseOf(f)}
      BY <1>1, <1>2
<1>6. u \in UseState /\ (u # Unserved => UpTo(u.variant, spent.batches))
      BY <1>1, <1>2, <1>3, <1>4 DEF UseState
<1> QED
    BY <1>1, <1>2, <1>5, <1>6 DEF u

\* A reload keeps what the files and what is served are.
LEMMA ReloadTyped ==
  ASSUME FilesTyped, UNCHANGED <<endpointFile, spent>>,
         inUse' \in [BatchFile -> UseState],
         \A f \in BatchFile : inUse'[f] \in {Unserved, inUse[f], InUseAfter(endpointFile, f)}
  PROVE  FilesTyped'
<1>1. ASSUME NEW f \in BatchFile, inUse'[f] # Unserved PROVE UpTo(inUse'[f].variant, spent.batches)
      BY <1>1, ReloadServes DEF FilesTyped
<1> QED
    BY <1>1 DEF FilesTyped, OnDisk, UpTo

\* A variant added to a file that loads puts no file in error, and leaves all as it was
\* unless it is selected.
LEMMA Appended ==
  ASSUME FilesTyped, EngineTyped, NEW f \in BatchFile, OnDisk(f), endpointFile[f].readable,
         NEW c \in CaptureRef, NEW select \in BOOLEAN, endpointFile' = WithVariant(f, c, select)
  PROVE  /\ endpointFile' \in [BatchFile -> FileState]
         /\ \A g \in BatchFile : (OnDisk(g))' <=> OnDisk(g)
         /\ \A g \in BatchFile : g # f => endpointFile'[g] = endpointFile[g]
         /\ endpointFile'[f] \in FileRecord
         /\ endpointFile'[f].key = endpointFile[f].key /\ endpointFile'[f].on = endpointFile[f].on
         /\ endpointFile'[f].readable
         /\ endpointFile'[f].variants = Append(endpointFile[f].variants, Made(c))
         /\ endpointFile'[f].selected =
              IF select THEN Len(endpointFile[f].variants) + 1 ELSE endpointFile[f].selected
<1>1. endpointFile[f] \in FileRecord
      BY DEF FilesTyped, FileState, OnDisk
<1>2. /\ endpointFile[f].variants \in Seq(MockVariant) /\ endpointFile[f].selected \in Nat
      /\ endpointFile[f].key \in RouteKey /\ endpointFile[f].on \in BOOLEAN
      BY <1>1 DEF FileRecord
<1> DEFINE g == [endpointFile[f] EXCEPT !.variants = Append(@, VariantOf(c)),
                                        !.selected = Selection(endpointFile[f], select)]
<1>3. VariantOf(c) = Made(c) /\ Made(c) \in MockVariant
      BY DEF VariantOf, Made, MockVariant, EngineTyped
<1>4. Append(endpointFile[f].variants, Made(c)) \in Seq(MockVariant)
      BY <1>2, <1>3
<1>5. Selection(endpointFile[f], select) \in Nat
      BY <1>2 DEF Selection
<1>6. /\ g \in FileRecord /\ g.key = endpointFile[f].key /\ g.on = endpointFile[f].on
      /\ g.readable = endpointFile[f].readable
      /\ g.variants = Append(endpointFile[f].variants, Made(c))
      /\ g.selected = Selection(endpointFile[f], select)
      BY <1>1, <1>3, <1>4, <1>5 DEF FileRecord
<1> HIDE DEF g
<1>7. endpointFile' = [endpointFile EXCEPT ![f] = g]
      BY DEF WithVariant, g
<1>8. endpointFile'[f] = g /\ \A x \in BatchFile : x # f => endpointFile'[x] = endpointFile[x]
      BY <1>7 DEF FilesTyped
<1>9. endpointFile' \in [BatchFile -> FileState]
      BY <1>6, <1>7 DEF FilesTyped, FileState
<1>10. g # NoEndpointFile
      BY <1>6, BatchAssumption
<1>11. \A x \in BatchFile : (OnDisk(x))' <=> OnDisk(x)
      BY <1>8, <1>10 DEF OnDisk
<1> QED
    BY <1>6, <1>8, <1>9, <1>11 DEF Selection

\* A file written where there was none.
LEMMA Created ==
  ASSUME FilesTyped, EngineTyped, NEW k \in RouteKey, ~OnDisk(Home[k]),
         NEW c \in CaptureRef, NEW enable \in BOOLEAN, endpointFile' = WithEndpoint(k, c, enable)
  PROVE  /\ Home[k] \in BatchFile /\ endpointFile' \in [BatchFile -> FileState]
         /\ (OnDisk(Home[k]))'
         /\ \A g \in BatchFile : g # Home[k] => endpointFile'[g] = endpointFile[g]
         /\ endpointFile'[Home[k]] =
              [key |-> k, on |-> enable, readable |-> TRUE, variants |-> <<Made(c)>>, selected |-> 1]
         /\ endpointFile'[Home[k]] \in FileRecord
<1> DEFINE r == [key |-> k, on |-> enable, readable |-> TRUE, variants |-> <<Made(c)>>, selected |-> 1]
<1>1. Home[k] \in BatchFile
      BY BatchAssumption
<1>2. VariantOf(c) = Made(c) /\ Made(c) \in MockVariant
      BY DEF VariantOf, Made, MockVariant, EngineTyped
<1>3. r \in FileRecord
      BY <1>2 DEF FileRecord
<1>4. endpointFile' = [endpointFile EXCEPT ![Home[k]] = r]
      BY <1>2 DEF WithEndpoint
<1> HIDE DEF r
<1>5. endpointFile'[Home[k]] = r /\ \A x \in BatchFile : x # Home[k] => endpointFile'[x] = endpointFile[x]
      BY <1>1, <1>4 DEF FilesTyped
<1>6. endpointFile' \in [BatchFile -> FileState]
      BY <1>3, <1>4, <1>1 DEF FilesTyped, FileState
<1>7. r # NoEndpointFile
      BY <1>3, BatchAssumption
<1> QED
    BY <1>1, <1>3, <1>5, <1>6, <1>7 DEF OnDisk, r

\* The files as an item leaves them: what was there stays, and a variant that is new is the
\* item's; no file that loads is in error for it.
GrownBy(c) ==
  /\ endpointFile' \in [BatchFile -> FileState]
  /\ \A f \in BatchFile : OnDisk(f) =>
       /\ (OnDisk(f))'
       /\ endpointFile'[f].key = endpointFile[f].key /\ endpointFile'[f].on = endpointFile[f].on
       /\ \A n \in DOMAIN endpointFile[f].variants :
            /\ n \in DOMAIN endpointFile'[f].variants
            /\ endpointFile'[f].variants[n] = endpointFile[f].variants[n]
  /\ \A f \in BatchFile : (OnDisk(f))' =>
       /\ endpointFile'[f].selected \in DOMAIN endpointFile'[f].variants
       /\ \A n \in DOMAIN endpointFile'[f].variants :
            \/ endpointFile'[f].variants[n] = Made(c)
            \/ /\ OnDisk(f) /\ n \in DOMAIN endpointFile[f].variants
               /\ endpointFile'[f].variants[n] = endpointFile[f].variants[n]
  /\ LoadErrors(endpointFile') \subseteq LoadErrors(endpointFile)

LEMMA SameGrows == ASSUME FilesTyped, UNCHANGED endpointFile, NEW c PROVE GrownBy(c)
BY DEF GrownBy, FilesTyped, OnDisk

LEMMA AppendedGrows ==
  ASSUME FilesTyped, EngineTyped, NEW f \in BatchFile, OnDisk(f), endpointFile[f].readable,
         NEW c \in CaptureRef, NEW select \in BOOLEAN, endpointFile' = WithVariant(f, c, select)
  PROVE  /\ GrownBy(c)
         /\ \A g \in BatchFile : Readable(endpointFile', g) <=> Readable(endpointFile, g)
         /\ \A g \in BatchFile : OnDisk(g) => endpointFile'[g].key = endpointFile[g].key
         /\ ~select => \A g \in BatchFile :
              /\ g \in LoadErrors(endpointFile') <=> g \in LoadErrors(endpointFile)
              /\ Loadable(endpointFile', g) <=> Loadable(endpointFile, g)
              /\ OnDisk(g) => (UseOf(g))' = UseOf(g)
<1> DEFINE v == endpointFile[f].variants
<1>1. endpointFile[f] \in FileRecord /\ v \in Seq(MockVariant) /\ endpointFile[f].selected \in DOMAIN v
      BY FileThere DEF FileRecord, FilesTyped
<1>2. /\ \A n \in DOMAIN v : n \in DOMAIN Append(v, Made(c)) /\ Append(v, Made(c))[n] = v[n]
      /\ \A n \in DOMAIN Append(v, Made(c)) :
           Append(v, Made(c))[n] = Made(c) \/ (n \in DOMAIN v /\ Append(v, Made(c))[n] = v[n])
      /\ Len(v) + 1 \in DOMAIN Append(v, Made(c)) /\ Append(v, Made(c))[Len(v) + 1] = Made(c)
      BY <1>1
<1>3. /\ endpointFile' \in [BatchFile -> FileState]
      /\ \A g \in BatchFile : (OnDisk(g))' <=> OnDisk(g)
      /\ \A g \in BatchFile : g # f => endpointFile'[g] = endpointFile[g]
      /\ endpointFile'[f].key = endpointFile[f].key /\ endpointFile'[f].on = endpointFile[f].on
      /\ endpointFile'[f].readable
      /\ endpointFile'[f].variants = Append(v, Made(c))
      /\ endpointFile'[f].selected = IF select THEN Len(v) + 1 ELSE endpointFile[f].selected
      BY Appended
<1> HIDE DEF v
<1>4. \A g \in BatchFile : Readable(endpointFile', g) <=> Readable(endpointFile, g)
      BY <1>3 DEF Readable, OnDisk
<1>5. \A g \in BatchFile : OnDisk(g) => endpointFile'[g].key = endpointFile[g].key
      BY <1>3
<1>6. \A g \in BatchFile : Taken(endpointFile', g) <=> Taken(endpointFile, g)
  <2>1. \A g \in BatchFile : 1..(g - 1) \subseteq BatchFile
        BY BatchAssumption DEF BatchFile
  <2>2. \A g \in BatchFile : Readable(endpointFile, g) => OnDisk(g)
        BY DEF Readable, OnDisk
  <2> QED
      BY <1>4, <1>5, <2>1, <2>2 DEF Taken
<1>7. Made(c) # BadVariant
      BY BatchAssumption DEF Made, EngineTyped
<1>8. Chosen(endpointFile'[f]) = IF select THEN Made(c) ELSE Chosen(endpointFile[f])
      BY <1>1, <1>2, <1>3 DEF Chosen, v
<1>9. \A g \in BatchFile : OnDisk(g) =>
        /\ endpointFile'[g].on = endpointFile[g].on
        /\ endpointFile'[g].readable = endpointFile[g].readable
        /\ Chosen(endpointFile'[g]) = Chosen(endpointFile[g]) \/ (select /\ Chosen(endpointFile'[g]) # BadVariant)
      BY <1>3, <1>7, <1>8, <1>1 DEF FileRecord
<1>10. \A g \in BatchFile : g \in LoadErrors(endpointFile') => g \in LoadErrors(endpointFile)
       BY <1>3, <1>6, <1>9 DEF LoadErrors, OnDisk
<1>11. ~select => \A g \in BatchFile : g \in LoadErrors(endpointFile) => g \in LoadErrors(endpointFile')
       BY <1>3, <1>6, <1>9 DEF LoadErrors, OnDisk
<1>12. ~select => \A g \in BatchFile :
         /\ Loadable(endpointFile', g) <=> Loadable(endpointFile, g)
         /\ OnDisk(g) => (UseOf(g))' = UseOf(g)
       BY <1>3, <1>5, <1>9 DEF Loadable, OnDisk, UseOf
<1>13. \A g \in BatchFile : OnDisk(g) => \A n \in DOMAIN endpointFile[g].variants :
         n \in DOMAIN endpointFile'[g].variants /\ endpointFile'[g].variants[n] = endpointFile[g].variants[n]
       BY <1>2, <1>3 DEF v
<1>14. \A g \in BatchFile : (OnDisk(g))' =>
         /\ endpointFile'[g].selected \in DOMAIN endpointFile'[g].variants
         /\ \A n \in DOMAIN endpointFile'[g].variants :
              \/ endpointFile'[g].variants[n] = Made(c)
              \/ /\ OnDisk(g) /\ n \in DOMAIN endpointFile[g].variants
                 /\ endpointFile'[g].variants[n] = endpointFile[g].variants[n]
  <2>1. ASSUME NEW g \in BatchFile, g # f, OnDisk(g)
        PROVE  endpointFile[g].selected \in DOMAIN endpointFile[g].variants
        BY <2>1 DEF FilesTyped
  <2>2. endpointFile'[f].selected \in DOMAIN endpointFile'[f].variants
        BY <1>1, <1>2, <1>3 DEF v
  <2> QED
      BY <1>2, <1>3, <2>1, <2>2 DEF v
<1>15. LoadErrors(endpointFile') \subseteq LoadErrors(endpointFile)
       BY <1>10 DEF LoadErrors
<1> QED
    BY <1>3, <1>4, <1>5, <1>9, <1>10, <1>11, <1>12, <1>13, <1>14, <1>15 DEF GrownBy

LEMMA CreatedGrows ==
  ASSUME FilesTyped, EngineTyped, NEW k \in RouteKey, ~OnDisk(Home[k]),
         NEW c \in CaptureRef, NEW enable \in BOOLEAN, endpointFile' = WithEndpoint(k, c, enable),
         \A g \in BatchFile : Readable(endpointFile, g) => endpointFile[g].key # k
  PROVE  /\ GrownBy(c)
         /\ \A g \in BatchFile : g # Home[k] =>
              /\ g \in LoadErrors(endpointFile') <=> g \in LoadErrors(endpointFile)
<1> DEFINE h == Home[k]
<1>1. /\ h \in BatchFile /\ endpointFile' \in [BatchFile -> FileState] /\ (OnDisk(h))'
      /\ \A g \in BatchFile : g # h => endpointFile'[g] = endpointFile[g]
      /\ endpointFile'[h] =
           [key |-> k, on |-> enable, readable |-> TRUE, variants |-> <<Made(c)>>, selected |-> 1]
      BY Created
<1>2. Chosen(endpointFile'[h]) = Made(c) /\ Made(c) # BadVariant
      BY <1>1, BatchAssumption DEF Chosen, Made, EngineTyped
<1> HIDE DEF h
<1>3. Readable(endpointFile', h) /\ ~Readable(endpointFile, h)
      BY <1>1 DEF Readable, OnDisk, h
<1>4. \A g \in BatchFile : g # h => (Readable(endpointFile', g) <=> Readable(endpointFile, g))
      BY <1>1 DEF Readable
<1>5. \A g \in BatchFile : 1..(g - 1) \subseteq BatchFile
      BY BatchAssumption DEF BatchFile
<1>6. \A g \in BatchFile : Taken(endpointFile', g) <=> Taken(endpointFile, g)
  <2>1. ASSUME NEW g \in BatchFile, g # h PROVE Taken(endpointFile', g) <=> Taken(endpointFile, g)
    <3>1. endpointFile'[g] = endpointFile[g] /\ (Readable(endpointFile, g) => endpointFile[g].key # k)
          BY <2>1, <1>1
    <3>2. ASSUME NEW x \in 1..(g - 1), Readable(endpointFile, g)
          PROVE  Readable(endpointFile', x) /\ endpointFile'[x].key = endpointFile'[g].key
                   <=> Readable(endpointFile, x) /\ endpointFile[x].key = endpointFile[g].key
      <4>1. CASE x = h
            BY <4>1, <3>1, <3>2, <1>1, <1>3
      <4> QED
          BY <4>1, <3>1, <1>1, <1>4, <1>5
    <3> QED
        BY <2>1, <3>2, <1>4 DEF Taken
  <2>2. ~Taken(endpointFile', h) /\ ~Taken(endpointFile, h)
    <3>1. ASSUME NEW x \in 1..(h - 1), Readable(endpointFile', x), endpointFile'[x].key = k PROVE FALSE
      <4>1. x \in BatchFile /\ x # h
            BY <1>1, <1>5 DEF BatchFile
      <4> QED
          BY <4>1, <3>1, <1>1, <1>4
    <3> QED
        BY <3>1, <1>1, <1>3 DEF Taken
  <2> QED
      BY <2>1, <2>2
<1>7. \A g \in BatchFile : g # h => (g \in LoadErrors(endpointFile') <=> g \in LoadErrors(endpointFile))
      BY <1>1, <1>6 DEF LoadErrors
<1>8. h \notin LoadErrors(endpointFile')
      BY <1>1, <1>2, <1>6, <1>3 DEF LoadErrors, Taken, Readable
<1>9. LoadErrors(endpointFile') \subseteq LoadErrors(endpointFile)
      BY <1>7, <1>8 DEF LoadErrors
<1>10. \A g \in BatchFile : OnDisk(g) => g # h /\ endpointFile'[g] = endpointFile[g]
       BY <1>1 DEF h
<1>11. \A g \in BatchFile : (OnDisk(g))' /\ g # h => OnDisk(g)
       BY <1>1 DEF OnDisk
<1>12. 1 \in DOMAIN <<Made(c)>> /\ \A n \in DOMAIN <<Made(c)>> : <<Made(c)>>[n] = Made(c)
       OBVIOUS
<1>13. \A g \in BatchFile : OnDisk(g) => endpointFile[g].selected \in DOMAIN endpointFile[g].variants
       BY DEF FilesTyped
<1>14. GrownBy(c)
  <2>1. \A g \in BatchFile : OnDisk(g) =>
          /\ (OnDisk(g))'
          /\ endpointFile'[g] = endpointFile[g]
        BY <1>10 DEF OnDisk
  <2>2. \A g \in BatchFile : (OnDisk(g))' =>
          /\ endpointFile'[g].selected \in DOMAIN endpointFile'[g].variants
          /\ \A n \in DOMAIN endpointFile'[g].variants :
               \/ endpointFile'[g].variants[n] = Made(c)
               \/ /\ OnDisk(g) /\ n \in DOMAIN endpointFile[g].variants
                  /\ endpointFile'[g].variants[n] = endpointFile[g].variants[n]
        BY <1>1, <1>10, <1>11, <1>12, <1>13
  <2> QED
      BY <1>1, <1>9, <2>1, <2>2 DEF GrownBy
<1> QED
    BY <1>7, <1>14 DEF h

LEMMA GrownTyped ==
  ASSUME FilesTyped, EngineTyped, NEW c, GrownBy(c), UNCHANGED <<inUse, spent>>
  PROVE  FilesTyped'
<1>1. UpTo(Made(c), spent.batches)
      BY DEF UpTo, Made, EngineTyped
<1>2. ASSUME NEW f \in BatchFile, (OnDisk(f))', NEW n \in DOMAIN endpointFile'[f].variants
      PROVE  UpTo(endpointFile'[f].variants[n], spent.batches)
      BY <1>1, <1>2 DEF GrownBy, FilesTyped
<1> QED
    BY <1>2 DEF GrownBy, FilesTyped, UpTo

-------------------------------------------------------------------------------
(* One item of a batch. *)

\* What every way to end an item does to the batch.
ItemEnds(item) ==
  /\ DOMAIN batch' = BatchFields
  /\ batch'.at = "items" /\ batch'.kind = batch.kind /\ batch'.run = batch.run
  /\ batch'.options = batch.options /\ batch'.wanted = batch.wanted /\ batch'.before = batch.before
  /\ batch'.items = Append(batch.items, item)
  /\ \/ /\ batch'.todo = Tail(batch.todo) /\ batch'.captures = Tail(batch.captures)
        /\ batch'.outcome = batch.outcome
     \/ batch'.todo = <<>> /\ batch'.captures = <<>> /\ batch'.outcome = "interrupted"
  /\ UNCHANGED <<traffic, keyOf, view, inUse, meddled, spent>>

\* An item that is the head's, which the batch has not come to yet.
Proper(item) ==
  /\ item \in BatchItem /\ item.of = Head(batch.captures).of
  /\ item.runtime = "not_applicable" /\ ~item.superseded
  /\ item.file = 0 => ~Written(item)
  /\ item.expects => item.selects
  /\ item.selects => Written(item)

\* A batch that has something to do.
Doing == CaptureInv /\ batch.at = "items" /\ batch.todo # <<>>

LEMMA DoingFacts ==
  ASSUME Doing
  PROVE  /\ batch # NoBatch /\ BatchTyped /\ TodoInv /\ WrittenInv /\ KeptTyped /\ DestsInv /\ QuietInv
         /\ batch.outcome = "none" /\ batch.todo \in Seq(IF batch.kind = "dump" THEN CaptureRef ELSE Nat)
         /\ batch.captures \in Seq(CopiedCapture) /\ batch.captures # <<>>
         /\ Len(batch.captures) = Len(batch.todo)
         /\ Head(batch.captures) = batch.captures[1] /\ 1 \in DOMAIN batch.captures
         /\ Head(batch.captures) \in CopiedCapture
         /\ EngineTyped /\ FilesTyped /\ ViewTyped
<1>1. batch # NoBatch
      BY DEF Doing, NoBatch
<1>2. /\ BatchTyped /\ TodoInv /\ WrittenInv /\ KeptTyped /\ DestsInv /\ QuietInv
      /\ EngineTyped /\ FilesTyped /\ ViewTyped
      BY <1>1 DEF Doing, CaptureInv, BatchInv
<1>3. batch.outcome = "none"
      BY <1>2 DEF KeptTyped, Doing
<1>4. /\ batch.todo \in Seq(IF batch.kind = "dump" THEN CaptureRef ELSE Nat)
      /\ batch.captures \in Seq(CopiedCapture) /\ Len(batch.captures) = Len(batch.todo)
      BY <1>2, <1>3 DEF BatchTyped, TodoInv, Going, Doing
<1>5. batch.captures # <<>>
      BY <1>4 DEF Doing
<1>6. /\ Head(batch.captures) = batch.captures[1] /\ 1 \in DOMAIN batch.captures
      /\ Head(batch.captures) \in CopiedCapture
      BY <1>4, <1>5
<1> QED
    BY <1>1, <1>2, <1>3, <1>4, <1>5, <1>6

LEMMA ItemTyped ==
  ASSUME Doing, NEW item, Proper(item), ItemEnds(item)
  PROVE  BatchTyped'
<1>1. BatchTyped /\ batch.outcome = "none"
      BY DoingFacts
<1>2. Append(batch.items, item) \in Seq(BatchItem)
      BY <1>1 DEF BatchTyped, Proper
<1> DEFINE Ref == IF batch.kind = "dump" THEN CaptureRef ELSE Nat
<1>3. batch'.todo \in Seq(Ref) /\ batch'.captures \in Seq(CopiedCapture)
  <2>1. /\ batch.todo \in Seq(Ref) /\ batch.todo # <<>>
        /\ batch.captures \in Seq(CopiedCapture) /\ batch.captures # <<>>
        BY DoingFacts DEF Doing
  <2> HIDE DEF Ref
  <2>2. Tail(batch.todo) \in Seq(Ref) /\ Tail(batch.captures) \in Seq(CopiedCapture)
        BY <2>1
  <2>3. <<>> \in Seq(Ref) /\ <<>> \in Seq(CopiedCapture)
        OBVIOUS
  <2> QED
      BY <2>2, <2>3 DEF ItemEnds
<1>5. batch'.outcome \in {"none", "interrupted"}
      BY <1>1 DEF ItemEnds
<1> QED
    BY <1>1, <1>2, <1>3, <1>5 DEF BatchTyped, ItemEnds, Phases

LEMMA ItemTodo ==
  ASSUME Doing, NEW item, Proper(item), ItemEnds(item)
  PROVE  TodoInv' /\ OnlyWhatWasChosen'
<1> DEFINE caps == batch.captures
           items == batch.items
           more == Append(items, item)
           rest == batch'.captures
<1>1. /\ caps \in Seq(CopiedCapture) /\ caps # <<>> /\ Len(caps) = Len(batch.todo)
      /\ items \in Seq(BatchItem) /\ item.of = caps[1].of /\ 1 \in DOMAIN caps
      /\ batch.outcome = "none" /\ batch.at = "items"
      BY DoingFacts DEF BatchTyped, Proper, Doing
<1>2. /\ \A i \in DOMAIN caps :
           /\ OfBatch(caps[i].of) /\ (caps[i].there => caps[i].of \in DOMAIN keyOf)
           /\ \A j \in DOMAIN caps : caps[i].of = caps[j].of => i = j
           /\ \A j \in DOMAIN items : items[j].of # caps[i].of
      /\ \A i, j \in DOMAIN items : items[i].of = items[j].of => i = j
      /\ \A i \in DOMAIN items :
           OfBatch(items[i].of) /\ (items[i].file = 0 => ~Written(items[i]) /\ items[i].runtime = "not_applicable")
      BY <1>1, DoingFacts DEF TodoInv, Going
<1>3. batch'.items = more /\ DOMAIN more = 1..(Len(items) + 1) /\ DOMAIN items = 1..Len(items)
      BY <1>1 DEF ItemEnds
<1>4. \A i \in DOMAIN more : (i \in DOMAIN items /\ more[i] = items[i]) \/ (i = Len(items) + 1 /\ more[i] = item)
      BY <1>1
<1>5. \A i \in DOMAIN rest : i + 1 \in DOMAIN caps /\ i + 1 # 1 /\ rest[i] = caps[i + 1] /\ i \in Nat
  <2>1. CASE rest = Tail(caps)
        BY <1>1, <2>1
  <2>2. CASE rest = <<>>
        BY <2>2
  <2> QED
      BY <2>1, <2>2 DEF ItemEnds
<1>6. Len(rest) = Len(batch'.todo)
  <2> DEFINE Ref == IF batch.kind = "dump" THEN CaptureRef ELSE Nat
  <2>1. batch.todo \in Seq(Ref) /\ batch.todo # <<>>
        BY DoingFacts DEF Doing
  <2> HIDE DEF Ref
  <2>2. Len(Tail(batch.todo)) = Len(batch.todo) - 1 /\ Len(Tail(caps)) = Len(caps) - 1
        BY <1>1, <2>1
  <2>3. Len(<<>>) = 0
        OBVIOUS
  <2> QED
      BY <1>1, <2>2, <2>3 DEF ItemEnds
<1>7. batch'.wanted = batch.wanted /\ batch'.kind = batch.kind /\ batch'.run = batch.run
      BY DEF ItemEnds
<1>8. keyOf' = keyOf
      BY DEF ItemEnds
<1> HIDE DEF caps, items, more, rest
<1>9. \A i \in DOMAIN rest :
        /\ OfBatch(rest[i].of) /\ (rest[i].there => rest[i].of \in DOMAIN keyOf')
        /\ \A j \in DOMAIN rest : rest[i].of = rest[j].of => i = j
        /\ \A j \in DOMAIN more : more[j].of # rest[i].of
  <2> TAKE i \in DOMAIN rest
  <2>0. /\ i + 1 \in DOMAIN caps /\ i + 1 # 1 /\ rest[i] = caps[i + 1] /\ i \in Nat
        BY <1>5
  <2>1. OfBatch(rest[i].of) /\ (rest[i].there => rest[i].of \in DOMAIN keyOf')
        BY <2>0, <1>2, <1>8
  <2>2. \A j \in DOMAIN rest : rest[i].of = rest[j].of => i = j
        BY <2>0, <1>2, <1>5
  <2>3. \A j \in DOMAIN more : more[j].of # rest[i].of
        BY <2>0, <1>1, <1>2, <1>4
  <2> QED
      BY <2>1, <2>2, <2>3
<1>10. \A i, j \in DOMAIN more : more[i].of = more[j].of => i = j
       BY <1>1, <1>2, <1>4
<1>11. \A i \in DOMAIN more :
         /\ OfBatch(more[i].of)
         /\ more[i].file = 0 => ~Written(more[i]) /\ more[i].runtime = "not_applicable"
       BY <1>1, <1>2, <1>4 DEF Proper
<1>12. TodoInv'
       BY <1>3, <1>6, <1>7, <1>9, <1>10, <1>11 DEF TodoInv, OfBatch, rest, Written
<1>13. \A i \in DOMAIN rest : rest[i].of \in batch'.wanted
       BY <1>7, <1>9 DEF OfBatch
<1>14. rest \in Seq(CopiedCapture)
       BY ItemTyped DEF BatchTyped, rest
<1>15. OnlyWhatWasChosen'
       BY <1>13, <1>14 DEF OnlyWhatWasChosen, ToSet, rest
<1> QED
    BY <1>12, <1>15

\* The items after one more, by number.
LEMMA ItemsMore ==
  ASSUME Doing, NEW item, Proper(item), ItemEnds(item)
  PROVE  /\ batch.items \in Seq(BatchItem) /\ batch'.items \in Seq(BatchItem) /\ Len(batch.items) \in Nat
         /\ DOMAIN batch.items = 1..Len(batch.items) /\ DOMAIN batch'.items = 1..(Len(batch.items) + 1)
         /\ \A i \in DOMAIN batch.items : i \in DOMAIN batch'.items /\ batch'.items[i] = batch.items[i]
         /\ batch'.items[Len(batch.items) + 1] = item
<1>1. batch.items \in Seq(BatchItem) /\ batch'.items = Append(batch.items, item) /\ item \in BatchItem
      BY DoingFacts DEF BatchTyped, ItemEnds, Proper
<1> QED
    BY <1>1

LEMMA ItemWritten ==
  ASSUME Doing, NEW item, Proper(item), ItemEnds(item), GrownBy(item.of),
         endpointFile' = endpointFile \/ item.write \notin {"skipped", "unavailable"},
         Written(item) =>
           /\ item.file \in BatchFile /\ item.of \in DOMAIN keyOf /\ (OnDisk(item.file))'
           /\ item.variant \in DOMAIN endpointFile'[item.file].variants
           /\ endpointFile'[item.file].variants[item.variant] = Made(item.of)
           /\ item.file \notin meddled => endpointFile'[item.file].key = keyOf[item.of]
  PROVE  WrittenInv'
<1> DEFINE items == batch.items
           more == batch'.items
           last == Len(batch.items) + 1
<1>1. /\ \A i \in DOMAIN items : i \in DOMAIN more /\ more[i] = items[i]
      /\ \A i \in DOMAIN more : (i \in DOMAIN items /\ more[i] = items[i]) \/ more[i] = item
      /\ last \in DOMAIN more /\ more[last] = item
      BY ItemsMore
<1>2. /\ \A i \in DOMAIN items :
           Written(items[i]) =>
             /\ items[i].file \in BatchFile /\ items[i].of \in DOMAIN keyOf /\ OnDisk(items[i].file)
             /\ items[i].variant \in DOMAIN endpointFile[items[i].file].variants
             /\ endpointFile[items[i].file].variants[items[i].variant] = Made(items[i].of)
             /\ items[i].file \notin meddled => endpointFile[items[i].file].key = keyOf[items[i].of]
      /\ \A f \in BatchFile : OnDisk(f) =>
           \A n \in DOMAIN endpointFile[f].variants :
             MadeNow(endpointFile[f].variants[n]) =>
               \E i \in DOMAIN items :
                 /\ endpointFile[f].variants[n] = Made(items[i].of)
                 /\ items[i].write \notin {"skipped", "unavailable"}
      BY DoingFacts DEF WrittenInv, Going, Doing
<1>3. keyOf' = keyOf /\ meddled' = meddled /\ spent' = spent
      BY DEF ItemEnds
<1>4. \A f \in BatchFile : OnDisk(f) =>
        /\ (OnDisk(f))' /\ endpointFile'[f].key = endpointFile[f].key
        /\ \A n \in DOMAIN endpointFile[f].variants :
             n \in DOMAIN endpointFile'[f].variants /\ endpointFile'[f].variants[n] = endpointFile[f].variants[n]
      BY DEF GrownBy
<1> HIDE DEF items, more, last
<1>5. ASSUME NEW i \in DOMAIN more, Written(more[i])
      PROVE  /\ more[i].file \in BatchFile /\ more[i].of \in DOMAIN keyOf /\ endpointFile'[more[i].file] # NoEndpointFile
             /\ more[i].variant \in DOMAIN endpointFile'[more[i].file].variants
             /\ endpointFile'[more[i].file].variants[more[i].variant] = Made(more[i].of)
             /\ more[i].file \notin meddled => endpointFile'[more[i].file].key = keyOf[more[i].of]
  <2>1. CASE more[i] = item
        BY <2>1, <1>5 DEF OnDisk
  <2>2. CASE i \in DOMAIN items /\ more[i] = items[i]
        BY <2>2, <1>2, <1>4, <1>5 DEF OnDisk
  <2> QED
      BY <2>1, <2>2, <1>1
<1>6. ASSUME NEW f \in BatchFile, (OnDisk(f))', NEW n \in DOMAIN endpointFile'[f].variants,
             MadeNow(endpointFile'[f].variants[n])
      PROVE  \E i \in DOMAIN more : /\ endpointFile'[f].variants[n] = Made(more[i].of)
                                    /\ more[i].write \notin {"skipped", "unavailable"}
  <2>1. CASE OnDisk(f) /\ n \in DOMAIN endpointFile[f].variants
               /\ endpointFile'[f].variants[n] = endpointFile[f].variants[n]
        BY <2>1, <1>1, <1>2, <1>6
  <2>2. CASE /\ endpointFile'[f].variants[n] = Made(item.of)
             /\ item.write \notin {"skipped", "unavailable"}
        BY <2>2, <1>1
  <2>3. CASE endpointFile' = endpointFile
        BY <2>3, <2>1, <1>6 DEF OnDisk
  <2> QED
      BY <2>1, <2>2, <2>3, <1>6 DEF GrownBy
<1>7. \A v : (MadeNow(v))' <=> v \in Nat \X CaptureRef /\ v[1] = spent.batches
      BY <1>3 DEF MadeNow
<1> QED
    BY <1>3, <1>5, <1>6 DEF WrittenInv, more, Written, Made, MadeNow, OnDisk

\* Another item puts aside those that select in the same file, and no others.
LEMMA SupersededMore ==
  ASSUME Doing, NEW item, Proper(item), ItemEnds(item)
  PROVE  /\ \A i \in DOMAIN batch.items :
              Superseded(batch'.items, i) <=>
                \/ Superseded(batch.items, i)
                \/ batch.items[i].selects /\ item.selects /\ item.file = batch.items[i].file
         /\ ~Superseded(batch'.items, Len(batch.items) + 1)
<1> DEFINE items == batch.items
           more == batch'.items
           last == Len(batch.items) + 1
<1>1. /\ DOMAIN items = 1..Len(items) /\ DOMAIN more = 1..last /\ last \in Nat
      /\ \A i \in DOMAIN items : i \in DOMAIN more /\ more[i] = items[i] /\ last > i
      /\ \A i \in DOMAIN more : (i \in DOMAIN items /\ more[i] = items[i]) \/ i = last
      /\ last \in DOMAIN more /\ more[last] = item
      BY ItemsMore
<1> HIDE DEF items, more, last
<1>2. ASSUME NEW i \in DOMAIN items
      PROVE  Superseded(more, i) <=>
               Superseded(items, i) \/ (items[i].selects /\ item.selects /\ item.file = items[i].file)
      BY <1>1 DEF Superseded
<1>3. ~Superseded(more, last)
      BY <1>1 DEF Superseded
<1> QED
    BY <1>2, <1>3 DEF items, more, last

LEMMA ItemQuiet ==
  ASSUME Doing, NEW item, Proper(item), ItemEnds(item), GrownBy(item.of),
         \A f \in BatchFile :
           \/ batch'.was[f] = batch.was[f]
           \/ ~OnDisk(f) /\ batch'.was[f] = endpointFile'[f] /\ (OnDisk(f))',
         ~batch.options.select => \A f \in BatchFile : OnDisk(f) =>
           /\ f \in LoadErrors(endpointFile) => f \in LoadErrors(endpointFile')
           /\ Loadable(endpointFile, f) => Loadable(endpointFile', f)
           /\ (UseOf(f))' = UseOf(f)
  PROVE  QuietInv'
<1> SUFFICES ASSUME meddled = {}, NEW f \in BatchFile
             PROVE  /\ batch'.was[f] # NoEndpointFile =>
                         (OnDisk(f))' /\ endpointFile'[f].on = batch'.was[f].on
                    /\ Unserved \notin batch.before[f] =>
                         /\ batch'.was[f] # NoEndpointFile
                         /\ ~batch.options.select /\ f \notin LoadErrors(endpointFile') =>
                              /\ inUse[f] \in batch.before[f] /\ Loadable(endpointFile', f)
                              /\ (UseOf(f))' \in batch.before[f]
    BY DEF QuietInv, ItemEnds
<1>1. /\ batch.was[f] # NoEndpointFile => OnDisk(f) /\ endpointFile[f].on = batch.was[f].on
      /\ Unserved \notin batch.before[f] =>
           /\ batch.was[f] # NoEndpointFile
           /\ ~batch.options.select /\ f \notin LoadErrors(endpointFile) =>
                inUse[f] \in batch.before[f] /\ Loadable(endpointFile, f) /\ UseOf(f) \in batch.before[f]
      BY DoingFacts DEF QuietInv, Doing
<1>2. OnDisk(f) => (OnDisk(f))' /\ endpointFile'[f].on = endpointFile[f].on
      BY DEF GrownBy
<1>3. CASE batch'.was[f] = batch.was[f]
      BY <1>1, <1>2, <1>3
<1>4. CASE ~OnDisk(f) /\ batch'.was[f] = endpointFile'[f] /\ (OnDisk(f))'
      BY <1>1, <1>4 DEF OnDisk
<1> QED
    BY <1>3, <1>4

LEMMA ItemKept ==
  ASSUME Doing, NEW item, Proper(item), ItemEnds(item),
         batch'.dests \in [RouteKey -> SUBSET BatchFile], batch'.was \in [BatchFile -> FileState]
  PROVE  KeptTyped'
<1>1. KeptTyped /\ batch.outcome = "none"
      BY DoingFacts
<1>2. ASSUME NEW i \in DOMAIN batch'.items
      PROVE  LET it == batch'.items[i] IN
             /\ it.runtime = "not_applicable" /\ ~it.superseded
             /\ it.expects => it.selects
             /\ it.selects => Written(it)
  <2>1. (i \in DOMAIN batch.items /\ batch'.items[i] = batch.items[i]) \/ batch'.items[i] = item
        BY ItemsMore
  <2> QED
      BY <1>1, <2>1 DEF KeptTyped, Proper, Doing
<1>3. batch'.items # <<>>
  <2>1. DOMAIN batch'.items = 1..(Len(batch.items) + 1) /\ Len(batch.items) \in Nat
        BY ItemsMore
  <2> QED
      BY <2>1
<1>4. /\ batch'.outcome \in {"none", "interrupted"} /\ (batch'.outcome = "interrupted" => batch'.todo = <<>>)
      /\ batch'.before \in [BatchFile -> SUBSET UseState]
      BY <1>1 DEF ItemEnds, KeptTyped, Doing
<1> QED
    BY <1>2, <1>3, <1>4 DEF KeptTyped, Written

LEMMA ItemDone ==
  ASSUME Doing, NEW item, Proper(item), ItemEnds(item), GrownBy(item.of),
         WrittenInv', KeptTyped', DestsInv', QuietInv'
  PROVE  CaptureInv'
<1>1. EngineTyped' /\ ViewTyped'
      BY DoingFacts DEF EngineTyped, ViewTyped, ItemEnds, NoBatch
<1>2. FilesTyped'
      BY DoingFacts, GrownTyped DEF ItemEnds
<1>3. BatchTyped' /\ TodoInv' /\ OnlyWhatWasChosen'
      BY ItemTyped, ItemTodo
<1>4. QueuedInv' /\ batch'.at = "items"
      BY DEF QueuedInv, ItemEnds
<1>5. BatchInv'
      BY <1>3, <1>4 DEF BatchInv
<1>6. MocksAsChosen'
      BY <1>3, <1>4 DEF MocksAsChosen, OutcomesTrue, NothingActivated, Ended
<1> QED
    BY <1>1, <1>2, <1>5, <1>6 DEF CaptureInv

\* An item that writes nothing.
LEMMA UnwrittenKeeps ==
  ASSUME Doing, NEW item, Proper(item), ~Written(item), ItemEnds(item), UNCHANGED endpointFile,
         batch'.dests = batch.dests, batch'.was = batch.was
  PROVE  CaptureInv'
<1>1. FilesTyped /\ KeptTyped /\ DestsInv
      BY DoingFacts
<1>2. GrownBy(item.of)
      BY <1>1, SameGrows
<1>3. WrittenInv'
      BY <1>2, ItemWritten
<1>4. KeptTyped'
      BY <1>1, ItemKept DEF KeptTyped, Doing
<1>5. QuietInv'
      BY <1>2, ItemQuiet DEF Loadable, UseOf
<1>6. DestsInv'
  <2>1. ~item.selects
        BY DEF Proper
  <2>2. ASSUME NEW i \in DOMAIN batch'.items, batch'.items[i].selects, ~Superseded(batch'.items, i)
        PROVE  endpointFile[batch'.items[i].file].selected = batch'.items[i].variant
    <3>1. i \in DOMAIN batch.items /\ batch'.items[i] = batch.items[i]
          BY <2>1, <2>2, ItemsMore
    <3>2. ~Superseded(batch.items, i)
          BY <2>1, <2>2, <3>1, SupersededMore
    <3> QED
        BY <1>1, <2>2, <3>1, <3>2, DoingFacts DEF DestsInv, Doing
  <2>3. /\ \A k \in RouteKey : \A f \in batch.dests[k] \ meddled : OnDisk(f) /\ endpointFile[f].key = k
        /\ \A f \in BatchFile : Readable(endpointFile, f) => f \in batch.dests[endpointFile[f].key]
        /\ \A f \in BatchFile \ meddled :
             inUse[f] # Unserved /\ MadeNow(inUse[f].variant) => f \notin LoadErrors(endpointFile)
        BY DoingFacts DEF DestsInv, Doing
  <2>4. UNCHANGED <<inUse, meddled, spent>>
        BY DEF ItemEnds
  <2> QED
      BY <2>2, <2>3, <2>4 DEF DestsInv, OnDisk, MadeNow
<1> QED
    BY <1>2, <1>3, <1>4, <1>5, <1>6, ItemDone

\* A variant added to the file of the request's key, which loads or not as it did.
LEMMA AddKeeps ==
  ASSUME Doing, NEW item, Proper(item), ItemEnds(item),
         item.write = "variant_added", item.of \in DOMAIN keyOf,
         NEW f \in BatchFile, item.file = f, f \in batch.dests[keyOf[item.of]],
         OnDisk(f), endpointFile[f].readable,
         NEW select \in BOOLEAN, select = batch.options.select, item.selects = select,
         item.variant = Len(endpointFile[f].variants) + 1,
         endpointFile' = WithVariant(f, item.of, select),
         batch'.dests = batch.dests, batch'.was = batch.was
  PROVE  CaptureInv'
<1> DEFINE v == endpointFile[f].variants
           k == keyOf[item.of]
<1>1. FilesTyped /\ EngineTyped /\ KeptTyped /\ DestsInv /\ WrittenInv /\ batch.outcome = "none"
      BY DoingFacts
<1>2. item.of \in CaptureRef /\ k \in RouteKey
      BY <1>1 DEF EngineTyped
<1>3. /\ GrownBy(item.of)
      /\ \A g \in BatchFile : Readable(endpointFile', g) <=> Readable(endpointFile, g)
      /\ \A g \in BatchFile : OnDisk(g) => endpointFile'[g].key = endpointFile[g].key
      /\ ~select => \A g \in BatchFile :
           /\ g \in LoadErrors(endpointFile') <=> g \in LoadErrors(endpointFile)
           /\ Loadable(endpointFile', g) <=> Loadable(endpointFile, g)
           /\ OnDisk(g) => (UseOf(g))' = UseOf(g)
      BY <1>1, <1>2, AppendedGrows
<1>4. /\ \A g \in BatchFile : (OnDisk(g))' <=> OnDisk(g)
      /\ \A g \in BatchFile : g # f => endpointFile'[g] = endpointFile[g]
      /\ endpointFile'[f].variants = Append(v, Made(item.of))
      /\ endpointFile'[f].selected = IF select THEN Len(v) + 1 ELSE endpointFile[f].selected
      BY <1>1, <1>2, Appended
<1>5. v \in Seq(MockVariant)
      BY <1>1, FileThere DEF FileRecord
<1>6. f \notin meddled => endpointFile[f].key = k
      BY <1>1, <1>2 DEF DestsInv, Doing
<1>7. WrittenInv'
  <2>1. Len(v) + 1 \in DOMAIN Append(v, Made(item.of)) /\ Append(v, Made(item.of))[Len(v) + 1] = Made(item.of)
        BY <1>5
  <2>2. item.write \notin {"skipped", "unavailable"}
        OBVIOUS
  <2> QED
      BY <1>3, <1>4, <1>6, <2>1, <2>2, ItemWritten
<1>8. KeptTyped'
      BY <1>1, ItemKept DEF KeptTyped, Doing
<1>9. QuietInv'
      BY <1>3, ItemQuiet
<1>10. DestsInv'
  <2>1. ASSUME NEW i \in DOMAIN batch'.items, batch'.items[i].selects, ~Superseded(batch'.items, i)
        PROVE  endpointFile'[batch'.items[i].file].selected = batch'.items[i].variant
    <3>1. CASE i \in DOMAIN batch.items /\ batch'.items[i] = batch.items[i]
      <4>1. ~Superseded(batch.items, i) /\ ~(item.selects /\ batch.items[i].file = f)
            BY <2>1, <3>1, SupersededMore
      <4>2. endpointFile[batch.items[i].file].selected = batch.items[i].variant
            BY <1>1, <2>1, <3>1, <4>1 DEF DestsInv, Doing
      <4>3. batch.items[i].file \in BatchFile
            BY <1>1, <2>1, <3>1 DEF KeptTyped, WrittenInv, Going, Doing
      <4> QED
          BY <1>4, <3>1, <4>1, <4>2, <4>3
    <3>2. CASE i = Len(batch.items) + 1
          BY <1>4, <2>1, <3>2, ItemsMore
    <3> QED
        BY <3>1, <3>2, ItemsMore
  <2>2. ASSUME NEW x \in RouteKey, NEW g \in batch.dests[x] \ meddled
        PROVE  (OnDisk(g))' /\ endpointFile'[g].key = x
        BY <1>1, <1>3, <1>4 DEF DestsInv, KeptTyped, Doing
  <2>3. ASSUME NEW g \in BatchFile, Readable(endpointFile', g)
        PROVE  g \in batch.dests[endpointFile'[g].key]
        BY <1>1, <1>3, <2>3 DEF DestsInv, Doing, Readable, OnDisk
  <2>4. ASSUME NEW g \in BatchFile \ meddled, inUse[g] # Unserved, MadeNow(inUse[g].variant)
        PROVE  g \notin LoadErrors(endpointFile')
        BY <1>1, <1>3, <2>4 DEF DestsInv, Doing, GrownBy
  <2>5. UNCHANGED <<inUse, meddled, spent>>
        BY DEF ItemEnds
  <2> QED
      BY <2>1, <2>2, <2>3, <2>4, <2>5 DEF DestsInv, MadeNow
<1> QED
    BY <1>3, <1>7, <1>8, <1>9, <1>10, ItemDone

\* A file for a key that no file had.
LEMMA CreateKeeps ==
  ASSUME Doing, NEW item, Proper(item), ItemEnds(item),
         item.write = "created", item.of \in DOMAIN keyOf, item.selects, item.variant = 1,
         NEW k \in RouteKey, k = keyOf[item.of], item.file = Home[k],
         batch.dests[k] = {}, ~OnDisk(Home[k]),
         NEW enable \in BOOLEAN, endpointFile' = WithEndpoint(k, item.of, enable),
         batch'.dests = [batch.dests EXCEPT ![k] = {Home[k]}],
         batch'.was = [batch.was EXCEPT ![Home[k]] = endpointFile'[Home[k]]]
  PROVE  CaptureInv'
<1> DEFINE h == Home[k]
<1>1. FilesTyped /\ EngineTyped /\ KeptTyped /\ DestsInv /\ WrittenInv /\ batch.outcome = "none"
      BY DoingFacts
<1>2. item.of \in CaptureRef
      BY <1>1 DEF EngineTyped
<1>3. \A g \in BatchFile : Readable(endpointFile, g) => endpointFile[g].key # k
      BY <1>1 DEF DestsInv, Doing
<1>4. GrownBy(item.of)
      BY <1>1, <1>2, <1>3, CreatedGrows
<1>5. /\ h \in BatchFile /\ (OnDisk(h))'
      /\ \A g \in BatchFile : g # h => endpointFile'[g] = endpointFile[g]
      /\ endpointFile'[h] =
           [key |-> k, on |-> enable, readable |-> TRUE, variants |-> <<Made(item.of)>>, selected |-> 1]
      /\ endpointFile'[h] \in FileRecord
      BY <1>1, <1>2, Created
<1>6. WrittenInv'
  <2>1. item.write \notin {"skipped", "unavailable"} /\ 1 \in DOMAIN <<Made(item.of)>> /\ <<Made(item.of)>>[1] = Made(item.of)
        OBVIOUS
  <2> QED
      BY <1>4, <1>5, <2>1, ItemWritten
<1>7. /\ batch.dests \in [RouteKey -> SUBSET BatchFile] /\ batch.was \in [BatchFile -> FileState]
      BY <1>1 DEF KeptTyped, Doing
<1>8. KeptTyped'
  <2>1. batch'.dests \in [RouteKey -> SUBSET BatchFile] /\ batch'.was \in [BatchFile -> FileState]
        BY <1>5, <1>7 DEF FileState
  <2> QED
      BY <2>1, ItemKept
<1>9. QuietInv'
  <2>1. \A g \in BatchFile : \/ batch'.was[g] = batch.was[g]
                             \/ ~OnDisk(g) /\ batch'.was[g] = endpointFile'[g] /\ (OnDisk(g))'
        BY <1>5, <1>7
  <2>2. \A g \in BatchFile : OnDisk(g) =>
          /\ g \in LoadErrors(endpointFile) => g \in LoadErrors(endpointFile')
          /\ Loadable(endpointFile, g) => Loadable(endpointFile', g)
          /\ (UseOf(g))' = UseOf(g)
        BY <1>1, <1>2, <1>3, <1>5, CreatedGrows DEF Loadable, UseOf
  <2> QED
      BY <1>4, <2>1, <2>2, ItemQuiet
<1>10. DestsInv'
  <2>1. ASSUME NEW i \in DOMAIN batch'.items, batch'.items[i].selects, ~Superseded(batch'.items, i)
        PROVE  endpointFile'[batch'.items[i].file].selected = batch'.items[i].variant
    <3>1. CASE i \in DOMAIN batch.items /\ batch'.items[i] = batch.items[i]
      <4>1. ~Superseded(batch.items, i)
            BY <2>1, <3>1, SupersededMore
      <4>2. endpointFile[batch.items[i].file].selected = batch.items[i].variant
            BY <1>1, <2>1, <3>1, <4>1 DEF DestsInv, Doing
      <4>3. batch.items[i].file \in BatchFile /\ OnDisk(batch.items[i].file)
            BY <1>1, <2>1, <3>1 DEF KeptTyped, WrittenInv, Going, Doing
      <4> QED
          BY <1>5, <3>1, <4>2, <4>3
    <3>2. CASE i = Len(batch.items) + 1
          BY <1>5, <3>2, ItemsMore
    <3> QED
        BY <3>1, <3>2, ItemsMore
  <2>2. ASSUME NEW x \in RouteKey, NEW g \in batch'.dests[x] \ meddled
        PROVE  endpointFile'[g] # NoEndpointFile /\ endpointFile'[g].key = x
    <3>1. CASE x = k
          BY <1>5, <1>7, <2>2, <3>1 DEF OnDisk
    <3>2. CASE x # k
      <4>1. g \in batch.dests[x] \ meddled /\ g \in BatchFile
            BY <1>7, <2>2, <3>2
      <4>2. OnDisk(g) /\ endpointFile[g].key = x
            BY <1>1, <4>1 DEF DestsInv, Doing
      <4> QED
          BY <1>5, <4>1, <4>2 DEF OnDisk
    <3> QED
        BY <3>1, <3>2
  <2>3. ASSUME NEW g \in BatchFile, Readable(endpointFile', g)
        PROVE  g \in batch'.dests[endpointFile'[g].key]
    <3>1. CASE g = h
          BY <1>5, <1>7, <3>1
    <3>2. CASE g # h
      <4>1. endpointFile'[g] = endpointFile[g] /\ Readable(endpointFile, g)
            BY <1>5, <2>3, <3>2 DEF Readable
      <4>2. g \in batch.dests[endpointFile[g].key] /\ endpointFile[g].key # k
            BY <1>1, <1>3, <4>1 DEF DestsInv, Doing
      <4>3. endpointFile[g].key \in RouteKey
            BY <1>1, <4>1, FileThere DEF Readable, OnDisk, FileRecord
      <4> QED
          BY <1>7, <4>1, <4>2, <4>3
    <3> QED
        BY <3>1, <3>2
  <2>4. ASSUME NEW g \in BatchFile \ meddled, inUse[g] # Unserved, MadeNow(inUse[g].variant)
        PROVE  g \notin LoadErrors(endpointFile')
        BY <1>1, <1>4, <2>4 DEF DestsInv, Doing, GrownBy
  <2>5. UNCHANGED <<inUse, meddled, spent>>
        BY DEF ItemEnds
  <2> QED
      BY <2>1, <2>2, <2>3, <2>4, <2>5 DEF DestsInv, MadeNow, OnDisk
<1> QED
    BY <1>4, <1>6, <1>8, <1>9, <1>10, ItemDone

\* A write that could not be undone: the batch stops, with the file as it was or as it would be.
LEMMA InterruptedKeeps ==
  ASSUME Doing, NEW item, Proper(item), ItemEnds(item), item.write = "failed",
         batch'.outcome = "interrupted", GrownBy(item.of),
         ~batch.options.select => \A f \in BatchFile : OnDisk(f) =>
           /\ f \in LoadErrors(endpointFile) => f \in LoadErrors(endpointFile')
           /\ Loadable(endpointFile, f) => Loadable(endpointFile', f)
           /\ (UseOf(f))' = UseOf(f),
         batch'.dests = batch.dests, batch'.was = batch.was
  PROVE  CaptureInv'
<1>1. KeptTyped
      BY DoingFacts
<1>2. ~Written(item) /\ item.write \notin {"skipped", "unavailable"}
      BY DEF Written
<1>3. WrittenInv'
      BY <1>2, ItemWritten
<1>4. KeptTyped'
      BY <1>1, ItemKept DEF KeptTyped, Doing
<1>5. QuietInv'
      BY ItemQuiet
<1>6. DestsInv'
      BY DEF DestsInv
<1> QED
    BY <1>3, <1>4, <1>5, <1>6, ItemDone

LEMMA ProcessedEnds ==
  ASSUME Doing, NEW item, Processed(item)
  PROVE  ItemEnds(item) /\ batch'.dests = batch.dests /\ batch'.was = batch.was
<1>1. DOMAIN batch = BatchFields /\ batch.at = "items"
      BY DoingFacts DEF BatchTyped, Doing
<1> QED
    BY <1>1 DEF Processed, ItemEnds, BatchFields

LEMMA FailedProper ==
  ASSUME Doing
  PROVE  LET c == Head(batch.captures).of IN
         /\ c \in CaptureRef /\ Proper(Failed(c)) /\ Failed(c).of = c
         /\ ~Written(Failed(c)) /\ Failed(c).write = "failed"
<1>1. Head(batch.captures).of \in CaptureRef
      BY DoingFacts DEF CopiedCapture
<1> QED
    BY <1>1 DEF Proper, Failed, Item, BatchItem, Written

\* A write that failed, of files that would have grown.
LEMMA UnwrittenFails ==
  ASSUME Doing, NEW c, c = Head(batch.captures).of, NEW files, Unwritten(c, files),
         endpointFile' = files =>
           /\ GrownBy(c)
           /\ ~batch.options.select => \A f \in BatchFile : OnDisk(f) =>
                /\ f \in LoadErrors(endpointFile) => f \in LoadErrors(endpointFile')
                /\ Loadable(endpointFile, f) => Loadable(endpointFile', f)
                /\ (UseOf(f))' = UseOf(f)
  PROVE  CaptureInv'
<1>1. CASE Processed(Failed(c)) /\ UNCHANGED endpointFile
      BY <1>1, ProcessedEnds, FailedProper, UnwrittenKeeps
<1>2. CASE /\ endpointFile' \in {endpointFile, files}
           /\ batch' = [batch EXCEPT !.items = Append(@, Failed(c)), !.todo = <<>>, !.captures = <<>>,
                                     !.outcome = "interrupted"]
           /\ UNCHANGED <<traffic, keyOf, view, inUse, meddled, spent>>
  <2>1. DOMAIN batch = BatchFields /\ batch.at = "items" /\ FilesTyped
        BY DoingFacts DEF BatchTyped, Doing
  <2>2. /\ ItemEnds(Failed(c)) /\ batch'.dests = batch.dests /\ batch'.was = batch.was
        /\ batch'.outcome = "interrupted"
        BY <1>2, <2>1 DEF ItemEnds, BatchFields
  <2>3. GrownBy(c)
        BY <1>2, <2>1, SameGrows
  <2>4. ~batch.options.select => \A f \in BatchFile : OnDisk(f) =>
          /\ f \in LoadErrors(endpointFile) => f \in LoadErrors(endpointFile')
          /\ Loadable(endpointFile, f) => Loadable(endpointFile', f)
          /\ (UseOf(f))' = UseOf(f)
        BY <1>2 DEF Loadable, UseOf
  <2> QED
      BY <2>2, <2>3, <2>4, FailedProper, InterruptedKeeps
<1> QED
    BY <1>1, <1>2 DEF Unwritten

LEMMA ProcessKeeps == ASSUME CaptureInv, ProcessItem PROVE CaptureInv'
<1> DEFINE c == Head(batch.captures).of
           k == keyOf[c]
           found == batch.dests[k]
           f == CHOOSE x \in found : TRUE
           o == batch.options
           added == Item(c, f, "variant_added", Len(endpointFile[f].variants) + 1,
                         o.select, o.select /\ batch.was[f].on)
           created == Item(c, Home[k], "created", 1, TRUE, o.enable)
<1>1. Doing
      BY Zenon DEF Doing, ProcessItem
<1>2. /\ FilesTyped /\ EngineTyped /\ KeptTyped /\ DestsInv /\ TodoInv /\ BatchTyped
      /\ batch.outcome = "none" /\ c \in CaptureRef /\ o.select \in BOOLEAN /\ o.enable \in BOOLEAN
      BY <1>1, DoingFacts, FailedProper DEF BatchTyped
<1>3. Proper(Failed(c)) /\ Failed(c).of = c /\ ~Written(Failed(c))
      BY <1>1, FailedProper
<1>4. ASSUME Processed(Failed(c)), UNCHANGED endpointFile PROVE CaptureInv'
      BY <1>1, <1>3, <1>4, ProcessedEnds, UnwrittenKeeps
<1>5. CASE ~Head(batch.captures).there
  <2> DEFINE item == Item(c, 0, "unavailable", 0, FALSE, FALSE)
  <2>1. Proper(item) /\ ~Written(item)
        BY <1>2 DEF Proper, Item, BatchItem, Written
  <2>2. Processed(item) /\ UNCHANGED endpointFile
        BY <1>5, Zenon DEF ProcessItem
  <2> QED
      BY <1>1, <2>1, <2>2, ProcessedEnds, UnwrittenKeeps, Zenon
<1>6. CASE Head(batch.captures).there
  <2>1. c \in DOMAIN keyOf /\ k \in RouteKey
    <3>1. 1 \in DOMAIN batch.captures /\ Head(batch.captures) = batch.captures[1]
          BY <1>1, DoingFacts
    <3> QED
        BY <1>1, <1>2, <1>6, <3>1 DEF TodoInv, Going, Doing, EngineTyped
  <2>2. found \subseteq BatchFile /\ (found # {} => f \in found)
        BY <1>1, <1>2, <2>1 DEF KeptTyped, Doing
  <2> HIDE DEF f
  <2>3. CASE Cardinality(found) > 1
        BY <1>4, <1>6, <2>3, Zenon DEF ProcessItem
  <2>4. CASE ~(Cardinality(found) > 1) /\ found # {} /\ ~o.add
    <3> DEFINE item == Item(c, f, "skipped", 0, FALSE, FALSE)
    <3>1. Proper(item) /\ ~Written(item)
          BY <1>2, <2>2, <2>4 DEF Proper, Item, BatchItem, Written
    <3>2. Processed(item) /\ UNCHANGED endpointFile
          BY <1>6, <2>4, Zenon DEF ProcessItem, f
    <3> QED
        BY <1>1, <3>1, <3>2, ProcessedEnds, UnwrittenKeeps
  <2>5. CASE ~(Cardinality(found) > 1) /\ found # {} /\ o.add
    <3>1. CASE ~OnDisk(f) \/ ~endpointFile[f].readable
          BY <1>4, <1>6, <2>5, <3>1, Zenon DEF ProcessItem, f
    <3>2. CASE OnDisk(f) /\ endpointFile[f].readable
      <4>1. f \in BatchFile /\ f \in found
            BY <2>2, <2>5
      <4>2. endpointFile[f].variants \in Seq(MockVariant)
            BY <1>2, <3>2, <4>1, FileThere DEF FileRecord
      <4>3. /\ Proper(added) /\ added.of = c /\ added.write = "variant_added" /\ added.file = f
            /\ added.selects = o.select /\ added.variant = Len(endpointFile[f].variants) + 1
            BY <1>2, <4>1, <4>2 DEF Proper, Item, BatchItem, Written, BatchFile
      <4>4. CASE endpointFile' = WithVariant(f, c, o.select) /\ Processed(added)
        <5> HIDE DEF added
        <5>1. ItemEnds(added) /\ batch'.dests = batch.dests /\ batch'.was = batch.was
              BY <1>1, <4>4, ProcessedEnds
        <5> QED
            BY <1>1, <1>2, <2>1, <3>2, <4>1, <4>3, <4>4, <5>1, AddKeeps
      <4>5. CASE Unwritten(c, WithVariant(f, c, o.select))
        <5>1. endpointFile' = WithVariant(f, c, o.select) =>
                /\ GrownBy(c)
                /\ ~o.select => \A g \in BatchFile : OnDisk(g) =>
                     /\ g \in LoadErrors(endpointFile) => g \in LoadErrors(endpointFile')
                     /\ Loadable(endpointFile, g) => Loadable(endpointFile', g)
                     /\ (UseOf(g))' = UseOf(g)
              BY <1>2, <3>2, <4>1, AppendedGrows
        <5> QED
            BY <1>1, <4>5, <5>1, UnwrittenFails
      <4> QED
          BY <1>6, <2>5, <3>2, <4>4, <4>5, Zenon DEF ProcessItem, f
    <3> QED
        BY <3>1, <3>2
  <2>6. CASE ~(Cardinality(found) > 1) /\ found = {}
    <3>1. CASE OnDisk(Home[k])
          BY <1>4, <1>6, <2>6, <3>1 DEF ProcessItem
    <3>2. CASE ~OnDisk(Home[k])
      <4>1. Home[k] \in BatchFile /\ \A g \in BatchFile : Readable(endpointFile, g) => endpointFile[g].key # k
            BY <1>1, <1>2, <2>1, <2>6, BatchAssumption DEF DestsInv, Doing
      <4>2. /\ Proper(created) /\ created.of = c /\ created.write = "created" /\ created.file = Home[k]
            /\ created.selects /\ created.variant = 1
            BY <1>2, <4>1 DEF Proper, Item, BatchItem, Written, BatchFile
      <4>3. CASE /\ endpointFile' = WithEndpoint(k, c, o.enable)
                 /\ batch' = [batch EXCEPT !.items = Append(@, created),
                                !.dests[k] = {Home[k]}, !.was[Home[k]] = endpointFile'[Home[k]],
                                !.todo = Tail(@), !.captures = Tail(@)]
                 /\ UNCHANGED <<traffic, keyOf, view, inUse, meddled, spent>>
        <5> HIDE DEF created
        <5>1. DOMAIN batch = BatchFields /\ batch.at = "items"
              BY <1>1, <1>2 DEF BatchTyped, Doing
        <5>2. /\ ItemEnds(created)
              /\ batch'.dests = [batch.dests EXCEPT ![k] = {Home[k]}]
              /\ batch'.was = [batch.was EXCEPT ![Home[k]] = endpointFile'[Home[k]]]
              BY <4>3, <5>1 DEF ItemEnds, BatchFields
        <5> QED
            BY <1>1, <1>2, <2>1, <2>6, <3>2, <4>2, <4>3, <5>2, CreateKeeps
      <4>4. CASE Unwritten(c, WithEndpoint(k, c, o.enable))
        <5>1. ASSUME endpointFile' = WithEndpoint(k, c, o.enable)
              PROVE  /\ GrownBy(c)
                     /\ \A g \in BatchFile : OnDisk(g) =>
                          /\ g \in LoadErrors(endpointFile) => g \in LoadErrors(endpointFile')
                          /\ Loadable(endpointFile, g) => Loadable(endpointFile', g)
                          /\ (UseOf(g))' = UseOf(g)
          <6>1. GrownBy(c) /\ \A g \in BatchFile : g # Home[k] =>
                  (g \in LoadErrors(endpointFile') <=> g \in LoadErrors(endpointFile))
                BY <1>2, <2>1, <3>2, <4>1, <5>1, CreatedGrows
          <6>2. \A g \in BatchFile : g # Home[k] => endpointFile'[g] = endpointFile[g]
                BY <1>2, <2>1, <3>2, <5>1, Created
          <6> QED
              BY <3>2, <6>1, <6>2 DEF Loadable, UseOf
        <5> QED
            BY <1>1, <4>4, <5>1, UnwrittenFails
      <4> QED
          BY <1>6, <2>6, <3>2, <4>3, <4>4 DEF ProcessItem
    <3> QED
        BY <3>1, <3>2
  <2> QED
      BY <2>3, <2>4, <2>5, <2>6
<1> QED
    BY <1>5, <1>6

-------------------------------------------------------------------------------
(* The other steps. *)

\* Steps that touch neither a batch nor the files.
LEMMA AsideKeeps ==
  ASSUME CaptureInv, EngineTyped', ViewTyped', UNCHANGED <<batch, endpointFile, inUse, meddled, spent>>,
         batch = NoBatch \/ keyOf' = keyOf
  PROVE  CaptureInv'
<1>1. FilesTyped'
      BY DEF CaptureInv, FilesTyped, OnDisk, UpTo
<1>2. CASE batch = NoBatch
  <2>1. batch'.at = "none" /\ batch' = NoBatch
        BY <1>2 DEF NoBatch
  <2>2. BatchInv'
        BY <2>1 DEF BatchInv, NoBatch
  <2>3. MocksAsChosen'
        BY <2>1 DEF MocksAsChosen, OnlyWhatWasChosen, OutcomesTrue, NothingActivated, Ended
  <2> QED
      BY <1>1, <2>2, <2>3 DEF CaptureInv
<1>3. CASE keyOf' = keyOf
  <2>1. BatchTyped => BatchTyped'
        BY DEF BatchTyped
  <2>2. QueuedInv => QueuedInv'
        BY DEF QueuedInv, OnDisk, MadeNow
  <2>3. TodoInv => TodoInv'
        BY <1>3 DEF TodoInv, Going, OfBatch, Written
  <2>4. WrittenInv => WrittenInv'
        BY <1>3 DEF WrittenInv, Going, Written, OnDisk, Made, MadeNow
  <2>5. KeptTyped => KeptTyped'
        BY DEF KeptTyped, Written
  <2>6. DestsInv => DestsInv'
        BY DEF DestsInv, OnDisk, MadeNow
  <2>7. QuietInv => QuietInv'
        BY DEF QuietInv, OnDisk, UseOf
  <2>8. BatchInv'
        BY <2>1, <2>2, <2>3, <2>4, <2>5, <2>6, <2>7 DEF CaptureInv, BatchInv, NoBatch
  <2>9. OnlyWhatWasChosen' /\ OutcomesTrue' /\ NothingActivated'
    <3>1. OnlyWhatWasChosen'
          BY DEF CaptureInv, MocksAsChosen, OnlyWhatWasChosen
    <3>2. OutcomesTrue'
          BY <1>3 DEF CaptureInv, MocksAsChosen, OutcomesTrue, Ended, Written, OnDisk
    <3>3. NothingActivated'
          BY DEF CaptureInv, MocksAsChosen, NothingActivated, Ended, OnDisk
    <3> QED
        BY <3>1, <3>2, <3>3
  <2> QED
      BY <1>1, <2>8, <2>9 DEF CaptureInv, MocksAsChosen
<1> QED
    BY <1>2, <1>3

LEMMA PassesKeeps == ASSUME CaptureInv, NEW k \in RouteKey, RequestPasses(k) PROVE CaptureInv'
<1> DEFINE c == <<traffic.run, traffic.last + 1>>
<1>1. /\ batch = NoBatch /\ traffic' = [traffic EXCEPT !.last = @ + 1]
      /\ keyOf' = [x \in DOMAIN keyOf \cup {c} |-> IF x = c THEN k ELSE keyOf[x]]
      /\ UNCHANGED <<view, batch, endpointFile, inUse, meddled, spent>>
      BY DEF RequestPasses, Idle
<1>2. EngineTyped
      BY DEF CaptureInv
<1>3. c \in CaptureRef
      BY <1>2 DEF EngineTyped, CaptureRef
<1> HIDE DEF c
<1>4. EngineTyped'
  <2>1. keyOf' \in [DOMAIN keyOf' -> RouteKey] /\ DOMAIN keyOf' \subseteq CaptureRef
        BY <1>1, <1>2, <1>3 DEF EngineTyped
  <2> QED
      BY <1>1, <1>2, <2>1 DEF EngineTyped
<1>5. ViewTyped'
      BY <1>1 DEF CaptureInv, ViewTyped, NoBatch
<1> QED
    BY <1>1, <1>4, <1>5, AsideKeeps

\* The intervals of the page are sets of what it shows.
LEMMA ViewKeeps ==
  ASSUME CaptureInv, UNCHANGED <<traffic, keyOf, batch, endpointFile, inUse, meddled, spent>>, ViewTyped'
  PROVE  CaptureInv'
BY AsideKeeps DEF CaptureInv, EngineTyped

LEMMA FollowKeeps == ASSUME CaptureInv, FollowStream PROVE CaptureInv'
<1>1. ViewTyped /\ EngineTyped
      BY DEF CaptureInv
<1>2. view' = [view EXCEPT !.run = traffic.run, !.shown = 1..traffic.last]
      BY DEF FollowStream
<1>3. traffic.run \in Nat /\ traffic.last \in Nat /\ 1..traffic.last \in SUBSET Nat /\ IsFiniteSet(1..traffic.last)
      BY <1>1, FS_Interval DEF EngineTyped
<1>4. ViewTyped'
      BY <1>1, <1>2, <1>3 DEF ViewTyped, NoBatch
<1> QED
    BY <1>4, ViewKeeps DEF FollowStream

LEMMA NothingTicked ==
  ASSUME NEW run \in Nat, NEW shown \in SUBSET Nat, NEW N, NEW sel \in N, NEW P, NEW prompt \in P
  PROVE  [run |-> run, shown |-> shown, sel |-> sel, anchor |-> 0, prompt |-> prompt, ticked |-> {}]
           \in [run : Nat, shown : SUBSET Nat, sel : N, anchor : Nat, prompt : P, ticked : SUBSET CaptureRef]
OBVIOUS

LEMMA UntickedTyped ==
  ASSUME ViewTyped, NEW shown \in SUBSET Nat, IsFiniteSet(shown),
         view' = [Unticked(view) EXCEPT !.shown = shown]
  PROVE  ViewTyped'
<1>1. NoSelection \in [run : Nat, ids : SUBSET Nat] /\ NoSelection.ids = {}
      BY DEF NoSelection
<1>2. view' = [view EXCEPT !.sel = NoSelection, !.anchor = 0, !.ticked = {}, !.shown = shown]
      BY DEF Unticked, ViewTyped
<1>3. view' \in [run : Nat, shown : SUBSET Nat, sel : [run : Nat, ids : SUBSET Nat], anchor : Nat,
                 prompt : {NoBatch} \cup [run : Nat, wanted : SUBSET CaptureRef, id : Nat],
                 ticked : SUBSET CaptureRef]
  <2>1. view' = [run |-> view.run, shown |-> shown, sel |-> NoSelection, anchor |-> 0,
                 prompt |-> view.prompt, ticked |-> {}]
        BY <1>2 DEF ViewTyped
  <2>2. view.run \in Nat /\ view.prompt \in {NoBatch} \cup [run : Nat, wanted : SUBSET CaptureRef, id : Nat]
        BY DEF ViewTyped
  <2> DEFINE P == {NoBatch} \cup [run : Nat, wanted : SUBSET CaptureRef, id : Nat]
             N == [run : Nat, ids : SUBSET Nat]
             V == [run : Nat, shown : SUBSET Nat, sel : N, anchor : Nat, prompt : P, ticked : SUBSET CaptureRef]
  <2>3. view.prompt \in P /\ NoSelection \in N /\ view.run \in Nat
        BY <1>1, <2>2
  <2> HIDE DEF P, N
  <2>4. [run |-> view.run, shown |-> shown, sel |-> NoSelection, anchor |-> 0,
         prompt |-> view.prompt, ticked |-> {}] \in V
        BY <2>3, NothingTicked
  <2> HIDE DEF V
  <2>5. view' \in V
        BY <2>1, <2>4
  <2> QED
      BY <2>5 DEF V, P, N
<1>4. view'.shown = shown /\ view'.sel = NoSelection /\ view'.prompt = view.prompt
      BY <1>2 DEF ViewTyped
<1>5. IsFiniteSet({})
      BY FS_EmptySet
<1> QED
    BY <1>1, <1>3, <1>4, <1>5 DEF ViewTyped, NoBatch

LEMMA ClearedKeeps == ASSUME CaptureInv, NEW log \in BOOLEAN, Cleared(log) PROVE CaptureInv'
<1>1. ViewTyped
      BY DEF CaptureInv
<1> DEFINE shown == IF log THEN {} ELSE view.shown
<1>2. shown \in SUBSET Nat /\ IsFiniteSet(shown)
      BY <1>1, FS_EmptySet DEF ViewTyped
<1>3. view' = [Unticked(view) EXCEPT !.shown = shown]
      BY <1>1 DEF Cleared, Unticked, ViewTyped
<1> HIDE DEF shown
<1>4. ViewTyped'
      BY <1>1, <1>2, <1>3, UntickedTyped
<1> QED
    BY <1>4, ViewKeeps DEF Cleared

LEMMA ToggleKeeps ==
  ASSUME CaptureInv, NEW id \in view.shown, NEW range \in BOOLEAN, Toggle(id, range)
  PROVE  CaptureInv'
<1> DEFINE now == SelectedIds(view)
           ranged == range /\ view.anchor \in view.shown
           more == IF ranged THEN Interval(view.anchor, id) ELSE {id}
           on == ranged \/ id \notin now
           mine == {<<view.run, i>> : i \in more}
           ids == IF on THEN now \cup more ELSE now \ more
           ticked == IF on THEN view.ticked \cup mine ELSE view.ticked \ mine
<1>1. ViewTyped
      BY DEF CaptureInv
<1>2. view' = [view EXCEPT !.anchor = id, !.sel = [run |-> view.run, ids |-> ids], !.ticked = ticked]
      BY DEF Toggle
<1>3. /\ now \in SUBSET Nat /\ IsFiniteSet(now)
      /\ \A i \in now : i \in Nat /\ view.sel.run = view.run /\ <<view.run, i>> \in view.ticked
      BY <1>1, FS_EmptySet DEF ViewTyped, SelectedIds
<1>4. more \subseteq view.shown /\ view.shown \in SUBSET Nat /\ view.run \in Nat /\ id \in Nat
      BY <1>1 DEF ViewTyped, Interval
<1>5. IsFiniteSet(more)
      BY <1>1, <1>4, FS_Subset DEF ViewTyped
<1> HIDE DEF now, more, on
<1>6. IsFiniteSet(ids) /\ ids \in SUBSET Nat
  <2>1. IsFiniteSet(now \cup more) /\ IsFiniteSet(now \ more)
        BY <1>3, <1>5, FS_Union, FS_Subset
  <2> QED
      BY <1>3, <1>4, <2>1
<1>7. mine \subseteq CaptureRef
      BY <1>4 DEF CaptureRef
<1>8. ticked \in SUBSET CaptureRef
      BY <1>1, <1>7 DEF ViewTyped
<1>9. \A i \in ids : <<view.run, i>> \in ticked
  <2>1. CASE on
        BY <2>1, <1>3
  <2>2. CASE ~on
    <3>1. ASSUME NEW i \in now, i \notin more PROVE <<view.run, i>> \notin mine
          BY <3>1
    <3> QED
        BY <2>2, <3>1, <1>3
  <2> QED
      BY <2>1, <2>2
<1> HIDE DEF mine, ids, ticked
<1>10. /\ view'.shown = view.shown /\ view'.prompt = view.prompt /\ view'.ticked = ticked
       /\ view'.sel = [run |-> view.run, ids |-> ids]
       /\ view' \in [run : Nat, shown : SUBSET Nat, sel : [run : Nat, ids : SUBSET Nat], anchor : Nat,
                     prompt : {NoBatch} \cup [run : Nat, wanted : SUBSET CaptureRef, id : Nat],
                     ticked : SUBSET CaptureRef]
       BY <1>1, <1>2, <1>4, <1>6, <1>8 DEF ViewTyped
<1>11. ViewTyped'
       BY <1>1, <1>6, <1>9, <1>10 DEF ViewTyped, NoBatch
<1> QED
    BY <1>11, ViewKeeps DEF Toggle

\* The dialog closes.
LEMMA PromptClosed ==
  ASSUME ViewTyped, view' = [view EXCEPT !.prompt = NoBatch]
  PROVE  ViewTyped'
BY DEF ViewTyped, NoBatch

LEMMA CancelAddKeeps ==
  ASSUME CaptureInv, CancelAdd
  PROVE  CaptureInv'
BY PromptClosed, ViewKeeps DEF CancelAdd, CaptureInv

\* A request that leaves a page: what it names is what was chosen.
LEMMA SendKeeps ==
  ASSUME CaptureInv, NEW kind \in BatchKinds, NEW run \in Nat,
         NEW refs \in Seq(IF kind = "dump" THEN CaptureRef ELSE Nat),
         NEW options \in [add : BOOLEAN, select : BOOLEAN, enable : BOOLEAN],
         NEW wanted \in SUBSET CaptureRef,
         \A i, j \in DOMAIN refs : refs[i] = refs[j] => i = j,
         \A i \in DOMAIN refs : IF kind = "dump" THEN refs[i] \in wanted ELSE <<run, refs[i]>> \in wanted,
         Send(kind, run, refs, options, wanted), ViewTyped'
  PROVE  CaptureInv'
<1>1. /\ refs # <<>> /\ spent' = [spent EXCEPT !.batches = @ + 1]
      /\ UNCHANGED <<traffic, keyOf, endpointFile, inUse, meddled>>
      BY DEF Send
<1>2. /\ batch'.at = "queued" /\ batch'.kind = kind /\ batch'.run = run /\ batch'.todo = refs
      /\ batch'.options = options /\ batch'.wanted = wanted /\ batch'.captures = << >>
      /\ batch'.items = <<>> /\ batch'.outcome = "none" /\ DOMAIN batch' = BatchFields
      BY DEF Send, BatchFields
<1>3. EngineTyped /\ FilesTyped
      BY DEF CaptureInv
<1>4. spent' \in [batches : Nat, edits : Nat] /\ spent'.batches = spent.batches + 1 /\ spent.batches \in Nat
      BY <1>1, <1>3 DEF EngineTyped
<1>5. EngineTyped'
      BY <1>1, <1>3, <1>4 DEF EngineTyped
<1>6. ASSUME NEW v, UpTo(v, spent.batches) PROVE UpTo(v, spent'.batches) /\ ~(MadeNow(v))'
      BY <1>4, <1>6 DEF UpTo, MadeNow
<1>7. FilesTyped'
      BY <1>1, <1>3, <1>6 DEF FilesTyped, OnDisk
<1>8. BatchTyped'
  <2>1. << >> \in Seq(CopiedCapture) /\ <<>> \in Seq(BatchItem)
        OBVIOUS
  <2> QED
      BY <1>2, <2>1 DEF BatchTyped, Phases
<1>9. QueuedInv'
  <2>1. \A f \in BatchFile :
          /\ inUse'[f] # Unserved => ~(MadeNow(inUse[f].variant))'
          /\ endpointFile[f] # NoEndpointFile =>
               \A n \in DOMAIN endpointFile[f].variants : ~(MadeNow(endpointFile[f].variants[n]))'
        BY <1>1, <1>3, <1>6 DEF FilesTyped, OnDisk
  <2>2. \A f \in BatchFile :
          /\ inUse'[f] # Unserved =>
               ~(inUse'[f].variant \in Nat \X CaptureRef /\ inUse'[f].variant[1] = spent'.batches)
          /\ endpointFile'[f] # NoEndpointFile =>
               \A n \in DOMAIN endpointFile'[f].variants :
                 ~(endpointFile'[f].variants[n] \in Nat \X CaptureRef
                     /\ endpointFile'[f].variants[n][1] = spent'.batches)
        BY <1>1, <2>1 DEF MadeNow
  <2>3. \A i \in DOMAIN refs : IF kind = "dump" THEN refs[i] \in wanted
                               ELSE refs[i] \in Nat /\ <<run, refs[i]>> \in wanted
        OBVIOUS
  <2> QED
      BY <1>1, <1>2, <2>2, <2>3 DEF QueuedInv, OnDisk, MadeNow
<1>10. BatchInv'
       BY <1>2, <1>8, <1>9
       DEF BatchInv, TodoInv, WrittenInv, KeptTyped, DestsInv, QuietInv, Going
<1>11. MocksAsChosen'
       BY <1>2 DEF MocksAsChosen, OnlyWhatWasChosen, OutcomesTrue, NothingActivated, Ended
<1> QED
    BY <1>5, <1>7, <1>10, <1>11 DEF CaptureInv

LEMMA SameView == ASSUME CaptureInv, UNCHANGED view PROVE ViewTyped'
BY DEF CaptureInv, ViewTyped, NoBatch

LEMMA SelectedKeeps == ASSUME CaptureInv, NEW enable \in BOOLEAN, CreateFromSelected(enable) PROVE CaptureInv'
<1> DEFINE S == SelectedIds(view)
<1>1. ViewTyped
      BY DEF CaptureInv
<1>2. PICK ids \in Ascending(S) :
        Send("selected", view.sel.run, ids, SkipExisting(enable), view.ticked)
      BY DEF CreateFromSelected
<1>3. S \subseteq Nat
      BY <1>1 DEF ViewTyped, SelectedIds
<1>12. /\ IsFiniteSet(S) /\ view.sel.run \in Nat /\ view.ticked \in SUBSET CaptureRef
       /\ \A i \in S : <<view.sel.run, i>> \in view.ticked
       BY <1>1, FS_EmptySet DEF ViewTyped, SelectedIds
<1> HIDE DEF S
<1> DEFINE n == Cardinality(S)
<1>4. n \in Nat
      BY <1>12, FS_CardinalityType
<1>5. /\ ids \in [1..n -> S] /\ DOMAIN ids = 1..n
      /\ \A i, j \in DOMAIN ids : i < j => ids[i] < ids[j]
      BY <1>2 DEF Ascending
<1> HIDE DEF n
<1>6. ids \in [1..n -> Nat] /\ ids \in Seq(Nat)
  <2>1. ids \in [1..n -> S]
        BY <1>5
  <2>2. ids \in [1..n -> Nat]
        BY <1>3, <2>1
  <2> QED
      BY <1>4, <2>2
<1>7. \A i, j \in DOMAIN ids : ids[i] = ids[j] => i = j
  <2> TAKE i, j \in DOMAIN ids
  <2>1. i \in Int /\ j \in Int /\ ids[i] \in Nat /\ ids[j] \in Nat
        BY <1>4, <1>5, <1>6
  <2>2. (i < j => ids[i] < ids[j]) /\ (j < i => ids[j] < ids[i])
        BY <1>5
  <2> QED
      BY <2>1, <2>2
<1>8. \A i \in DOMAIN ids : <<view.sel.run, ids[i]>> \in view.ticked
      BY <1>12, <1>5
<1>9. SkipExisting(enable) \in [add : BOOLEAN, select : BOOLEAN, enable : BOOLEAN]
      BY DEF SkipExisting
<1>10. ViewTyped'
       BY SameView DEF CreateFromSelected
<1>11. "selected" \in BatchKinds /\ ids \in Seq(IF "selected" = "dump" THEN CaptureRef ELSE Nat)
       BY <1>6 DEF BatchKinds
<1> QED
    BY <1>2, <1>12, <1>7, <1>8, <1>9, <1>10, <1>11, SendKeeps

LEMMA EntryKeeps == ASSUME CaptureInv, NEW id \in view.shown, CreateFromEntry(id) PROVE CaptureInv'
<1> DEFINE refs == <<id>>
           wanted == {<<view.run, id>>}
<1>1. view.run \in Nat /\ id \in Nat
      BY DEF CaptureInv, ViewTyped
<1>2. /\ refs \in Seq(IF "single" = "dump" THEN CaptureRef ELSE Nat) /\ DOMAIN refs = {1} /\ refs[1] = id
      /\ wanted \in SUBSET CaptureRef /\ <<view.run, id>> \in wanted
      BY <1>1 DEF CaptureRef
<1>3. SkipExisting(TRUE) \in [add : BOOLEAN, select : BOOLEAN, enable : BOOLEAN] /\ "single" \in BatchKinds
      BY DEF SkipExisting, BatchKinds
<1>4. Send("single", view.run, refs, SkipExisting(TRUE), wanted) /\ ViewTyped'
      BY SameView DEF CreateFromEntry
<1> HIDE DEF refs, wanted
<1>5. /\ \A i, j \in DOMAIN refs : refs[i] = refs[j] => i = j
      /\ \A i \in DOMAIN refs : <<view.run, refs[i]>> \in wanted
      BY <1>2
<1> QED
    BY <1>1, <1>2, <1>3, <1>4, <1>5, SendKeeps

LEMMA ConfirmKeeps == ASSUME CaptureInv, NEW activate \in BOOLEAN, ConfirmAdd(activate) PROVE CaptureInv'
<1> DEFINE p == view.prompt
           refs == <<p.id>>
           options == [add |-> TRUE, select |-> activate, enable |-> activate]
<1>1. /\ p.run \in Nat /\ p.id \in Nat /\ p.wanted \in SUBSET CaptureRef /\ <<p.run, p.id>> \in p.wanted
      BY DEF CaptureInv, ViewTyped, ConfirmAdd
<1>2. /\ refs \in Seq(IF "confirm" = "dump" THEN CaptureRef ELSE Nat) /\ DOMAIN refs = {1} /\ refs[1] = p.id
      BY <1>1
<1>3. options \in [add : BOOLEAN, select : BOOLEAN, enable : BOOLEAN] /\ "confirm" \in BatchKinds
      BY DEF BatchKinds
<1>4. Send("confirm", p.run, refs, options, p.wanted)
      BY DEF ConfirmAdd, PromptRun
<1>5. ViewTyped'
      BY PromptClosed DEF ConfirmAdd, CaptureInv
<1> HIDE DEF p, refs, options
<1>6. /\ \A i, j \in DOMAIN refs : refs[i] = refs[j] => i = j
      /\ \A i \in DOMAIN refs : <<p.run, refs[i]>> \in p.wanted
      BY <1>1, <1>2
<1> QED
    BY <1>1, <1>2, <1>3, <1>4, <1>5, <1>6, SendKeeps

LEMMA DumpKeeps ==
  ASSUME CaptureInv, NEW c \in DOMAIN keyOf, NEW d \in DOMAIN keyOf, c # d, CreateFromDump(<<c, d>>)
  PROVE  CaptureInv'
<1> DEFINE refs == <<c, d>>
           wanted == ToSet(refs)
<1>1. c \in CaptureRef /\ d \in CaptureRef
      BY DEF CaptureInv, EngineTyped
<1>2. /\ refs \in Seq(IF "dump" = "dump" THEN CaptureRef ELSE Nat) /\ DOMAIN refs = {1, 2}
      /\ refs[1] = c /\ refs[2] = d
      BY <1>1
<1>3. wanted = {c, d}
      BY <1>2 DEF ToSet
<1>4. SkipExisting(TRUE) \in [add : BOOLEAN, select : BOOLEAN, enable : BOOLEAN] /\ "dump" \in BatchKinds
      BY DEF SkipExisting, BatchKinds
<1>5. Send("dump", 0, refs, SkipExisting(TRUE), wanted) /\ ViewTyped'
      BY SameView DEF CreateFromDump
<1> HIDE DEF refs, wanted
<1>6. /\ \A i, j \in DOMAIN refs : refs[i] = refs[j] => i = j
      /\ \A i \in DOMAIN refs : refs[i] \in wanted
      BY <1>2, <1>3
<1>7. wanted \in SUBSET CaptureRef
      BY <1>1, <1>3
<1> QED
    BY <1>2, <1>4, <1>5, <1>6, <1>7, SendKeeps

LEMMA ClientKeeps == ASSUME CaptureInv, CreateByClient(<<1, 2>>) PROVE CaptureInv'
<1> DEFINE refs == <<1, 2>>
           wanted == {<<traffic.run, i>> : i \in ToSet(refs)}
           options == [add |-> TRUE, select |-> TRUE, enable |-> TRUE]
<1>1. traffic.run \in Nat
      BY DEF CaptureInv, EngineTyped
<1>2. /\ refs \in Seq(IF "client" = "dump" THEN CaptureRef ELSE Nat) /\ DOMAIN refs = {1, 2}
      /\ refs[1] = 1 /\ refs[2] = 2
      OBVIOUS
<1>3. ToSet(refs) = {1, 2}
      BY <1>2 DEF ToSet
<1>4. options \in [add : BOOLEAN, select : BOOLEAN, enable : BOOLEAN] /\ "client" \in BatchKinds
      BY DEF BatchKinds
<1>5. Send("client", traffic.run, refs, options, wanted) /\ ViewTyped'
      BY SameView DEF CreateByClient
<1>6. wanted \in SUBSET CaptureRef /\ <<traffic.run, 1>> \in wanted /\ <<traffic.run, 2>> \in wanted
      BY <1>1, <1>3 DEF CaptureRef
<1> HIDE DEF refs, wanted, options
<1>7. /\ \A i, j \in DOMAIN refs : refs[i] = refs[j] => i = j
      /\ \A i \in DOMAIN refs : <<traffic.run, refs[i]>> \in wanted
      BY <1>2, <1>6
<1> QED
    BY <1>1, <1>2, <1>4, <1>5, <1>6, <1>7, SendKeeps

\* The turn begins.
LEMMA StartKeeps ==
  ASSUME CaptureInv, NEW gone \in {{}} \cup {{c} : c \in DOMAIN keyOf}, StartBatch(gone)
  PROVE  CaptureInv'
<1>1. /\ batch.at = "queued" /\ batch # NoBatch
      /\ meddled' = {} /\ UNCHANGED <<traffic, keyOf, view, endpointFile, inUse, spent>>
      BY DEF StartBatch, NoBatch
<1>2. EngineTyped /\ ViewTyped /\ FilesTyped /\ BatchTyped /\ QueuedInv
      BY <1>1 DEF CaptureInv, BatchInv
<1>3. EngineTyped' /\ FilesTyped'
      BY <1>1, <1>2 DEF EngineTyped, FilesTyped, OnDisk, UpTo
<1>4. ViewTyped'
      BY <1>1, <1>2 DEF ViewTyped, NoBatch
<1>5. /\ batch.items = <<>> /\ batch.outcome = "none" /\ batch.todo # <<>> /\ batch.captures = <<>>
      /\ \A i, j \in DOMAIN batch.todo : batch.todo[i] = batch.todo[j] => i = j
      /\ \A i \in DOMAIN batch.todo :
           IF batch.kind = "dump" THEN batch.todo[i] \in batch.wanted
           ELSE batch.todo[i] \in Nat /\ <<batch.run, batch.todo[i]>> \in batch.wanted
      /\ \A f \in BatchFile :
           /\ inUse[f] # Unserved => ~MadeNow(inUse[f].variant)
           /\ OnDisk(f) => \A n \in DOMAIN endpointFile[f].variants : ~MadeNow(endpointFile[f].variants[n])
      BY <1>1, <1>2 DEF QueuedInv
<1>6. CASE ~RunAccepted(batch)
  <2>1. batch' = [batch EXCEPT !.at = "answered", !.outcome = "refused"]
        BY <1>6 DEF StartBatch
  <2>2. /\ batch'.at = "answered" /\ batch'.outcome = "refused" /\ batch'.captures = <<>> /\ batch'.items = <<>>
        BY <1>2, <1>5, <2>1 DEF BatchTyped, BatchFields
  <2>3. BatchTyped'
        BY <1>2, <2>1 DEF BatchTyped, BatchFields, Phases
  <2>4. TodoInv'
        BY <2>2 DEF TodoInv
  <2>5. BatchInv'
        BY <2>2, <2>3, <2>4 DEF BatchInv, QueuedInv, WrittenInv, KeptTyped, DestsInv, QuietInv
  <2>6. MocksAsChosen'
        BY <2>2 DEF MocksAsChosen, OnlyWhatWasChosen, OutcomesTrue, NothingActivated, Ended, ToSet
  <2> QED
      BY <1>3, <1>4, <2>5, <2>6 DEF CaptureInv
<1>7. CASE RunAccepted(batch)
  <2> DEFINE caps == [i \in DOMAIN batch.todo |->
                        [of |-> Capture(batch, batch.todo[i]),
                         there |-> Capture(batch, batch.todo[i]) \in DOMAIN keyOf \ gone]]
             dests == [k \in RouteKey |-> Destinations(k)]
             before == [f \in BatchFile |-> {inUse[f], Reloaded[f]}]
  <2>1. batch' = [batch EXCEPT !.at = "items", !.captures = caps, !.dests = dests, !.before = before,
                               !.was = endpointFile]
        BY <1>7 DEF StartBatch
  <2>2. batch.todo \in Seq(IF batch.kind = "dump" THEN CaptureRef ELSE Nat)
        BY <1>2 DEF BatchTyped
  <2>3. DOMAIN batch.todo = 1..Len(batch.todo) /\ Len(batch.todo) \in Nat
    <3> DEFINE Ref == IF batch.kind = "dump" THEN CaptureRef ELSE Nat
    <3>1. batch.todo \in Seq(Ref)
          BY <2>2
    <3> HIDE DEF Ref
    <3> QED
        BY <3>1
  <2>4. ASSUME NEW i \in DOMAIN batch.todo
        PROVE  /\ Capture(batch, batch.todo[i]) \in CaptureRef /\ OfBatch(Capture(batch, batch.todo[i]))
               /\ Capture(batch, batch.todo[i]) =
                    IF batch.kind = "dump" THEN batch.todo[i] ELSE <<batch.run, batch.todo[i]>>
    <3>1. CASE batch.kind = "dump"
          BY <1>2, <1>5, <3>1 DEF Capture, OfBatch, BatchTyped
    <3>2. CASE batch.kind # "dump"
      <4>1. batch.run = traffic.run /\ batch.run \in Nat /\ batch.todo[i] \in Nat
            BY <1>2, <1>5, <1>7, <3>2 DEF RunAccepted, BatchTyped
      <4> QED
          BY <1>5, <3>2, <4>1 DEF Capture, OfBatch, CaptureRef
    <3> QED
        BY <3>1, <3>2
  <2>5. /\ DOMAIN caps = DOMAIN batch.todo
        /\ \A i \in DOMAIN caps : /\ caps[i].of = Capture(batch, batch.todo[i])
                                  /\ caps[i].there => caps[i].of \in DOMAIN keyOf
                                  /\ caps[i] \in CopiedCapture
    <3>1. DOMAIN caps = DOMAIN batch.todo
          OBVIOUS
    <3>2. ASSUME NEW i \in DOMAIN batch.todo
          PROVE  /\ caps[i].of = Capture(batch, batch.todo[i])
                 /\ caps[i].there => caps[i].of \in DOMAIN keyOf
                 /\ caps[i] \in CopiedCapture
      <4>1. caps[i] = [of |-> Capture(batch, batch.todo[i]),
                       there |-> Capture(batch, batch.todo[i]) \in DOMAIN keyOf \ gone]
            OBVIOUS
      <4> DEFINE t == Capture(batch, batch.todo[i]) \in DOMAIN keyOf \ gone
      <4>2. t \in BOOLEAN /\ (t => Capture(batch, batch.todo[i]) \in DOMAIN keyOf)
            OBVIOUS
      <4>3. caps[i] = [of |-> Capture(batch, batch.todo[i]), there |-> t]
            BY <4>1
      <4>4. Capture(batch, batch.todo[i]) \in CaptureRef
            BY <2>4
      <4> HIDE DEF caps, t
      <4>5. caps[i] \in CopiedCapture
            BY <4>2, <4>3, <4>4 DEF CopiedCapture
      <4> QED
          BY <4>2, <4>3, <4>5
    <3> QED
        BY <3>1, <3>2
  <2>6. caps \in Seq(CopiedCapture) /\ Len(caps) = Len(batch.todo)
    <3> HIDE DEF caps
    <3>1. caps \in [1..Len(batch.todo) -> CopiedCapture]
      <4>1. caps = [i \in DOMAIN batch.todo |-> caps[i]]
            BY DEF caps
      <4> QED
          BY <2>3, <2>5, <4>1
    <3> QED
        BY <2>3, <3>1
  <2>7. \A i, j \in DOMAIN caps : caps[i].of = caps[j].of => i = j
    <3> HIDE DEF caps
    <3> TAKE i, j \in DOMAIN caps
    <3>1. /\ i \in DOMAIN batch.todo /\ j \in DOMAIN batch.todo
          /\ caps[i].of = Capture(batch, batch.todo[i]) /\ caps[j].of = Capture(batch, batch.todo[j])
          BY <2>5
    <3>2. caps[i].of = caps[j].of => batch.todo[i] = batch.todo[j]
      <4> DEFINE a == batch.todo[i]
                 b == batch.todo[j]
      <4>1. /\ Capture(batch, a) = IF batch.kind = "dump" THEN a ELSE <<batch.run, a>>
            /\ Capture(batch, b) = IF batch.kind = "dump" THEN b ELSE <<batch.run, b>>
            BY <2>4, <3>1
      <4> HIDE DEF a, b
      <4>2. Capture(batch, a) = Capture(batch, b) => a = b
            BY <4>1
      <4> QED
          BY <3>1, <4>2 DEF a, b
    <3> QED
        BY <1>5, <3>1, <3>2
  <2> HIDE DEF caps
  <2>8. dests \in [RouteKey -> SUBSET BatchFile] /\ \A k \in RouteKey : dests[k] = Destinations(k)
        BY DEF Destinations
  <2>9. /\ before \in [BatchFile -> SUBSET UseState]
        /\ \A f \in BatchFile : before[f] = {inUse[f], InUseAfter(endpointFile, f)}
    <3>1. \A f \in BatchFile : inUse[f] \in UseState /\ InUseAfter(endpointFile, f) \in UseState
          BY <1>2, ReloadServes DEF FilesTyped
    <3> QED
        BY <3>1 DEF Reloaded
  <2> HIDE DEF dests, before
  <2>10. /\ batch'.at = "items" /\ batch'.captures = caps /\ batch'.dests = dests /\ batch'.before = before
         /\ batch'.was = endpointFile /\ batch'.items = <<>> /\ batch'.outcome = "none"
         /\ batch'.todo = batch.todo /\ batch'.wanted = batch.wanted /\ batch'.kind = batch.kind
         /\ batch'.run = batch.run /\ batch'.options = batch.options /\ DOMAIN batch' = BatchFields
         BY <1>2, <1>5, <2>1 DEF BatchTyped, BatchFields
  <2>11. BatchTyped'
         BY <1>2, <1>5, <2>6, <2>10 DEF BatchTyped, Phases
  <2>12. ASSUME NEW i \in DOMAIN caps PROVE OfBatch(caps[i].of)
         BY <2>4, <2>5
  <2>13. TodoInv'
         BY <1>1, <2>5, <2>6, <2>7, <2>10, <2>12 DEF TodoInv, OfBatch
  <2>14. WrittenInv'
         BY <1>1, <1>5, <2>10 DEF WrittenInv, OnDisk, MadeNow
  <2>15. KeptTyped'
         BY <1>2, <1>5, <2>8, <2>9, <2>10 DEF KeptTyped, FilesTyped
  <2>16. DestsInv'
    <3>1. \A k \in RouteKey : \A f \in dests[k] : OnDisk(f) /\ endpointFile[f].key = k
          BY <2>8 DEF Destinations
    <3>2. ASSUME NEW f \in BatchFile, Readable(endpointFile, f) PROVE f \in dests[endpointFile[f].key]
      <4>1. OnDisk(f) /\ endpointFile[f].readable /\ endpointFile[f].key \in RouteKey
            BY <1>2, <3>2, FileThere DEF Readable, OnDisk, FileRecord
      <4> QED
          BY <2>8, <4>1 DEF Destinations
    <3> QED
        BY <1>1, <1>5, <2>10, <3>1, <3>2 DEF DestsInv, OnDisk, MadeNow
  <2>17. QuietInv'
    <3>1. ASSUME NEW f \in BatchFile, Unserved \notin before[f]
          PROVE  /\ endpointFile[f] # NoEndpointFile
                 /\ f \notin LoadErrors(endpointFile) =>
                      inUse[f] \in before[f] /\ Loadable(endpointFile, f) /\ UseOf(f) \in before[f]
      <4>1. InUseAfter(endpointFile, f) # Unserved /\ inUse[f] \in before[f]
            BY <2>9, <3>1
      <4>2. f \notin LoadErrors(endpointFile) => Loadable(endpointFile, f) /\ InUseAfter(endpointFile, f) = UseOf(f)
            BY <1>2, <4>1, ReloadServes
      <4>3. endpointFile[f] = NoEndpointFile => f \notin LoadErrors(endpointFile) /\ ~Loadable(endpointFile, f)
            BY DEF LoadErrors, Loadable
      <4> QED
          BY <2>9, <4>1, <4>2, <4>3
    <3> QED
        BY <1>1, <2>10, <3>1 DEF QuietInv, OnDisk, UseOf
  <2>18. BatchInv'
         BY <2>10, <2>11, <2>13, <2>14, <2>15, <2>16, <2>17 DEF BatchInv, QueuedInv
  <2>19. OnlyWhatWasChosen'
         BY <2>6, <2>10, <2>12 DEF OnlyWhatWasChosen, OfBatch, ToSet
  <2>20. MocksAsChosen'
         BY <2>10, <2>19 DEF MocksAsChosen, OutcomesTrue, NothingActivated, Ended
  <2> QED
      BY <1>3, <1>4, <2>18, <2>20 DEF CaptureInv
<1> QED
    BY <1>6, <1>7

\* The engine restarts: a batch in the queue is lost, an answered one tells of no file any more.
LEMMA RestartKeeps == ASSUME CaptureInv, Restart PROVE CaptureInv'
<1>1. /\ traffic' = [run |-> traffic.run + 1, last |-> 0]
      /\ inUse' = [f \in BatchFile |->
                     IF f \in LoadErrors(endpointFile) THEN Unserved ELSE InUseAfter(endpointFile, f)]
      /\ meddled' = IF batch.at = "answered" THEN BatchFile ELSE {}
      /\ batch' = IF batch.at \in {"none", "answered"} THEN batch ELSE [batch EXCEPT !.at = "lost"]
      /\ UNCHANGED <<keyOf, view, endpointFile, spent>>
      BY DEF Restart
<1>2. EngineTyped /\ ViewTyped /\ FilesTyped /\ BatchInv /\ MocksAsChosen
      BY DEF CaptureInv
<1>3. EngineTyped'
      BY <1>1, <1>2 DEF EngineTyped
<1>4. ViewTyped'
      BY <1>1, <1>2 DEF ViewTyped, NoBatch
<1>5. FilesTyped'
  <2>1. \A f \in BatchFile : InUseAfter(endpointFile, f) \in UseState
        BY <1>2, ReloadServes
  <2>2. inUse' \in [BatchFile -> UseState]
        BY <1>1, <2>1 DEF UseState
  <2> QED
      BY <1>1, <1>2, <2>2, ReloadTyped
<1>6. CASE batch.at = "none"
  <2>1. batch' = NoBatch /\ batch'.at = "none"
        BY <1>1, <1>2, <1>6 DEF BatchInv, NoBatch
  <2>2. BatchInv' /\ MocksAsChosen'
        BY <2>1 DEF BatchInv, MocksAsChosen, OnlyWhatWasChosen, OutcomesTrue, NothingActivated, Ended
  <2> QED
      BY <1>3, <1>4, <1>5, <2>2 DEF CaptureInv
<1>7. CASE batch.at = "answered"
  <2>1. batch' = batch /\ meddled' = BatchFile /\ batch # NoBatch
        BY <1>1, <1>7 DEF NoBatch
  <2>2. BatchTyped /\ TodoInv /\ WrittenInv /\ (batch.outcome = "done" => batch.items # <<>>)
        BY <1>2, <1>7, <2>1 DEF BatchInv
  <2>3. BatchTyped'
        BY <2>1, <2>2 DEF BatchTyped
  <2>4. TodoInv'
        BY <1>1, <2>1, <2>2 DEF TodoInv, Going, OfBatch, Written
  <2>5. WrittenInv'
        BY <1>1, <2>1, <2>2 DEF WrittenInv, Going, Written, OnDisk, Made, MadeNow
  <2>6. BatchInv'
        BY <1>7, <2>1, <2>2, <2>3, <2>4, <2>5 DEF BatchInv, QueuedInv, KeptTyped, DestsInv, QuietInv
  <2>7. OnlyWhatWasChosen'
        BY <1>2, <2>1 DEF MocksAsChosen, OnlyWhatWasChosen
  <2>8. NothingActivated'
        BY <2>1 DEF NothingActivated
  <2>9. OutcomesTrue'
    <3> SUFFICES ASSUME Ended, NEW i \in DOMAIN batch.items, batch.items[i].file \notin BatchFile
                 PROVE  LET item == batch.items[i]
                            mine == <<spent.batches, item.of>>
                            use == [key |-> keyOf[item.of], variant |-> mine]
                        IN /\ Written(item) => endpointFile[item.file].variants[item.variant] = mine
                           /\ item.write \in {"skipped", "unavailable"} =>
                                \A f \in BatchFile : OnDisk(f) => mine \notin ToSet(endpointFile[f].variants)
                           /\ item.runtime = "applied" /\ batch.outcome # "interrupted" => inUse'[item.file] = use
                           /\ item.runtime = "not_applied" /\ batch.outcome = "done" => inUse'[item.file] # use
        BY <1>1, <2>1 DEF OutcomesTrue, Ended, Written, OnDisk
    <3>1. batch.items[i] \in BatchItem
          BY <2>2 DEF BatchTyped
    <3>2. batch.items[i].file = 0
          BY <3>1 DEF BatchItem
    <3>3. ~Written(batch.items[i]) /\ batch.items[i].runtime = "not_applicable"
          BY <1>7, <2>2, <3>2 DEF TodoInv, Going
    <3>4. batch.items[i].write \in {"skipped", "unavailable"} =>
            \A f \in BatchFile : OnDisk(f) =>
              <<spent.batches, batch.items[i].of>> \notin ToSet(endpointFile[f].variants)
      <4>1. batch.items[i].file \notin meddled
            BY <1>2, <3>2 DEF EngineTyped, BatchFile
      <4> QED
          BY <1>2, <4>1 DEF MocksAsChosen, OutcomesTrue
    <3> QED
        BY <3>3, <3>4
  <2> QED
      BY <1>3, <1>4, <1>5, <2>6, <2>7, <2>8, <2>9 DEF CaptureInv, MocksAsChosen
<1>8. CASE batch.at \notin {"none", "answered"}
  <2>1. batch # NoBatch /\ batch' = [batch EXCEPT !.at = "lost"]
        BY <1>1, <1>8 DEF NoBatch
  <2>2. BatchTyped
        BY <1>2, <2>1 DEF BatchInv
  <2>3. BatchTyped' /\ batch'.at = "lost"
        BY <2>1, <2>2 DEF BatchTyped, BatchFields, Phases
  <2>4. BatchInv'
        BY <2>3 DEF BatchInv, QueuedInv, TodoInv, WrittenInv, KeptTyped, DestsInv, QuietInv, Going
  <2>5. MocksAsChosen'
        BY <2>3 DEF MocksAsChosen, OnlyWhatWasChosen, OutcomesTrue, NothingActivated, Ended
  <2> QED
      BY <1>3, <1>4, <1>5, <2>4, <2>5 DEF CaptureInv
<1> QED
    BY <1>6, <1>7, <1>8

\* The batch ends with one reload: its items say what the files and that reload show.
LEMMA FinishKeeps == ASSUME CaptureInv, NEW ok \in BOOLEAN, FinishBatch(ok) PROVE CaptureInv'
<1> DEFINE items == batch.items
           said == Outcomes(batch.items, ok, inUse')
           outcome == IF batch.outcome = "interrupted" THEN batch.outcome ELSE IF ok THEN "done" ELSE "failed"
<1>1. /\ batch.at = "items" /\ batch.todo = <<>> /\ batch # NoBatch
      /\ inUse' = IF ok THEN Reloaded ELSE inUse
      /\ batch' = [batch EXCEPT !.at = "answered", !.items = said, !.outcome = outcome]
      /\ UNCHANGED <<traffic, keyOf, view, endpointFile, meddled, spent>>
      BY DEF FinishBatch, NoBatch
<1>2. /\ EngineTyped /\ ViewTyped /\ FilesTyped /\ BatchTyped /\ TodoInv /\ WrittenInv /\ KeptTyped
      /\ DestsInv /\ QuietInv
      BY <1>1 DEF CaptureInv, BatchInv
<1>3. /\ outcome \in {"interrupted", "done", "failed"} /\ batch.outcome \in {"none", "interrupted"}
      /\ outcome # "interrupted" => batch.outcome = "none" /\ outcome = (IF ok THEN "done" ELSE "failed")
      BY <1>1, <1>2 DEF KeptTyped
<1>4. items \in Seq(BatchItem) /\ items # <<>> /\ batch.captures \in Seq(CopiedCapture)
      BY <1>1, <1>2 DEF BatchTyped, KeptTyped
<1>5. batch.captures = <<>>
      BY <1>1, <1>2, <1>3, <1>4 DEF TodoInv, Going
<1>6. DOMAIN said = DOMAIN items
      BY DEF Outcomes
<1>7. ASSUME NEW i \in DOMAIN items
      PROVE  /\ said[i] \in BatchItem
             /\ said[i].of = items[i].of /\ said[i].file = items[i].file /\ said[i].write = items[i].write
             /\ said[i].variant = items[i].variant
             /\ said[i].runtime =
                  IF ~items[i].expects \/ Superseded(items, i) THEN "not_applicable"
                  ELSE IF ok /\ Served(items[i].file, inUse') THEN "applied" ELSE "not_applied"
  <2> DEFINE late == Superseded(items, i)
             runtime == IF ~items[i].expects \/ late THEN "not_applicable"
                        ELSE IF ok /\ Served(items[i].file, inUse') THEN "applied" ELSE "not_applied"
  <2>1. items[i] \in BatchItem
        BY <1>4
  <2>2. said[i] = [items[i] EXCEPT !.superseded = late, !.runtime = runtime]
        BY DEF Outcomes
  <2>3. late \in BOOLEAN /\ runtime \in {"not_applicable", "applied", "not_applied"}
        BY DEF Superseded
  <2> HIDE DEF said, late, runtime
  <2>4. /\ said[i] \in BatchItem /\ said[i].of = items[i].of /\ said[i].file = items[i].file
        /\ said[i].write = items[i].write /\ said[i].variant = items[i].variant
        /\ said[i].runtime = runtime
        BY <2>1, <2>2, <2>3 DEF BatchItem
  <2> QED
      BY <2>4 DEF runtime, late
<1>8. said \in Seq(BatchItem)
  <2>1. DOMAIN items = 1..Len(items) /\ Len(items) \in Nat
        BY <1>4
  <2>2. said = [i \in DOMAIN items |-> said[i]]
        BY DEF Outcomes
  <2> HIDE DEF said
  <2>3. said \in [1..Len(items) -> BatchItem]
        BY <1>7, <2>1, <2>2
  <2> QED
      BY <2>1, <2>3
<1> HIDE DEF said, outcome
<1>9. /\ batch'.at = "answered" /\ batch'.items = said /\ batch'.outcome = outcome
      /\ batch'.captures = <<>> /\ batch'.todo = <<>> /\ batch'.kind = batch.kind /\ batch'.run = batch.run
      /\ batch'.wanted = batch.wanted /\ batch'.options = batch.options /\ batch'.was = batch.was
      /\ batch'.before = batch.before /\ DOMAIN batch' = BatchFields
      BY <1>1, <1>2, <1>5 DEF BatchTyped, BatchFields
<1>10. EngineTyped' /\ ViewTyped'
       BY <1>1, <1>2 DEF EngineTyped, ViewTyped, NoBatch
<1>11. FilesTyped'
  <2>1. \A f \in BatchFile : inUse'[f] \in {inUse[f], InUseAfter(endpointFile, f)}
        BY <1>1 DEF Reloaded
  <2>2. inUse' \in [BatchFile -> UseState]
        BY <1>1, <1>2, ReloadServes DEF Reloaded, FilesTyped
  <2> QED
      BY <1>1, <1>2, <2>1, <2>2, ReloadTyped
<1>12. BatchTyped'
       BY <1>2, <1>3, <1>8, <1>9 DEF BatchTyped, Phases
\* What each item is, as the invariant had it.
<1>13. ASSUME NEW i \in DOMAIN items
       PROVE  /\ items[i] \in BatchItem /\ OfBatch(items[i].of)
              /\ items[i].file = 0 => ~Written(items[i])
              /\ items[i].expects => items[i].selects /\ Written(items[i]) /\ items[i].file \in BatchFile
              /\ Written(items[i]) =>
                   /\ items[i].file \in BatchFile /\ items[i].of \in DOMAIN keyOf /\ OnDisk(items[i].file)
                   /\ items[i].variant \in DOMAIN endpointFile[items[i].file].variants
                   /\ endpointFile[items[i].file].variants[items[i].variant] = Made(items[i].of)
                   /\ items[i].file \notin meddled => endpointFile[items[i].file].key = keyOf[items[i].of]
  <2>1. items[i] \in BatchItem
        BY <1>4
  <2>2. OfBatch(items[i].of) /\ (items[i].file = 0 => ~Written(items[i]))
        BY <1>1, <1>2 DEF TodoInv, Going
  <2>3. Written(items[i]) =>
          /\ items[i].file \in BatchFile /\ items[i].of \in DOMAIN keyOf /\ OnDisk(items[i].file)
          /\ items[i].variant \in DOMAIN endpointFile[items[i].file].variants
          /\ endpointFile[items[i].file].variants[items[i].variant] = Made(items[i].of)
          /\ items[i].file \notin meddled => endpointFile[items[i].file].key = keyOf[items[i].of]
        BY <1>1, <1>2, <1>3 DEF WrittenInv, Going
  <2>4. items[i].expects => items[i].selects /\ Written(items[i])
        BY <1>1, <1>2 DEF KeptTyped
  <2> QED
      BY <2>1, <2>2, <2>3, <2>4
<1>14. \A i, j \in DOMAIN items : items[i].of = items[j].of => i = j
       BY <1>1, <1>2 DEF TodoInv, Going
<1>15. \A f \in BatchFile : OnDisk(f) =>
         \A n \in DOMAIN endpointFile[f].variants :
           MadeNow(endpointFile[f].variants[n]) =>
             \E i \in DOMAIN items :
               /\ endpointFile[f].variants[n] = Made(items[i].of)
               /\ items[i].write \notin {"skipped", "unavailable"}
       BY <1>1, <1>2, <1>3 DEF WrittenInv, Going
<1>16. TodoInv'
  <2>1. \A i \in DOMAIN said :
          /\ OfBatch(said[i].of)
          /\ said[i].file = 0 => ~(said[i].write \in {"created", "variant_added"}) /\ said[i].runtime = "not_applicable"
        BY <1>6, <1>7, <1>13 DEF Written, BatchFile
  <2>2. \A i, j \in DOMAIN said : said[i].of = said[j].of => i = j
        BY <1>6, <1>7, <1>14
  <2> QED
      BY <1>9, <2>1, <2>2 DEF TodoInv, OfBatch, Written
<1>17. WrittenInv'
  <2>1. \A i \in DOMAIN said : said[i].write \in {"created", "variant_added"} =>
          /\ said[i].file \in BatchFile /\ said[i].of \in DOMAIN keyOf /\ OnDisk(said[i].file)
          /\ said[i].variant \in DOMAIN endpointFile[said[i].file].variants
          /\ endpointFile[said[i].file].variants[said[i].variant] = Made(said[i].of)
          /\ said[i].file \notin meddled => endpointFile[said[i].file].key = keyOf[said[i].of]
        BY <1>6, <1>7, <1>13 DEF Written
  <2>2. \A f \in BatchFile : OnDisk(f) =>
          \A n \in DOMAIN endpointFile[f].variants :
            MadeNow(endpointFile[f].variants[n]) =>
              \E i \in DOMAIN said :
                /\ endpointFile[f].variants[n] = Made(said[i].of)
                /\ said[i].write \notin {"skipped", "unavailable"}
        BY <1>6, <1>7, <1>15
  <2> QED
      BY <1>1, <1>9, <2>1, <2>2 DEF WrittenInv, Written, OnDisk, Made, MadeNow
<1>18. said # <<>>
       BY <1>4, <1>6, <1>8
<1>19. BatchInv'
       BY <1>9, <1>12, <1>16, <1>17, <1>18 DEF BatchInv, QueuedInv, KeptTyped, DestsInv, QuietInv
<1>20. OnlyWhatWasChosen'
       BY <1>9 DEF OnlyWhatWasChosen, ToSet
<1>21. ASSUME NEW f \in BatchFile, f \notin LoadErrors(endpointFile), ok
       PROVE  inUse'[f] = IF Loadable(endpointFile, f) THEN UseOf(f) ELSE Unserved
       BY <1>1, <1>2, <1>21, ReloadServes DEF Reloaded
<1>22. NothingActivated'
  <2>1. ASSUME meddled = {}, NEW f \in BatchFile
        PROVE  /\ ~batch.options.select /\ Unserved \notin batch.before[f] /\ f \notin LoadErrors(endpointFile)
                    => inUse'[f] \in batch.before[f]
               /\ OnDisk(f) /\ batch.was[f] # NoEndpointFile => endpointFile[f].on = batch.was[f].on
    <3>1. /\ batch.was[f] # NoEndpointFile => OnDisk(f) /\ endpointFile[f].on = batch.was[f].on
          /\ Unserved \notin batch.before[f] =>
               /\ batch.was[f] # NoEndpointFile
               /\ ~batch.options.select /\ f \notin LoadErrors(endpointFile) =>
                    inUse[f] \in batch.before[f] /\ Loadable(endpointFile, f) /\ UseOf(f) \in batch.before[f]
          BY <1>1, <1>2, <2>1 DEF QuietInv
    <3> QED
        BY <1>1, <1>21, <3>1
  <2> QED
      BY <1>1, <1>9, <2>1 DEF NothingActivated, OnDisk
<1>23. OutcomesTrue'
  <2> SUFFICES ASSUME NEW i \in DOMAIN said, said[i].file \notin meddled
               PROVE  LET item == said[i]
                          mine == Made(item.of)
                          use == [key |-> keyOf[item.of], variant |-> mine]
                      IN /\ item.write \in {"created", "variant_added"} =>
                              endpointFile[item.file].variants[item.variant] = mine
                         /\ item.write \in {"skipped", "unavailable"} =>
                              \A f \in BatchFile : OnDisk(f) => mine \notin ToSet(endpointFile[f].variants)
                         /\ item.runtime = "applied" /\ outcome # "interrupted" => inUse'[item.file] = use
                         /\ item.runtime = "not_applied" /\ outcome = "done" => inUse'[item.file] # use
      BY <1>1, <1>9 DEF OutcomesTrue, Ended, Written, OnDisk, Made
  <2> DEFINE item == items[i]
             f == items[i].file
             use == [key |-> keyOf[items[i].of], variant |-> Made(items[i].of)]
  <2>1. i \in DOMAIN items
        BY <1>6
  <2>2. item.write \in {"created", "variant_added"} => endpointFile[f].variants[item.variant] = Made(item.of)
        BY <1>13, <2>1 DEF Written
  <2>3. item.write \in {"skipped", "unavailable"} =>
          \A g \in BatchFile : OnDisk(g) => Made(item.of) \notin ToSet(endpointFile[g].variants)
    <3> SUFFICES ASSUME item.write \in {"skipped", "unavailable"}, NEW g \in BatchFile, OnDisk(g),
                        NEW n \in DOMAIN endpointFile[g].variants, endpointFile[g].variants[n] = Made(item.of)
                 PROVE  FALSE
        BY <1>2 DEF ToSet, FilesTyped
    <3>1. item.of \in CaptureRef /\ spent.batches \in Nat
          BY <1>2, <1>13, <2>1 DEF BatchItem, EngineTyped
    <3>2. MadeNow(Made(item.of))
          BY <3>1 DEF MadeNow, Made
    <3>3. PICK j \in DOMAIN items : Made(item.of) = Made(items[j].of) /\ items[j].write \notin {"skipped", "unavailable"}
          BY <1>15, <3>2
    <3>4. item.of = items[j].of
          BY <3>3 DEF Made
    <3> QED
        BY <1>14, <2>1, <3>3, <3>4
  <2>4. said[i].runtime \in {"applied", "not_applied"} /\ outcome # "interrupted" =>
          /\ f \in BatchFile /\ f \notin meddled /\ OnDisk(f) /\ UseOf(f) = use /\ use \in MockUse
          /\ f \notin LoadErrors(endpointFile) \/ inUse[f] # use
    <3> SUFFICES ASSUME said[i].runtime \in {"applied", "not_applied"}, outcome # "interrupted"
                 PROVE  /\ f \in BatchFile /\ f \notin meddled /\ OnDisk(f) /\ UseOf(f) = use /\ use \in MockUse
                        /\ f \notin LoadErrors(endpointFile) \/ inUse[f] # use
        OBVIOUS
    <3>1. item.expects /\ ~Superseded(items, i)
          BY <1>7, <2>1
    <3>2. /\ item.selects /\ Written(item) /\ f \in BatchFile /\ f \notin meddled /\ OnDisk(f)
          /\ endpointFile[f].variants[item.variant] = Made(item.of) /\ endpointFile[f].key = keyOf[item.of]
          BY <1>7, <1>13, <2>1, <3>1
    <3>3. endpointFile[f].selected = item.variant
          BY <1>1, <1>2, <1>3, <2>1, <3>1, <3>2 DEF DestsInv
    <3>4. UseOf(f) = use
          BY <3>2, <3>3 DEF UseOf, Chosen
    <3>5. use \in MockUse
          BY <1>2, <3>2, <3>4, FileThere
    <3>6. item.of \in CaptureRef /\ spent.batches \in Nat
          BY <1>2, <1>13, <2>1 DEF BatchItem, EngineTyped
    <3>7. MadeNow(use.variant)
          BY <3>6 DEF MadeNow, Made
    <3>8. use # Unserved
          BY <3>5, BatchAssumption
    <3>9. inUse[f] = use => f \notin LoadErrors(endpointFile)
          BY <1>1, <1>2, <1>3, <3>2, <3>7, <3>8 DEF DestsInv
    <3> QED
        BY <3>2, <3>4, <3>5, <3>9
  <2>5. said[i].runtime = "applied" /\ outcome # "interrupted" => inUse'[f] = use
    <3> SUFFICES ASSUME said[i].runtime = "applied", outcome # "interrupted" PROVE inUse'[f] = use
        OBVIOUS
    <3>1. ok /\ f \notin LoadErrors(endpointFile) /\ inUse'[f] # Unserved
          BY <1>7, <2>1 DEF Served
    <3> QED
        BY <1>21, <2>4, <3>1
  <2>6. said[i].runtime = "not_applied" /\ outcome = "done" => inUse'[f] # use
    <3> SUFFICES ASSUME said[i].runtime = "not_applied", outcome = "done" PROVE inUse'[f] # use
        OBVIOUS
    <3>1. ok /\ ~(f \notin LoadErrors(endpointFile) /\ inUse'[f] # Unserved)
      <4>1. ok
            BY <1>3
      <4> QED
          BY <1>7, <2>1, <4>1 DEF Served
    <3>2. use # Unserved /\ (f \notin LoadErrors(endpointFile) \/ inUse[f] # use) /\ f \in BatchFile
          BY <2>4, BatchAssumption
    <3>3. f \in LoadErrors(endpointFile) => inUse'[f] \in {Unserved, inUse[f]}
          BY <1>1, <1>2, <3>1, <3>2, ReloadServes DEF Reloaded
    <3> QED
        BY <3>1, <3>2, <3>3
  <2> QED
      BY <1>7, <2>1, <2>2, <2>3, <2>5, <2>6
<1> QED
    BY <1>10, <1>11, <1>19, <1>20, <1>22, <1>23 DEF CaptureInv, MocksAsChosen

\* The answer reaches the page, or not.
LEMMA EndKeeps == ASSUME CaptureInv, EndBatch PROVE CaptureInv'
<1> DEFINE done == batch.at = "answered" /\ batch.outcome = "done"
           exists == batch.kind = "single" /\ done /\ batch.items[1].write = "skipped"
           asked == [run |-> batch.run, wanted |-> batch.wanted, id |-> batch.items[1].of[2]]
<1>1. /\ batch.at \in {"answered", "lost"} /\ batch # NoBatch /\ batch' = NoBatch
      /\ UNCHANGED <<traffic, keyOf, endpointFile, inUse, meddled, spent>>
      BY DEF EndBatch, NoBatch
<1>2. EngineTyped /\ ViewTyped /\ FilesTyped /\ BatchTyped /\ TodoInv
      BY <1>1 DEF CaptureInv, BatchInv
<1>3. EngineTyped' /\ FilesTyped'
      BY <1>1, <1>2 DEF EngineTyped, FilesTyped, OnDisk, UpTo
<1>4. batch'.at = "none"
      BY <1>1 DEF NoBatch
<1>5. BatchInv' /\ MocksAsChosen'
      BY <1>1, <1>4 DEF BatchInv, MocksAsChosen, OnlyWhatWasChosen, OutcomesTrue, NothingActivated, Ended
<1>6. ViewTyped'
  <2>1. CASE UNCHANGED view
        BY <1>2, <2>1 DEF ViewTyped, NoBatch
  <2>2. CASE view' = Unticked(view)
    <3>1. view.shown \in SUBSET Nat /\ IsFiniteSet(view.shown)
          BY <1>2 DEF ViewTyped
    <3>2. view' = [Unticked(view) EXCEPT !.shown = view.shown]
          BY <1>2, <2>2 DEF Unticked, ViewTyped
    <3> QED
        BY <1>2, <3>1, <3>2, UntickedTyped
  <2>3. CASE exists /\ view' = [view EXCEPT !.prompt = asked]
    <3>1. batch.items # <<>> /\ batch.items \in Seq(BatchItem)
          BY <1>1, <1>2, <2>3 DEF CaptureInv, BatchInv, BatchTyped
    <3>2. 1 \in DOMAIN batch.items
          BY <3>1
    <3>7. batch.items[1] \in BatchItem
          BY <3>1, <3>2
    <3>3. batch.items[1].of \in CaptureRef
          BY <3>7 DEF BatchItem
    <3>4. OfBatch(batch.items[1].of)
          BY <1>2, <2>3, <3>2 DEF TodoInv, Going
    <3>5. /\ batch.run \in Nat /\ batch.wanted \in SUBSET CaptureRef /\ batch.items[1].of[2] \in Nat
          /\ <<batch.run, batch.items[1].of[2]>> \in batch.wanted
      <4>1. PICK a \in Nat, b \in Nat : batch.items[1].of = <<a, b>>
            BY <3>3 DEF CaptureRef
      <4>2. a = batch.run /\ <<a, b>> \in batch.wanted
            BY <2>3, <3>4, <4>1 DEF OfBatch
      <4> QED
          BY <1>2, <4>1, <4>2 DEF BatchTyped
    <3>6. /\ asked \in [run : Nat, wanted : SUBSET CaptureRef, id : Nat]
          /\ <<asked.run, asked.id>> \in asked.wanted
          BY <3>5
    <3> HIDE DEF asked
    <3> QED
        BY <1>2, <2>3, <3>6 DEF ViewTyped
  <2> QED
      BY <2>1, <2>2, <2>3 DEF EndBatch
<1> QED
    BY <1>3, <1>5, <1>6 DEF CaptureInv

\* Somebody removes a file: nothing of the batch is in it yet, and no other file is in error
\* for want of it.
LEMMA RemoveKeeps == ASSUME CaptureInv, NEW f \in BatchFile, HandRemove(f) PROVE CaptureInv'
<1>1. /\ batch.at = "items" /\ batch.todo # <<>> /\ batch.items = <<>> /\ batch # NoBatch
      /\ spent' = [spent EXCEPT !.edits = @ + 1] /\ meddled' = meddled \cup {f}
      /\ endpointFile' = [endpointFile EXCEPT ![f] = NoEndpointFile]
      /\ UNCHANGED <<traffic, keyOf, view, batch, inUse>>
      BY DEF HandRemove, NoBatch
<1>2. /\ EngineTyped /\ ViewTyped /\ FilesTyped /\ BatchTyped /\ TodoInv /\ WrittenInv /\ KeptTyped
      /\ DestsInv /\ OnlyWhatWasChosen
      BY <1>1 DEF CaptureInv, BatchInv, MocksAsChosen
<1>3. /\ endpointFile' \in [BatchFile -> FileState] /\ endpointFile'[f] = NoEndpointFile
      /\ \A g \in BatchFile : g # f => endpointFile'[g] = endpointFile[g]
      BY <1>1, <1>2 DEF FilesTyped, FileState
<1>4. spent'.batches = spent.batches /\ spent' \in [batches : Nat, edits : Nat]
      BY <1>1, <1>2 DEF EngineTyped
<1>5. EngineTyped' /\ ViewTyped'
      BY <1>1, <1>2, <1>4 DEF EngineTyped, ViewTyped, NoBatch
<1>6. FilesTyped'
      BY <1>1, <1>2, <1>3, <1>4 DEF FilesTyped, OnDisk, UpTo
<1>7. \A g \in BatchFile : Readable(endpointFile', g) => g # f /\ Readable(endpointFile, g)
      BY <1>3 DEF Readable
<1>8. LoadErrors(endpointFile') \subseteq LoadErrors(endpointFile)
  <2>1. \A g \in BatchFile : 1..(g - 1) \subseteq BatchFile
        BY BatchAssumption DEF BatchFile
  <2>2. \A g \in BatchFile : Taken(endpointFile', g) => Taken(endpointFile, g)
        BY <1>3, <1>7, <2>1 DEF Taken
  <2> QED
      BY <1>3, <2>2 DEF LoadErrors
<1>9. BatchTyped'
      BY <1>1, <1>2 DEF BatchTyped
<1>10. TodoInv' /\ OnlyWhatWasChosen'
       BY <1>1, <1>2 DEF TodoInv, OnlyWhatWasChosen, Going, OfBatch, Written
<1>11. WrittenInv'
  <2>1. \A g \in BatchFile : OnDisk(g) =>
          \A n \in DOMAIN endpointFile[g].variants : ~MadeNow(endpointFile[g].variants[n])
        BY <1>1, <1>2 DEF WrittenInv, Going, KeptTyped
  <2> QED
      BY <1>1, <1>3, <1>4, <2>1 DEF WrittenInv, OnDisk, MadeNow
<1>12. KeptTyped'
       BY <1>1, <1>2 DEF KeptTyped, Written
<1>13. DestsInv'
  <2> SUFFICES ASSUME batch.outcome = "none" PROVE DestsInv'
      BY <1>1 DEF DestsInv
  <2>1. \A k \in RouteKey : \A g \in batch.dests[k] \ meddled' :
          endpointFile'[g] # NoEndpointFile /\ endpointFile'[g].key = k
        BY <1>1, <1>2, <1>3 DEF DestsInv, KeptTyped, OnDisk
  <2>2. \A g \in BatchFile : Readable(endpointFile', g) => g \in batch.dests[endpointFile'[g].key]
        BY <1>1, <1>2, <1>3, <1>7 DEF DestsInv
  <2>3. \A g \in BatchFile \ meddled' :
          inUse[g] # Unserved /\ MadeNow(inUse[g].variant) => g \notin LoadErrors(endpointFile')
        BY <1>1, <1>2, <1>8 DEF DestsInv
  <2>4. \A i \in DOMAIN batch'.items : FALSE
        BY <1>1
  <2> QED
      BY <1>1, <1>4, <2>1, <2>2, <2>3, <2>4 DEF DestsInv, OnDisk, MadeNow
<1>14. BatchInv'
       BY <1>1, <1>9, <1>10, <1>11, <1>12, <1>13 DEF BatchInv, QueuedInv, QuietInv
<1>15. MocksAsChosen'
       BY <1>1, <1>10 DEF MocksAsChosen, OutcomesTrue, NothingActivated, Ended
<1> QED
    BY <1>5, <1>6, <1>14, <1>15 DEF CaptureInv

\* A reload in the middle of the batch.
LEMMA WatcherKeeps == ASSUME CaptureInv, WatcherReload PROVE CaptureInv'
<1>1. /\ batch.at = "items" /\ batch # NoBatch /\ inUse' = Reloaded
      /\ UNCHANGED <<traffic, keyOf, view, batch, endpointFile, meddled, spent>>
      BY DEF WatcherReload, NoBatch
<1>2. /\ EngineTyped /\ ViewTyped /\ FilesTyped /\ BatchTyped /\ TodoInv /\ WrittenInv /\ KeptTyped
      /\ DestsInv /\ QuietInv /\ OnlyWhatWasChosen
      BY <1>1 DEF CaptureInv, BatchInv, MocksAsChosen
<1>3. \A f \in BatchFile : inUse'[f] = InUseAfter(endpointFile, f)
      BY <1>1 DEF Reloaded
<1>4. EngineTyped' /\ ViewTyped'
      BY <1>1, <1>2 DEF EngineTyped, ViewTyped, NoBatch
<1>5. FilesTyped'
  <2>1. inUse' \in [BatchFile -> UseState]
        BY <1>1, <1>2, ReloadServes DEF Reloaded
  <2> QED
      BY <1>1, <1>2, <1>3, <2>1, ReloadTyped
<1>6. BatchTyped' /\ TodoInv' /\ WrittenInv' /\ KeptTyped' /\ OnlyWhatWasChosen'
  <2>1. BatchTyped' /\ TodoInv' /\ OnlyWhatWasChosen'
        BY <1>1, <1>2 DEF BatchTyped, TodoInv, OnlyWhatWasChosen, Going, OfBatch, Written
  <2>2. WrittenInv'
        BY <1>1, <1>2 DEF WrittenInv, Going, Written, OnDisk, Made, MadeNow
  <2>3. KeptTyped'
        BY <1>1, <1>2 DEF KeptTyped, Written
  <2> QED
      BY <2>1, <2>2, <2>3
<1>7. DestsInv'
  <2>1. ASSUME batch.outcome = "none", NEW f \in BatchFile \ meddled, inUse'[f] # Unserved,
               MadeNow(inUse'[f].variant), f \in LoadErrors(endpointFile)
        PROVE  FALSE
    <3>1. inUse'[f] = inUse[f]
          BY <1>2, <1>3, <2>1, ReloadServes
    <3> QED
        BY <1>1, <1>2, <2>1, <3>1 DEF DestsInv
  <2> QED
      BY <1>1, <1>2, <2>1 DEF DestsInv, OnDisk, MadeNow
<1>8. QuietInv'
  <2>1. ASSUME meddled = {}, NEW f \in BatchFile, Unserved \notin batch.before[f],
               ~batch.options.select, f \notin LoadErrors(endpointFile)
        PROVE  inUse'[f] \in batch.before[f]
        BY <1>1, <1>2, <1>3, <2>1, ReloadServes DEF QuietInv
  <2> QED
      BY <1>1, <1>2, <2>1 DEF QuietInv, OnDisk, UseOf
<1>9. BatchInv'
      BY <1>1, <1>6, <1>7, <1>8 DEF BatchInv, QueuedInv
<1>10. MocksAsChosen'
       BY <1>1, <1>6 DEF MocksAsChosen, OutcomesTrue, NothingActivated, Ended
<1> QED
    BY <1>4, <1>5, <1>9, <1>10 DEF CaptureInv

LEMMA CaptureInit == InitBatch => CaptureInv
<1> SUFFICES ASSUME InitBatch PROVE CaptureInv
    OBVIOUS
<1>1. /\ traffic = [run |-> 1, last |-> 0] /\ keyOf = << >> /\ batch = NoBatch
      /\ view = [run |-> 1, shown |-> {}, sel |-> NoSelection, anchor |-> 0, prompt |-> NoBatch, ticked |-> {}]
      /\ endpointFile \in WrittenByHand /\ meddled = {} /\ spent = [batches |-> 0, edits |-> 0]
      BY DEF InitBatch
<1>2. EngineTyped
      BY <1>1 DEF EngineTyped
<1>3. ViewTyped
  <2>1. NoSelection \in [run : Nat, ids : SUBSET Nat] /\ NoSelection.ids = {} /\ IsFiniteSet({})
        BY FS_EmptySet DEF NoSelection
  <2>2. view \in [run : Nat, shown : SUBSET Nat, sel : [run : Nat, ids : SUBSET Nat], anchor : Nat,
                  prompt : {NoBatch} \cup [run : Nat, wanted : SUBSET CaptureRef, id : Nat],
                  ticked : SUBSET CaptureRef]
        BY <1>1, <2>1
  <2>3. view.shown = {} /\ view.sel = NoSelection /\ view.prompt = NoBatch
        BY <1>1
  <2> QED
      BY <2>1, <2>2, <2>3 DEF ViewTyped
<1>4. endpointFile \in [BatchFile -> FileState]
      BY <1>1, BatchAssumption DEF FileState
<1>5. ASSUME NEW f \in BatchFile, OnDisk(f)
      PROVE  /\ endpointFile[f] \in FileRecord
             /\ endpointFile[f].selected \in DOMAIN endpointFile[f].variants
             /\ \A n \in DOMAIN endpointFile[f].variants :
                  endpointFile[f].variants[n] \in {OwnVariant, BadVariant}
  <2>1. endpointFile[f].variants \in Seq({OwnVariant, BadVariant})
        BY <1>1, <1>5, BatchAssumption DEF OnDisk
  <2>2. endpointFile[f].selected \in DOMAIN endpointFile[f].variants
        BY <1>1, <1>5, BatchAssumption DEF OnDisk
  <2>3. endpointFile[f] \in FileRecord
        BY <1>4, <1>5 DEF OnDisk, FileState
  <2> QED
      BY <2>1, <2>2, <2>3
<1>6. \A v : v \in {OwnVariant, BadVariant} => v \in MockVariant /\ UpTo(v, spent.batches)
      BY BatchAssumption DEF MockVariant, UpTo
<1>7. PICK kept \in BOOLEAN :
        inUse = [f \in BatchFile |->
                   IF f \in LoadErrors(endpointFile)
                   THEN IF kept /\ ~Taken(endpointFile, f)
                        THEN [key |-> endpointFile[f].key, variant |-> OwnVariant] ELSE Unserved
                   ELSE IF Loadable(endpointFile, f)
                   THEN [key |-> endpointFile[f].key, variant |-> Chosen(endpointFile[f])]
                   ELSE Unserved]
      BY DEF InitBatch
<1>8. ASSUME NEW f \in BatchFile
      PROVE  inUse[f] \in UseState /\ (inUse[f] # Unserved => UpTo(inUse[f].variant, spent.batches))
  <2>1. CASE inUse[f] = Unserved
        BY <2>1 DEF UseState
  <2>2. CASE OnDisk(f) /\ \E v \in {OwnVariant, BadVariant} :
               inUse[f] = [key |-> endpointFile[f].key, variant |-> v]
        BY <1>5, <1>6, <2>2 DEF UseState, MockUse, FileRecord
  <2>3. f \in LoadErrors(endpointFile) \/ Loadable(endpointFile, f) => OnDisk(f)
        BY DEF LoadErrors, Loadable, OnDisk
  <2>4. OnDisk(f) => Chosen(endpointFile[f]) \in {OwnVariant, BadVariant}
        BY <1>5 DEF Chosen
  <2> QED
      BY <1>7, <2>1, <2>2, <2>3, <2>4
<1>9. FilesTyped
  <2>1. inUse \in [BatchFile -> UseState]
    <3>1. inUse = [f \in BatchFile |-> inUse[f]]
          BY <1>7
    <3> QED
        BY <1>8, <3>1
  <2> QED
      BY <1>4, <1>5, <1>6, <1>8, <2>1 DEF FilesTyped
<1>10. batch.at = "none"
       BY <1>1 DEF NoBatch
<1>11. BatchInv /\ MocksAsChosen
       BY <1>1, <1>10 DEF BatchInv, MocksAsChosen, OnlyWhatWasChosen, OutcomesTrue, NothingActivated, Ended
<1> QED
    BY <1>2, <1>3, <1>9, <1>11 DEF CaptureInv

LEMMA CaptureKept == ASSUME CaptureInv, [BatchStep]_batchVars PROVE CaptureInv'
<1>1. CASE UNCHANGED batchVars
  <2>1. EngineTyped' /\ ViewTyped'
        BY <1>1 DEF batchVars, CaptureInv, EngineTyped, ViewTyped, NoBatch
  <2> QED
      BY <1>1, <2>1, AsideKeeps DEF batchVars
<1>2. ASSUME NEW k \in RouteKey, RequestPasses(k) PROVE CaptureInv'
      BY <1>2, PassesKeeps
<1>3. CASE Restart \/ FollowStream
      BY <1>3, RestartKeeps, FollowKeeps
<1>4. ASSUME NEW log \in BOOLEAN, Cleared(log) PROVE CaptureInv'
      BY <1>4, ClearedKeeps
<1>5. ASSUME NEW id \in view.shown, NEW range \in BOOLEAN, Toggle(id, range) PROVE CaptureInv'
      BY <1>5, ToggleKeeps
<1>6. ASSUME NEW enable \in BOOLEAN, CreateFromSelected(enable) PROVE CaptureInv'
      BY <1>6, SelectedKeeps
<1>7. ASSUME NEW id \in view.shown, CreateFromEntry(id) PROVE CaptureInv'
      BY <1>7, EntryKeeps
<1>8. ASSUME NEW activate \in BOOLEAN, ConfirmAdd(activate) PROVE CaptureInv'
      BY <1>8, ConfirmKeeps
<1>9. CASE CancelAdd
      BY <1>9, CancelAddKeeps
<1>10. ASSUME NEW c \in DOMAIN keyOf, NEW d \in DOMAIN keyOf, c # d, CreateFromDump(<<c, d>>) PROVE CaptureInv'
       BY <1>10, DumpKeeps
<1>11. CASE CreateByClient(<<1, 2>>)
       BY <1>11, ClientKeeps
<1>12. ASSUME NEW gone \in {{}} \cup {{c} : c \in DOMAIN keyOf}, StartBatch(gone) PROVE CaptureInv'
       BY <1>12, StartKeeps
<1>13. CASE ProcessItem \/ EndBatch \/ WatcherReload
       BY <1>13, ProcessKeeps, EndKeeps, WatcherKeeps
<1>14. ASSUME NEW ok \in BOOLEAN, FinishBatch(ok) PROVE CaptureInv'
       BY <1>14, FinishKeeps
<1>15. ASSUME NEW f \in BatchFile, HandRemove(f) PROVE CaptureInv'
       BY <1>15, RemoveKeeps
<1> QED
    BY <1>1, <1>2, <1>3, <1>4, <1>5, <1>6, <1>7, <1>8, <1>9, <1>10, <1>11, <1>12, <1>13, <1>14, <1>15
    DEF BatchStep

\* No mock comes from a request that was not chosen, what the answer says of every item is
\* true of the files and of what is served, and nothing is activated unasked (MocksAsChosen).
THEOREM MocksAsChosenHolds == BatchSpec => []MocksAsChosen
<1>1. CaptureInv => MocksAsChosen
      BY DEF CaptureInv
<1> QED
    BY <1>1, CaptureInit, CaptureKept, PTL DEF BatchSpec

-------------------------------------------------------------------------------
(* The page of the data files.                                            *)

Listing == [status : {"ok"}, items : SUBSET FileNames]
Detail == [status : {"ok"}, file : StoredFile]

CallTyped(c) ==
  /\ c \in [n : Nat, kind : {"list", "get"} \cup Changing, name : Selectable, to : Selectable,
            keep : BOOLEAN, asked : Selectable, old : SUBSET Nat,
            answer : {Pending, Refusal, Agreed} \cup Listing \cup Detail]
  /\ c.kind = "list" => c.answer = Pending \/ c.answer \in Listing
  /\ c.kind = "get" => c.name \in FileNames /\ (c.answer \in {Pending, Refusal} \/ c.answer \in Detail)
  /\ c.kind \in Changing => c.name \in FileNames /\ c.answer \in {Pending, Refusal, Agreed}
  /\ c.kind = "upload" => c.answer # Refusal
  /\ c.kind = "rename" => c.to \in FileNames
  /\ IF c.kind \in Changing THEN c.n \in 1..dataSpent.changes ELSE c.n = 0
  /\ c.old \subseteq 1..dataSpent.changes
PageTyped ==
  dati \in [listed : SUBSET FileNames, selected : Selectable, preview : StoredFile \cup {NoPreview},
            renaming : BOOLEAN, confirming : BOOLEAN, busy : BOOLEAN, left : Int, last : Selectable]
SpentTyped == dataSpent \in [{"changes", "selections", "forms", "failures"} -> Nat]
AstrayTyped == astray \in [asked : Selectable, crossed : BOOLEAN, late : BOOLEAN, failed : BOOLEAN]
DataTyped ==
  dataDir \in DataFolder /\ PageTyped /\ (\A c \in calls : CallTyped(c)) /\ SpentTyped /\ AstrayTyped

LEMMA FolderFacts ==
  ASSUME dataDir \in DataFolder
  PROVE  /\ Names \subseteq FileNames /\ dataDir \in [Names -> StoredFile]
         /\ \A x \in Names : x # NoName
  <1>1. PICK S \in SUBSET FileNames : dataDir \in [S -> StoredFile]
    BY DEF DataFolder
  <1> QED  BY <1>1, DataAssumption DEF Names, NoName
LEMMA FolderMade ==
  ASSUME NEW d, NEW S \in SUBSET FileNames, d \in [S -> StoredFile]
  PROVE  d \in DataFolder
  BY DEF DataFolder
LEMMA Spending ==
  ASSUME NEW what, SpendData(what), SpentTyped
  PROVE  /\ dataSpent' \in [{"changes", "selections", "forms", "failures"} -> Nat]
         /\ dataSpent'.changes = dataSpent.changes + IF "changes" \in what THEN 1 ELSE 0
  <1>1. dataSpent' = [k \in DOMAIN dataSpent |-> dataSpent[k] + IF k \in what THEN 1 ELSE 0]
    BY Zenon DEF SpendData
  <1> QED  BY <1>1 DEF SpentTyped

\* What a step asks for: a list, a preview, a change.
LEMMA CallMade ==
  ASSUME NEW kind \in {"list", "get"} \cup Changing, NEW name \in Selectable,
         kind = "list" \/ name \in FileNames, NEW to \in Selectable, NEW keep \in BOOLEAN,
         NEW asked \in Selectable, NEW n \in Nat, kind # "rename" \/ to \in FileNames,
         NEW c, c = [n |-> n, kind |-> kind, name |-> name, to |-> to, keep |-> keep,
                     asked |-> asked, old |-> {}, answer |-> Pending]
  PROVE  (IF kind \in Changing THEN n \in 1..dataSpent.changes ELSE n = 0) => CallTyped(c)
  <1>1. Pending \notin Listing \cup Detail \cup {Refusal, Agreed}
    BY DEF Pending, Listing, Detail, Refusal, Agreed
  <1>2. c.n = n /\ c.kind = kind /\ c.name = name /\ c.to = to /\ c.keep = keep /\ c.asked = asked
        /\ c.old = {} /\ c.answer = Pending
    OBVIOUS
  <1>3. c \in [n : Nat, kind : {"list", "get"} \cup Changing, name : Selectable, to : Selectable,
            keep : BOOLEAN, asked : Selectable, old : SUBSET Nat,
            answer : {Pending, Refusal, Agreed} \cup Listing \cup Detail]
    OBVIOUS
  <1> QED  BY <1>1, <1>2, <1>3 DEF CallTyped, Changing
LEMMA ListMade ==
  ASSUME NEW keep \in BOOLEAN
  PROVE  /\ List(keep) = [n |-> 0, kind |-> "list", name |-> NoName, to |-> NoName, keep |-> keep,
                          asked |-> NoName, old |-> {}, answer |-> Pending]
         /\ CallTyped(List(keep))
  <1>1. List(keep) = [n |-> 0, kind |-> "list", name |-> NoName, to |-> NoName, keep |-> keep,
                      asked |-> NoName, old |-> {}, answer |-> Pending]
    BY DEF List, Call
  <1>2. NoName \in Selectable /\ "list" \notin Changing
    BY DEF Selectable, Changing
  <1> QED  BY <1>1, <1>2, CallMade
LEMMA PreviewMade ==
  ASSUME NEW name \in FileNames
  PROVE  /\ LoadPreview(name) = [n |-> 0, kind |-> "get", name |-> name, to |-> NoName, keep |-> TRUE,
                                 asked |-> name, old |-> {}, answer |-> Pending]
         /\ CallTyped(LoadPreview(name))
  <1>1. LoadPreview(name) = [n |-> 0, kind |-> "get", name |-> name, to |-> NoName, keep |-> TRUE,
                             asked |-> name, old |-> {}, answer |-> Pending]
    BY DEF LoadPreview, Call
  <1>2. NoName \in Selectable /\ name \in Selectable /\ "get" \notin Changing
    BY DEF Selectable, Changing
  <1> QED  BY <1>1, <1>2, CallMade
LEMMA CallStaysTyped ==
  ASSUME NEW c, CallTyped(c), SpentTyped, SpentTyped',
         dataSpent'.changes >= dataSpent.changes
  PROVE  CallTyped(c)'
  <1>1. dataSpent.changes \in Nat /\ dataSpent'.changes \in Nat
    BY DEF SpentTyped
  <1> QED  BY <1>1 DEF CallTyped

\* A read that a step makes.
FreshRead(c) == c.kind \in {"list", "get"} /\ c.n = 0 /\ c.old = {} /\ c.answer = Pending

LEMMA PreviewsMade ==
  ASSUME NEW p, NEW q, q.selected \in Selectable
  PROVE  /\ \A c \in Previews(p, q) :
              CallTyped(c) /\ FreshRead(c) /\ c.kind = "get" /\ c.name = q.selected
         /\ q.selected \notin {p.selected, NoName} => Previews(p, q) # {}
  <1>1. CASE q.selected \in {p.selected, NoName}
    BY <1>1 DEF Previews
  <1>2. CASE q.selected \notin {p.selected, NoName}
    <2>1. q.selected \in FileNames
      BY <1>2 DEF Selectable
    <2> QED  BY <1>2, <2>1, PreviewMade DEF Previews, FreshRead
  <1> QED  BY <1>1, <1>2
LEMMA ReloadsMade ==
  ASSUME NEW d, NEW q, q.selected \in Selectable
  PROVE  /\ \A c \in Reloads(d, q) :
              CallTyped(c) /\ FreshRead(c) /\ c.kind = "get" /\ c.name = q.selected
         /\ d.keep /\ q.selected # NoName /\ q.preview = NoPreview => Reloads(d, q) # {}
  <1>1. CASE ~(d.keep /\ q.selected # NoName /\ q.preview = NoPreview)
    BY <1>1 DEF Reloads
  <1>2. CASE d.keep /\ q.selected # NoName /\ q.preview = NoPreview
    <2>1. q.selected \in FileNames
      BY <1>2 DEF Selectable
    <2> QED  BY <1>2, <2>1, PreviewMade DEF Reloads, FreshRead
  <1> QED  BY <1>1, <1>2
LEMMA SelectingMade ==
  ASSUME NEW p, NEW name \in Selectable,
         p \in [listed : SUBSET FileNames, selected : Selectable, preview : StoredFile \cup {NoPreview},
                renaming : BOOLEAN, confirming : BOOLEAN, busy : BOOLEAN, left : Int, last : Selectable],
         NEW q, q = Selecting(p, name)
  PROVE  /\ q \in [listed : SUBSET FileNames, selected : Selectable, preview : StoredFile \cup {NoPreview},
                   renaming : BOOLEAN, confirming : BOOLEAN, busy : BOOLEAN, left : Int, last : Selectable]
         /\ q.listed = p.listed /\ q.selected = name /\ q.busy = p.busy /\ q.left = p.left
         /\ IF name = p.selected THEN q = p
            ELSE q.preview = NoPreview /\ ~q.renaming /\ ~q.confirming
  BY DEF Selecting

LEMMA AnswerFacts ==
  ASSUME dataDir \in DataFolder, NEW c, CallTyped(c)
  PROVE  /\ c.kind = "list" => AnswerTo(c) \in Listing /\ AnswerTo(c).items = Names
         /\ c.kind = "get" => IF c.name \in Names
                              THEN AnswerTo(c) \in Detail /\ AnswerTo(c).file = dataDir[c.name]
                              ELSE AnswerTo(c) = Refusal
         /\ c.kind \in Changing => AnswerTo(c) = IF Refused(c) THEN Refusal ELSE Agreed
         /\ c.kind = "upload" => ~Refused(c)
         /\ c.kind = "delete" => (Refused(c) <=> c.name \notin Names)
         /\ c.kind = "rename" => (Refused(c) <=> c.name \notin Names \/ c.to \in Names \ {c.name})
  <1>1. c.kind = "list" => AnswerTo(c) \in Listing /\ AnswerTo(c).items = Names
    BY FolderFacts DEF AnswerTo, Refused, Listing
  <1>2. c.kind = "get" => IF c.name \in Names
                              THEN AnswerTo(c) \in Detail /\ AnswerTo(c).file = dataDir[c.name]
                              ELSE AnswerTo(c) = Refusal
    BY FolderFacts DEF AnswerTo, Refused, Detail
  <1>3. c.kind \in Changing => AnswerTo(c) = IF Refused(c) THEN Refusal ELSE Agreed
    BY DEF AnswerTo, Changing
  <1> QED  BY <1>1, <1>2, <1>3 DEF Refused
\* Answers differ from one another.
LEMMA AnswersDiffer ==
  /\ Pending # Refusal /\ Pending # Agreed /\ Refusal # Agreed
  /\ Pending \notin Listing \cup Detail /\ Refusal \notin Listing \cup Detail
  /\ Pending.status = "pending" /\ Refusal.status = "refused" /\ Agreed.status = "ok"
  /\ \A a \in Listing : a.status = "ok" /\ a.items \in SUBSET FileNames
  /\ \A a \in Detail : a.status = "ok" /\ a.file \in StoredFile /\ a.file # NoPreview
  BY DataAssumption DEF Pending, Refusal, Agreed, Listing, Detail
\* What a read brings when it comes.
LEMMA ReadBrings ==
  ASSUME dataDir \in DataFolder, NEW c, CallTyped(c), c.kind \notin Changing
  PROVE  /\ c.answer = Pending => Answer(c) = AnswerTo(c)
         /\ c.answer # Pending => Answer(c) = c.answer
         /\ c.kind = "list" => Answer(c) \in Listing
         /\ c.kind = "get" => Answer(c) \in Detail \cup {Refusal}
  BY AnswerFacts, AnswersDiffer DEF Answer, CallTyped

\* What a call in flight becomes when a change is made.
LEMMA AgedFacts ==
  ASSUME dataDir \in DataFolder, NEW d, CallTyped(d), NEW n \in Nat, NEW before,
         d \in before => d.kind \notin Changing /\ d.answer = Pending,
         NEW e, e = Aged(ServedFirst(d, before), n)
  PROVE  /\ e.n = d.n /\ e.kind = d.kind /\ e.name = d.name /\ e.to = d.to /\ e.keep = d.keep
         /\ e.asked = d.asked /\ DOMAIN e = DOMAIN d
         /\ d.kind \in Changing => e = d
         /\ d.kind \notin Changing =>
              /\ e.answer = IF d \in before THEN AnswerTo(d) ELSE d.answer
              /\ e.old = IF e.answer # Pending THEN d.old \cup {n} ELSE d.old
         /\ e \in [n : Nat, kind : {"list", "get"} \cup Changing, name : Selectable, to : Selectable,
                   keep : BOOLEAN, asked : Selectable, old : SUBSET Nat,
                   answer : {Pending, Refusal, Agreed} \cup Listing \cup Detail]
  <1> DEFINE s == ServedFirst(d, before)
  <1>1. AnswerTo(d) \in {Pending, Refusal, Agreed} \cup Listing \cup Detail
    <2>1. d.kind \in {"list", "get"} \cup Changing
      BY DEF CallTyped
    <2> QED  BY <2>1, AnswerFacts
  <1>2. /\ s \in [n : Nat, kind : {"list", "get"} \cup Changing, name : Selectable, to : Selectable,
                   keep : BOOLEAN, asked : Selectable, old : SUBSET Nat,
                   answer : {Pending, Refusal, Agreed} \cup Listing \cup Detail]
        /\ s.n = d.n /\ s.kind = d.kind /\ s.name = d.name /\ s.to = d.to /\ s.keep = d.keep
        /\ s.asked = d.asked /\ s.old = d.old
        /\ d \notin before => s = d
        /\ s.answer = IF d \in before THEN AnswerTo(d) ELSE d.answer
    BY <1>1 DEF CallTyped, ServedFirst
  <1>3. e = IF s.answer # Pending /\ s.kind \notin Changing
            THEN [s EXCEPT !.old = s.old \cup {n}] ELSE s
    BY DEF Aged
  <1> HIDE DEF s
  <1>4. /\ e \in [n : Nat, kind : {"list", "get"} \cup Changing, name : Selectable, to : Selectable,
                   keep : BOOLEAN, asked : Selectable, old : SUBSET Nat,
                   answer : {Pending, Refusal, Agreed} \cup Listing \cup Detail]
        /\ e.n = s.n /\ e.kind = s.kind /\ e.name = s.name /\ e.to = s.to /\ e.keep = s.keep
        /\ e.asked = s.asked /\ e.answer = s.answer
        /\ s.kind \in Changing => e = s
        /\ s.kind \notin Changing => e.old = IF e.answer # Pending THEN s.old \cup {n} ELSE s.old
    BY <1>2, <1>3
  <1>5. DOMAIN e = DOMAIN d
    BY <1>4 DEF CallTyped
  <1> QED  BY <1>2, <1>4, <1>5

\* The invariant: what is in flight, what is on disk and what the page shows, together.  The
\* changes in flight explain every difference between a read and the disk, the list and the
\* disk, the preview and the file that is selected.

Sent(kinds) == {c \in calls : c.kind \in kinds}
UploadNames == {c.name : c \in Sent({"upload"})}
AgreedTo(kind) == {c \in Sent({kind}) : c.answer = Agreed}

\* The changes in flight are one group of uploads, or one other change of the file asked.
CallsGrouped ==
  /\ \A c, d \in Sent({"upload"}) : c.n = d.n /\ (c.name = d.name => c = d)
  /\ \A c \in Sent({"rename", "delete"}), d \in Sent(Changing) : c = d
  /\ \A c \in Sent({"rename", "delete"}) : c.name = c.asked
\* While one is in flight the page is busy, and knows how many are left; an open form is of
\* the selected file.
PageGrouped ==
  /\ dati.left = Cardinality(UploadNames)
  /\ Sent(Changing) # {} => dati.busy
  /\ Sent({"rename"}) # {} => ~dati.confirming
  /\ dati.renaming \/ dati.confirming => astray.asked = dati.selected
AppliedOnDisk ==
  /\ \A c \in AgreedTo("rename") : c.to \in Names /\ (c.name \in Names => c.name = c.to)
  /\ \A c \in AgreedTo("delete") : c.name \notin Names
\* A read that was served brings what is on disk, unless a change was made since then: one
\* that is in flight, or one that has been answered before the read.
Since(c, d) == d.n \in c.old /\ d.kind \in Changing /\ (d.kind = "upload" \/ d.answer = Agreed)
ReadsRight ==
  \A c \in calls :
    /\ c.kind = "list" /\ c.answer # Pending =>
         Late(c) \/ c.answer.items = Names \/ \E d \in calls : Since(c, d)
    /\ c.kind = "get" /\ c.answer \in Detail =>
         \/ Late(c)
         \/ c.name \in Names /\ c.answer.file = dataDir[c.name]
         \/ \E d \in calls :
              /\ Since(c, d)
              /\ d.kind = "delete" => d.name = c.name
              /\ d.kind = "rename" => d.name = c.name /\ c.answer.file = dataDir[d.to]

Settled == Sent({"upload"}) = {} /\ AgreedTo("rename") = {}
ListRight ==
  \/ dati.listed = Names
  \/ Sent({"list"}) # {}
  \/ Sent({"upload"}) # {} \/ AgreedTo("rename") # {} \/ AgreedTo("delete") # {}
SelectionRight ==
  \/ dati.selected \in dati.listed
  \/ dati.listed = {} /\ dati.selected = NoName
  \/ Sent({"list"}) # {}
PreviewRight ==
  Settled /\ dati.preview # NoPreview /\ dati.selected \in Names
    => dati.preview = dataDir[dati.selected]
PreviewAsked ==
  Settled /\ dati.preview = NoPreview /\ dati.selected \in Names =>
    \E c \in calls : \/ c.kind = "list" /\ c.keep
                     \/ c.kind = "get" /\ c.name = dati.selected /\ c.answer # Refusal
PreviewMoves ==
  \A c \in AgreedTo("rename") :
    dati.selected = c.name => dati.preview \in {NoPreview, dataDir[c.to]}

ChangesRight == ~astray.crossed => CallsGrouped /\ PageGrouped /\ AppliedOnDisk /\ ReadsRight
PageRight ==
  Straight /\ ~astray.failed => ListRight /\ PreviewRight /\ PreviewAsked /\ PreviewMoves
DataInv ==
  /\ DataTyped
  /\ ~(dati.renaming /\ dati.confirming)
  /\ ChangesRight
  /\ ~astray.failed => SelectionRight
  /\ PageRight

\* What a step that adds reads and takes at most one answer leaves true.
LEMMA Reading ==
  ASSUME DataTyped, NEW gone \in SUBSET calls, \A x, y \in gone : x = y,
         NEW made, \A m \in made : FreshRead(m) /\ CallTyped(m),
         calls' = (calls \ gone) \cup made, dataDir' = dataDir,
         SpentTyped', dataSpent'.changes = dataSpent.changes
  PROVE  /\ \A c \in calls' : CallTyped(c)'
         /\ CallsGrouped => CallsGrouped'
         /\ Sent(Changing)' = Sent(Changing) \ gone
         /\ \A kind \in Changing : Sent({kind})' = Sent({kind}) \ gone
                                   /\ AgreedTo(kind)' = AgreedTo(kind) \ gone
         /\ AppliedOnDisk => AppliedOnDisk'
         /\ CallsGrouped /\ ReadsRight => ReadsRight'
         /\ \A c \in calls \ gone : c \in calls'
         /\ \A m \in made : m \in calls'
  <1>1. \A c \in calls' : CallTyped(c)'
    <2>1. dataSpent'.changes >= dataSpent.changes
      BY DEF DataTyped, SpentTyped
    <2> QED  BY <2>1, CallStaysTyped DEF DataTyped
  <1>2. \A m \in made : m.kind \notin Changing
    BY DEF FreshRead, Changing
  <1>3. /\ Sent(Changing)' = Sent(Changing) \ gone
        /\ \A kind \in Changing : Sent({kind})' = Sent({kind}) \ gone
        /\ Sent({"rename", "delete"})' = Sent({"rename", "delete"}) \ gone
    BY <1>2 DEF Sent, Changing
  <1>4. \A kind \in Changing : AgreedTo(kind)' = AgreedTo(kind) \ gone
    BY <1>3 DEF AgreedTo
  <1>5. CallsGrouped => CallsGrouped'
    BY <1>3 DEF CallsGrouped, Changing
  <1>6. AppliedOnDisk => AppliedOnDisk'
    BY <1>4 DEF AppliedOnDisk, Names, Changing
  <1>7. ASSUME CallsGrouped, ReadsRight PROVE ReadsRight'
    <2>1. \A d \in calls : d.n # 0 => d.kind \in Changing
      BY DEF DataTyped, CallTyped
    <2>2. \A c \in calls : \A k \in c.old : k \in Nat \ {0}
      BY DEF DataTyped, CallTyped, SpentTyped
    <2>3. ASSUME NEW c \in calls, Late(c) PROVE Late(c)'
      BY <2>2, <2>3 DEF Late, FreshRead
    <2>4. ASSUME NEW c \in calls, NEW d \in calls, Since(c, d)
          PROVE  \/ Late(c)'
                 \/ d \in calls' /\ Since(c, d)'
                 \/ \E e \in calls' : Since(c, e)' /\ e.kind = "upload"
      <3>1. CASE d \notin gone
        BY <2>4, <3>1 DEF Since
      <3>2. CASE d \in gone /\ \A e \in calls' : e.n # d.n
        BY <2>4, <3>2 DEF Since, Late
      <3>3. ASSUME d \in gone, NEW e \in calls', e.n = d.n
            PROVE  Since(c, e)' /\ e.kind = "upload"
        <4>1. d.n # 0
          BY <2>2, <2>4 DEF Since
        <4>2. e \in calls \ gone /\ e.kind \in Changing /\ e # d
          BY <2>1, <3>3, <4>1 DEF FreshRead
        <4>3. e \in Sent(Changing) /\ d \in Sent(Changing)
          BY <2>4, <4>2 DEF Sent, Since
        <4>4. e.kind = "upload"
          <5>1. e \notin Sent({"rename", "delete"})
            BY <4>2, <4>3, <1>7 DEF CallsGrouped
          <5> QED  BY <4>2, <5>1 DEF Sent, Changing
        <4> QED  BY <2>4, <3>3, <4>2, <4>4 DEF Since, Changing
      <3> QED  BY <3>1, <3>2, <3>3
    <2>5. ASSUME NEW c \in calls', c.answer # Pending PROVE c \in calls
      BY <2>5 DEF FreshRead
    <2>6. ASSUME NEW c \in calls', c.kind = "list" /\ c.answer # Pending
          PROVE  Late(c)' \/ c.answer.items = Names' \/ \E d \in calls' : Since(c, d)'
      <3>1. c \in calls
        BY <2>5, <2>6
      <3>2. Late(c) \/ c.answer.items = Names \/ \E d \in calls : Since(c, d)
        BY <1>7, <2>6, <3>1 DEF ReadsRight
      <3> QED  BY <2>3, <2>4, <3>1, <3>2 DEF Names
    <2>7. ASSUME NEW c \in calls', c.kind = "get" /\ c.answer \in Detail
          PROVE  \/ Late(c)'
                 \/ c.name \in Names' /\ c.answer.file = dataDir'[c.name]
                 \/ \E d \in calls' :
                      /\ Since(c, d)'
                      /\ d.kind = "delete" => d.name = c.name
                      /\ d.kind = "rename" => d.name = c.name /\ c.answer.file = dataDir'[d.to]
      <3>1. c \in calls
        BY <2>5, <2>7, AnswersDiffer
      <3>2. \/ Late(c)
            \/ c.name \in Names /\ c.answer.file = dataDir[c.name]
            \/ \E d \in calls :
                 /\ Since(c, d)
                 /\ d.kind = "delete" => d.name = c.name
                 /\ d.kind = "rename" => d.name = c.name /\ c.answer.file = dataDir[d.to]
        BY <1>7, <2>7, <3>1 DEF ReadsRight
      <3>3. CASE Late(c)
        BY <2>3, <3>1, <3>3
      <3>4. CASE c.name \in Names /\ c.answer.file = dataDir[c.name]
        BY <3>4 DEF Names
      <3>5. ASSUME NEW d \in calls, Since(c, d), d.kind = "delete" => d.name = c.name,
                   d.kind = "rename" => d.name = c.name /\ c.answer.file = dataDir[d.to]
            PROVE  \/ Late(c)'
                   \/ \E e \in calls' :
                        /\ Since(c, e)'
                        /\ e.kind = "delete" => e.name = c.name
                        /\ e.kind = "rename" => e.name = c.name /\ c.answer.file = dataDir'[e.to]
        BY <2>4, <3>1, <3>5
      <3> QED  BY <3>2, <3>3, <3>4, <3>5
    <2> QED  BY <2>6, <2>7 DEF ReadsRight
  <1> QED  BY <1>1, <1>3, <1>4, <1>5, <1>6, <1>7

\* The same, when what is answered is a read.
LEMMA ReadingOnly ==
  ASSUME DataTyped, NEW gone \in SUBSET calls, \A x, y \in gone : x = y,
         \A x \in gone : x.kind \notin Changing,
         NEW made, \A m \in made : FreshRead(m) /\ CallTyped(m),
         calls' = (calls \ gone) \cup made, dataDir' = dataDir,
         SpentTyped', dataSpent'.changes = dataSpent.changes
  PROVE  /\ \A c \in calls' : CallTyped(c)'
         /\ CallsGrouped /\ AppliedOnDisk /\ ReadsRight
              => CallsGrouped' /\ AppliedOnDisk' /\ ReadsRight'
         /\ Sent(Changing)' = Sent(Changing)
         /\ \A kind \in Changing : Sent({kind})' = Sent({kind}) /\ AgreedTo(kind)' = AgreedTo(kind)
         /\ UploadNames' = UploadNames /\ Settled' = Settled
         /\ \A c \in calls \ gone : c \in calls'
         /\ \A m \in made : m \in calls'
  <1>1. /\ \A c \in calls' : CallTyped(c)'
        /\ CallsGrouped => CallsGrouped'
        /\ Sent(Changing)' = Sent(Changing) \ gone
        /\ \A kind \in Changing : Sent({kind})' = Sent({kind}) \ gone
                                  /\ AgreedTo(kind)' = AgreedTo(kind) \ gone
        /\ AppliedOnDisk => AppliedOnDisk'
        /\ CallsGrouped /\ ReadsRight => ReadsRight'
        /\ \A c \in calls \ gone : c \in calls'
        /\ \A m \in made : m \in calls'
    BY Reading
  <1>2. \A kind \in Changing : Sent({kind}) \ gone = Sent({kind}) /\ AgreedTo(kind) \ gone = AgreedTo(kind)
    BY DEF Sent, AgreedTo
  <1>3. Sent(Changing) \ gone = Sent(Changing)
    BY DEF Sent
  <1>4. "upload" \in Changing /\ "rename" \in Changing
    BY DEF Changing
  <1>5. UploadNames' = UploadNames /\ Settled' = Settled
    BY <1>1, <1>2, <1>4 DEF UploadNames, Settled
  <1> QED  BY <1>1, <1>2, <1>3, <1>5

\* A selection that changes drops the preview, closes the forms and asks for a preview.
LEMMA SelectRowKeeps ==
  ASSUME DataInv, NEW name \in FileNames, SelectRow(name)
  PROVE  DataInv'
  <1>1. PICK q : /\ q = Selecting(dati, name) /\ dati' = q
                 /\ calls' = (calls \ {}) \cup Previews(dati, q)
                 /\ SpendData({"selections"}) /\ dataDir' = dataDir /\ astray' = astray
                 /\ name \in dati.listed /\ name # dati.selected
    BY DEF SelectRow
  <1>2. name \in Selectable /\ name # NoName
    BY DataAssumption DEF Selectable, NoName
  <1>3. SpentTyped' /\ dataSpent'.changes = dataSpent.changes
    BY <1>1, Spending DEF DataInv, DataTyped, SpentTyped
  <1>4. PageTyped' /\ dati'.listed = dati.listed /\ dati'.selected = name /\ dati'.busy = dati.busy
        /\ dati'.left = dati.left /\ dati'.preview = NoPreview /\ ~dati'.renaming /\ ~dati'.confirming
    BY <1>1, <1>2, SelectingMade DEF DataInv, DataTyped, PageTyped
  <1>5. \A c \in Previews(dati, q) : CallTyped(c) /\ FreshRead(c) /\ c.kind = "get" /\ c.name = name
    BY <1>1, <1>2, <1>4, PreviewsMade
  <1>6. Previews(dati, q) # {}
    BY <1>1, <1>2, <1>4, PreviewsMade
  <1>7. /\ \A c \in calls' : CallTyped(c)'
        /\ CallsGrouped /\ AppliedOnDisk /\ ReadsRight
             => CallsGrouped' /\ AppliedOnDisk' /\ ReadsRight'
        /\ Sent(Changing)' = Sent(Changing)
        /\ \A kind \in Changing : Sent({kind})' = Sent({kind}) /\ AgreedTo(kind)' = AgreedTo(kind)
        /\ UploadNames' = UploadNames /\ Settled' = Settled
        /\ \A c \in calls : c \in calls'
        /\ \A m \in Previews(dati, q) : m \in calls'
    BY <1>1, <1>3, <1>5, ReadingOnly DEF DataInv
  <1>8. DataTyped'
    BY <1>1, <1>3, <1>4, <1>7 DEF DataInv, DataTyped, AstrayTyped
  <1>9. ChangesRight'
    BY <1>1, <1>4, <1>7 DEF DataInv, ChangesRight, PageGrouped, Changing, Sent
  <1>10. SelectionRight'
    BY <1>1, <1>4 DEF SelectionRight
  <1>11. PageRight'
    <2>1. ListRight => ListRight'
      BY <1>1, <1>4, <1>7 DEF ListRight, Names, Sent, Changing
    <2>2. PreviewRight' /\ PreviewAsked' /\ PreviewMoves'
      BY <1>4, <1>5, <1>6, <1>7, AnswersDiffer DEF PreviewRight, PreviewAsked, PreviewMoves, FreshRead
    <2> QED  BY <1>1, <2>1, <2>2 DEF DataInv, PageRight, Straight
  <1> QED  BY <1>4, <1>8, <1>9, <1>10, <1>11 DEF DataInv

\* A step that makes and takes no call, and selects nothing.
LEMMA FormKeeps ==
  ASSUME DataInv, calls' = calls, dataDir' = dataDir, SpentTyped',
         dataSpent'.changes = dataSpent.changes,
         PageTyped', dati'.listed = dati.listed, dati'.selected = dati.selected,
         dati'.preview = dati.preview, dati'.busy = dati.busy, dati'.left = dati.left,
         AstrayTyped', astray'.crossed = astray.crossed, astray'.late = astray.late,
         astray'.failed = astray.failed,
         ~(dati'.renaming /\ dati'.confirming),
         dati'.confirming => ~dati.busy \/ dati.confirming,
         dati'.renaming \/ dati'.confirming =>
           \/ astray'.asked = dati.selected
           \/ (dati.renaming \/ dati.confirming) /\ astray' = astray
  PROVE  DataInv'
  <1>1. \A m \in {} : FreshRead(m) /\ CallTyped(m)
    OBVIOUS
  <1>2. calls' = (calls \ {}) \cup {}
    OBVIOUS
  <1>3. /\ \A c \in calls' : CallTyped(c)'
        /\ CallsGrouped /\ AppliedOnDisk /\ ReadsRight
             => CallsGrouped' /\ AppliedOnDisk' /\ ReadsRight'
        /\ Sent(Changing)' = Sent(Changing)
        /\ \A kind \in Changing : Sent({kind})' = Sent({kind}) /\ AgreedTo(kind)' = AgreedTo(kind)
        /\ UploadNames' = UploadNames /\ Settled' = Settled
    BY <1>1, <1>2, ReadingOnly DEF DataInv
  <1>4. DataTyped'
    BY <1>3 DEF DataInv, DataTyped
  <1>5. Sent({"rename"}) \subseteq Sent(Changing)
    BY DEF Sent, Changing
  <1>6. ChangesRight'
    BY <1>3, <1>5 DEF DataInv, ChangesRight, PageGrouped, Changing
  <1>7. SelectionRight => SelectionRight'
    BY DEF SelectionRight, Sent
  <1>8. PageRight'
    BY <1>3 DEF DataInv, PageRight, Straight, ListRight, PreviewRight, PreviewAsked,
                PreviewMoves, Sent, AgreedTo, Names, Changing
  <1> QED  BY <1>4, <1>6, <1>7, <1>8 DEF DataInv
LEMMA OpenFormKeeps ==
  ASSUME DataInv, NEW form \in {"renaming", "confirming"}, OpenForm(form)
  PROVE  DataInv'
  <1>1. /\ SpendData({"forms"}) /\ calls' = calls /\ dataDir' = dataDir
        /\ form = "confirming" => ~dati.busy
        /\ dati' = [dati EXCEPT !.renaming = (form = "renaming"), !.confirming = (form = "confirming")]
        /\ astray' = [astray EXCEPT !.asked = dati.selected]
    BY DEF OpenForm
  <1>2. SpentTyped' /\ dataSpent'.changes = dataSpent.changes
    BY <1>1, Spending DEF DataInv, DataTyped, SpentTyped
  <1>3. /\ PageTyped' /\ dati'.listed = dati.listed /\ dati'.selected = dati.selected
        /\ dati'.preview = dati.preview /\ dati'.busy = dati.busy /\ dati'.left = dati.left
        /\ dati'.renaming = (form = "renaming") /\ dati'.confirming = (form = "confirming")
    BY <1>1 DEF DataInv, DataTyped, PageTyped
  <1>4. /\ AstrayTyped' /\ astray'.crossed = astray.crossed /\ astray'.late = astray.late
        /\ astray'.failed = astray.failed /\ astray'.asked = dati.selected
    BY <1>1 DEF DataInv, DataTyped, PageTyped, AstrayTyped
  <1> QED  BY <1>1, <1>2, <1>3, <1>4, FormKeeps
LEMMA CloseFormKeeps ==
  ASSUME DataInv, CloseForm
  PROVE  DataInv'
  <1>1. /\ calls' = calls /\ dataDir' = dataDir /\ dataSpent' = dataSpent /\ astray' = astray
        /\ dati' = [dati EXCEPT !.renaming = FALSE, !.confirming = FALSE]
    BY DEF CloseForm
  <1>2. /\ PageTyped' /\ dati'.listed = dati.listed /\ dati'.selected = dati.selected
        /\ dati'.preview = dati.preview /\ dati'.busy = dati.busy /\ dati'.left = dati.left
        /\ ~dati'.renaming /\ ~dati'.confirming
    BY <1>1 DEF DataInv, DataTyped, PageTyped
  <1>3. SpentTyped' /\ AstrayTyped' /\ dataSpent'.changes = dataSpent.changes
    BY <1>1 DEF DataInv, DataTyped, SpentTyped, AstrayTyped
  <1> QED  BY <1>1, <1>2, <1>3, FormKeeps

\* An answer is late when a change made after it was answered before it.
LEMMA ReadPreviewKeeps ==
  ASSUME DataInv, NEW c \in calls, ReadPreview(c)
  PROVE  DataInv'
  <1>1. /\ c.kind = "get" /\ Answer(c).status = "ok"
        /\ dati' = Previewed(dati, c) /\ calls' = (calls \ {c}) \cup {} /\ SpendData({})
        /\ dataDir' = dataDir /\ astray' = [astray EXCEPT !.late = astray.late \/ Late(c)]
    BY DEF ReadPreview, Leaves
  <1>2. CallTyped(c) /\ c.kind \notin Changing /\ c.name \in FileNames
    BY <1>1 DEF DataInv, DataTyped, CallTyped, Changing
  <1>3. SpentTyped' /\ dataSpent'.changes = dataSpent.changes
    BY <1>1, Spending DEF DataInv, DataTyped, SpentTyped
  <1>4. Answer(c) \in Detail /\ Answer(c).file \in StoredFile /\ Answer(c).file # NoPreview
    <2>1. Answer(c) \in Detail \cup {Refusal}
      BY <1>1, <1>2, ReadBrings DEF DataInv, DataTyped
    <2> QED  BY <1>1, <2>1, AnswersDiffer
  <1>5. /\ PageTyped' /\ dati'.listed = dati.listed /\ dati'.selected = dati.selected
        /\ dati'.busy = dati.busy /\ dati'.left = dati.left
        /\ dati'.renaming = dati.renaming /\ dati'.confirming = dati.confirming
        /\ dati'.preview = IF dati.selected = c.name THEN Answer(c).file ELSE dati.preview
    BY <1>1, <1>4 DEF DataInv, DataTyped, PageTyped, Previewed
  <1>6. /\ AstrayTyped' /\ astray'.crossed = astray.crossed /\ astray'.late = (astray.late \/ Late(c))
        /\ astray'.failed = astray.failed /\ astray'.asked = astray.asked
    <2>1. Late(c) \in BOOLEAN
      BY DEF Late
    <2> QED  BY <1>1, <2>1 DEF DataInv, DataTyped, AstrayTyped
  <1>7. /\ \A d \in calls' : CallTyped(d)'
        /\ CallsGrouped /\ AppliedOnDisk /\ ReadsRight
             => CallsGrouped' /\ AppliedOnDisk' /\ ReadsRight'
        /\ Sent(Changing)' = Sent(Changing)
        /\ \A kind \in Changing : Sent({kind})' = Sent({kind}) /\ AgreedTo(kind)' = AgreedTo(kind)
        /\ UploadNames' = UploadNames /\ Settled' = Settled
        /\ \A d \in calls \ {c} : d \in calls'
    <2>1. PICK made : made = {}
      OBVIOUS
    <2>2. PICK gone \in SUBSET calls : gone = {c}
      OBVIOUS
    <2>3. /\ \A x, y \in gone : x = y
          /\ \A x \in gone : x.kind \notin Changing
          /\ calls' = (calls \ gone) \cup made /\ dataDir' = dataDir
          /\ \A m \in made : FreshRead(m) /\ CallTyped(m)
      BY <1>1, <1>2, <2>1, <2>2
    <2>4. DataTyped
      BY DEF DataInv
    <2>5. /\ \A d \in calls' : CallTyped(d)'
          /\ CallsGrouped /\ AppliedOnDisk /\ ReadsRight
               => CallsGrouped' /\ AppliedOnDisk' /\ ReadsRight'
          /\ Sent(Changing)' = Sent(Changing)
          /\ \A kind \in Changing : Sent({kind})' = Sent({kind}) /\ AgreedTo(kind)' = AgreedTo(kind)
          /\ UploadNames' = UploadNames /\ Settled' = Settled
          /\ \A d \in calls \ gone : d \in calls'
      BY <1>3, <2>3, <2>4, ReadingOnly
    <2> QED  BY <2>2, <2>5
  <1>8. DataTyped'
    BY <1>1, <1>3, <1>5, <1>6, <1>7 DEF DataInv, DataTyped
  <1>9. Sent({"list"})' = Sent({"list"})
    BY <1>1 DEF Sent
  <1>10. ChangesRight'
    <2>1. Sent({"rename"}) \subseteq Sent(Changing)
      BY DEF Sent, Changing
    <2> QED  BY <1>5, <1>6, <1>7, <2>1 DEF DataInv, ChangesRight, PageGrouped, Changing
  <1>11. SelectionRight => SelectionRight'
    BY <1>5, <1>9 DEF SelectionRight
  <1>12. ASSUME Straight, ~astray.failed, ~Late(c)
         PROVE  ListRight' /\ PreviewRight' /\ PreviewAsked' /\ PreviewMoves'
    <2>1. /\ CallsGrouped /\ AppliedOnDisk /\ ReadsRight
          /\ ListRight /\ PreviewRight /\ PreviewAsked /\ PreviewMoves
      BY <1>12 DEF DataInv, ChangesRight, PageRight, Straight
    <2>2. ListRight'
      BY <1>1, <1>5, <1>7, <1>9, <2>1 DEF ListRight, Names, Changing
    <2>3. CASE dati.selected # c.name
      <3>1. PreviewRight' /\ PreviewMoves'
        BY <1>1, <1>5, <1>7, <2>1, <2>3 DEF PreviewRight, PreviewMoves, Names, Changing
      <3>2. PreviewAsked'
        BY <1>1, <1>5, <1>7, <2>1, <2>3 DEF PreviewAsked, Names
      <3> QED  BY <2>2, <3>1, <3>2
    <2>4. CASE dati.selected = c.name
      <3>1. PreviewAsked'
        BY <1>4, <1>5, <2>4 DEF PreviewAsked
      <3>2. \/ c.name \in Names /\ Answer(c).file = dataDir[c.name]
            \/ \E d \in calls :
                 /\ Since(c, d)
                 /\ d.kind = "delete" => d.name = c.name
                 /\ d.kind = "rename" => d.name = c.name /\ Answer(c).file = dataDir[d.to]
        <4>1. CASE c.answer = Pending
          <5>1. Answer(c) = AnswerTo(c)
            BY <1>2, <4>1, ReadBrings DEF DataInv, DataTyped
          <5> QED  BY <1>1, <1>2, <1>4, <5>1, AnswerFacts, AnswersDiffer DEF DataInv, DataTyped
        <4>2. CASE c.answer # Pending
          <5>1. Answer(c) = c.answer
            BY <1>2, <4>2, ReadBrings DEF DataInv, DataTyped
          <5> QED  BY <1>1, <1>4, <1>12, <2>1, <5>1 DEF ReadsRight
        <4> QED  BY <4>1, <4>2
      <3>3. ASSUME NEW d \in calls, Since(c, d)
            PROVE  \/ d \in Sent({"upload"})
                   \/ d \in AgreedTo("rename") \/ d \in AgreedTo("delete")
        BY <3>3 DEF Since, Sent, AgreedTo, Changing
      <3>4. PreviewRight'
        <4>1. ASSUME Settled, c.name \in Names PROVE Answer(c).file = dataDir[c.name]
          BY <2>1, <3>2, <3>3, <4>1 DEF Settled, AppliedOnDisk, AgreedTo, Sent
        <4> QED  BY <1>1, <1>5, <1>7, <2>4, <4>1 DEF PreviewRight, Names
      <3>5. PreviewMoves'
        <4>1. ASSUME NEW r \in AgreedTo("rename"), r.name = c.name
              PROVE  Answer(c).file = dataDir[r.to]
          <5>1. r.to \in Names /\ (r.name \in Names => r.name = r.to)
            BY <2>1, <4>1 DEF AppliedOnDisk
          <5>2. ASSUME NEW d \in calls, Since(c, d) PROVE d = r
            <6>1. d \in Sent(Changing) /\ r \in Sent({"rename", "delete"})
              BY <4>1, <5>2 DEF Since, Sent, AgreedTo
            <6> QED  BY <2>1, <6>1 DEF CallsGrouped
          <5>3. r.kind = "rename"
            BY DEF AgreedTo, Sent
          <5> QED  BY <3>2, <4>1, <5>1, <5>2, <5>3
        <4> QED  BY <1>1, <1>5, <1>7, <2>4, <4>1 DEF PreviewMoves, Changing
      <3> QED  BY <2>2, <3>1, <3>4, <3>5
    <2> QED  BY <2>3, <2>4
  <1>13. PageRight'
    BY <1>6, <1>12 DEF PageRight, Straight
  <1> QED  BY <1>5, <1>6, <1>8, <1>10, <1>11, <1>13 DEF DataInv

LEMMA ReadListKeeps ==
  ASSUME DataInv, NEW c \in calls, ReadList(c)
  PROVE  DataInv'
  <1>1. PICK first, q :
          /\ first \in Selectable
          /\ c.kind = "list" /\ Answer(c).status = "ok" /\ FirstOf(Answer(c).items, first)
          /\ q = ListAnswered(dati, c, Answer(c).items, first)
          /\ dati' = q /\ calls' = (calls \ {c}) \cup (Previews(dati, q) \cup Reloads(c, q))
          /\ SpendData({}) /\ dataDir' = dataDir
          /\ astray' = [astray EXCEPT !.late = astray.late \/ Late(c)]
    BY DEF ReadList, Leaves
  <1>2. CallTyped(c) /\ c.kind \notin Changing
    BY <1>1 DEF DataInv, DataTyped, CallTyped, Changing
  <1>3. SpentTyped' /\ dataSpent'.changes = dataSpent.changes
    BY <1>1, Spending DEF DataInv, DataTyped, SpentTyped
  <1>4. PICK items \in SUBSET FileNames : items = Answer(c).items
    BY <1>1, <1>2, ReadBrings, AnswersDiffer DEF DataInv, DataTyped
  <1>5. first \in items \/ (items = {} /\ first = NoName)
    BY <1>1, <1>4 DEF FirstOf
  <1>6. /\ PageTyped' /\ dati'.listed = items
        /\ dati'.busy = dati.busy /\ dati'.left = dati.left
        /\ dati'.selected \in items \/ (items = {} /\ dati'.selected = NoName)
        /\ IF dati'.selected = dati.selected
           THEN /\ dati'.preview = dati.preview /\ dati'.renaming = dati.renaming
                /\ dati'.confirming = dati.confirming
           ELSE dati'.preview = NoPreview /\ ~dati'.renaming /\ ~dati'.confirming
        /\ dati'.selected \in Selectable
    <2>1. PICK p : p = [dati EXCEPT !.listed = items]
      OBVIOUS
    <2>2. /\ p \in [listed : SUBSET FileNames, selected : Selectable, preview : StoredFile \cup {NoPreview},
                   renaming : BOOLEAN, confirming : BOOLEAN, busy : BOOLEAN, left : Int, last : Selectable]
          /\ p.listed = items /\ p.selected = dati.selected /\ p.preview = dati.preview
          /\ p.busy = dati.busy /\ p.left = dati.left
          /\ p.renaming = dati.renaming /\ p.confirming = dati.confirming
      BY <2>1 DEF DataInv, DataTyped, PageTyped
    <2>3. q = IF ~c.keep \/ p.selected \notin items THEN Selecting(p, first) ELSE p
      BY <1>1, <1>4, <2>1 DEF ListAnswered
    <2>4. CASE ~c.keep \/ p.selected \notin items
      BY <1>1, <1>5, <2>2, <2>3, <2>4, SelectingMade DEF PageTyped
    <2>5. CASE ~(~c.keep \/ p.selected \notin items)
      BY <1>1, <2>2, <2>3, <2>5 DEF PageTyped
    <2> QED  BY <2>4, <2>5
  <1>7. /\ AstrayTyped' /\ astray'.crossed = astray.crossed /\ astray'.late = (astray.late \/ Late(c))
        /\ astray'.failed = astray.failed /\ astray'.asked = astray.asked
    <2>1. Late(c) \in BOOLEAN
      BY DEF Late
    <2> QED  BY <1>1, <2>1 DEF DataInv, DataTyped, AstrayTyped
  <1>8. PICK made : made = Previews(dati, q) \cup Reloads(c, q)
    OBVIOUS
  <1>9. \A m \in made : FreshRead(m) /\ CallTyped(m) /\ m.kind = "get" /\ m.name = dati'.selected
    BY <1>1, <1>6, <1>8, PreviewsMade, ReloadsMade
  <1>10. /\ dati'.selected \notin {dati.selected, NoName} => made # {}
         /\ c.keep /\ dati'.selected # NoName /\ dati'.preview = NoPreview => made # {}
    BY <1>1, <1>6, <1>8, PreviewsMade, ReloadsMade
  <1>11. /\ \A d \in calls' : CallTyped(d)'
         /\ CallsGrouped /\ AppliedOnDisk /\ ReadsRight
              => CallsGrouped' /\ AppliedOnDisk' /\ ReadsRight'
         /\ Sent(Changing)' = Sent(Changing)
         /\ \A kind \in Changing : Sent({kind})' = Sent({kind}) /\ AgreedTo(kind)' = AgreedTo(kind)
         /\ UploadNames' = UploadNames /\ Settled' = Settled
         /\ \A d \in calls \ {c} : d \in calls'
         /\ \A m \in made : m \in calls'
    <2>1. PICK gone \in SUBSET calls : gone = {c}
      OBVIOUS
    <2>2. /\ \A x, y \in gone : x = y
          /\ \A x \in gone : x.kind \notin Changing
          /\ calls' = (calls \ gone) \cup made /\ dataDir' = dataDir
      BY <1>1, <1>2, <1>8, <2>1
    <2>3. DataTyped /\ \A m \in made : FreshRead(m) /\ CallTyped(m)
      BY <1>9 DEF DataInv
    <2>4. /\ \A d \in calls' : CallTyped(d)'
          /\ CallsGrouped /\ AppliedOnDisk /\ ReadsRight
               => CallsGrouped' /\ AppliedOnDisk' /\ ReadsRight'
          /\ Sent(Changing)' = Sent(Changing)
          /\ \A kind \in Changing : Sent({kind})' = Sent({kind}) /\ AgreedTo(kind)' = AgreedTo(kind)
          /\ UploadNames' = UploadNames /\ Settled' = Settled
          /\ \A d \in calls \ gone : d \in calls'
          /\ \A m \in made : m \in calls'
      BY <1>3, <2>2, <2>3, ReadingOnly
    <2> QED  BY <2>1, <2>4
  <1>12. DataTyped'
    BY <1>1, <1>3, <1>6, <1>7, <1>11 DEF DataInv, DataTyped
  <1>13. ChangesRight'
    <2>1. Sent({"rename"}) \subseteq Sent(Changing)
      BY DEF Sent, Changing
    <2> QED  BY <1>6, <1>7, <1>11, <2>1 DEF DataInv, ChangesRight, PageGrouped, Changing
  <1>14. SelectionRight'
    BY <1>6 DEF SelectionRight
  <1>15. ASSUME Straight, ~astray.failed, ~Late(c)
         PROVE  ListRight' /\ PreviewRight' /\ PreviewAsked' /\ PreviewMoves'
    <2>1. /\ CallsGrouped /\ AppliedOnDisk /\ ReadsRight
          /\ ListRight /\ PreviewRight /\ PreviewAsked /\ PreviewMoves
      BY <1>15 DEF DataInv, ChangesRight, PageRight, Straight
    <2>2. ListRight'
      <3>1. items = Names \/ \E d \in calls : Since(c, d)
        <4>1. CASE c.answer = Pending
          BY <1>1, <1>2, <1>4, <4>1, ReadBrings, AnswerFacts DEF DataInv, DataTyped
        <4>2. CASE c.answer # Pending
          BY <1>1, <1>2, <1>4, <1>15, <2>1, <4>2, ReadBrings DEF DataInv, DataTyped, ReadsRight
        <4> QED  BY <4>1, <4>2
      <3>2. ASSUME NEW d \in calls, Since(c, d)
            PROVE  d \in Sent({"upload"}) \/ d \in AgreedTo("rename") \/ d \in AgreedTo("delete")
        BY <3>2 DEF Since, Sent, AgreedTo, Changing
      <3> QED  BY <1>1, <1>6, <1>11, <3>1, <3>2 DEF ListRight, Names, Changing
    <2>3. CASE dati'.selected # dati.selected
      <3>1. dati'.selected \in Names => made # {}
        BY <1>10, <2>3, FolderFacts DEF DataInv, DataTyped
      <3>2. PreviewAsked'
        BY <1>1, <1>9, <1>11, <3>1, AnswersDiffer DEF PreviewAsked, FreshRead, Names
      <3> QED  BY <1>6, <2>2, <2>3, <3>2 DEF PreviewRight, PreviewMoves
    <2>4. CASE dati'.selected = dati.selected
      <3>1. PreviewRight' /\ PreviewMoves'
        BY <1>1, <1>6, <1>11, <2>1, <2>4 DEF PreviewRight, PreviewMoves, Names, Changing
      <3>2. ASSUME Settled', dati'.preview = NoPreview, dati'.selected \in Names
            PROVE  \E d \in calls' : \/ d.kind = "list" /\ d.keep
                                     \/ d.kind = "get" /\ d.name = dati'.selected /\ d.answer # Refusal
        <4>1. CASE c.keep
          <5>1. made # {}
            BY <1>10, <3>2, <4>1, FolderFacts DEF DataInv, DataTyped
          <5> QED  BY <1>9, <1>11, <5>1, AnswersDiffer DEF FreshRead
        <4>2. CASE ~c.keep
          BY <1>1, <1>6, <1>11, <2>1, <2>4, <3>2, <4>2 DEF PreviewAsked
        <4> QED  BY <4>1, <4>2
      <3> QED  BY <1>1, <2>2, <3>1, <3>2 DEF PreviewAsked, Names
    <2> QED  BY <2>3, <2>4
  <1>16. PageRight'
    BY <1>7, <1>15 DEF PageRight, Straight
  <1> QED  BY <1>6, <1>7, <1>12, <1>13, <1>14, <1>16 DEF DataInv

\* A change that is sent: it is the only one in flight, unless changes cross.
LEMMA Sending ==
  ASSUME DataInv, NEW made,
         \A m \in made : /\ m.kind \in Changing /\ m.answer = Pending /\ CallTyped(m)'
                         /\ m.n = dataSpent.changes + 1,
         calls' = calls \cup made, dataDir' = dataDir,
         SpentTyped', dataSpent'.changes = dataSpent.changes + 1,
         PageTyped', dati'.listed = dati.listed, dati'.selected = dati.selected,
         dati'.preview = dati.preview, dati'.renaming = dati.renaming,
         dati'.confirming = dati.confirming, dati'.busy = TRUE,
         AstrayTyped', astray'.late = astray.late, astray'.failed = astray.failed,
         astray'.asked = astray.asked, astray.crossed => astray'.crossed,
         ~astray'.crossed =>
           /\ ~dati.busy
           /\ \A x, y \in made : x.kind = "upload" /\ x.name = y.name => x = y
           /\ \A x, y \in made : x.kind \in {"rename", "delete"} => x = y /\ x.name = x.asked
           /\ \A x \in made : x.kind = "rename" => ~dati.confirming
           /\ dati'.left = IF \E x \in made : x.kind = "upload"
                           THEN Cardinality({x.name : x \in made}) ELSE dati.left
  PROVE  DataInv'
  <1>1. DataTyped'
    <2>1. \A c \in calls : CallTyped(c)'
      <3>1. dataSpent'.changes >= dataSpent.changes
        BY DEF DataInv, DataTyped, SpentTyped
      <3> QED  BY <3>1, CallStaysTyped DEF DataInv, DataTyped
    <2> QED  BY <2>1 DEF DataInv, DataTyped
  <1>2. \A kind : AgreedTo(kind)' = AgreedTo(kind)
    BY AnswersDiffer DEF AgreedTo, Sent
  <1>3. ReadsRight => ReadsRight'
    <2>1. ASSUME NEW c \in calls, Late(c) PROVE Late(c)'
      <3>1. \A k \in c.old : k \in 1..dataSpent.changes
        BY DEF DataInv, DataTyped, CallTyped
      <3>2. dataSpent.changes \in Nat
        BY DEF DataInv, DataTyped, SpentTyped
      <3> QED  BY <2>1, <3>1, <3>2 DEF Late
    <2>2. ASSUME NEW c \in calls, NEW d \in calls, Since(c, d) PROVE d \in calls' /\ Since(c, d)'
      BY <2>2 DEF Since
    <2>3. \A c \in calls' : c.kind \notin Changing => c \in calls
      OBVIOUS
    <2>4. "list" \notin Changing /\ "get" \notin Changing
      BY DEF Changing
    <2> QED  BY <2>1, <2>2, <2>3, <2>4 DEF ReadsRight, Names
  <1>4. ASSUME ~astray'.crossed
        PROVE  CallsGrouped' /\ PageGrouped' /\ AppliedOnDisk' /\ ReadsRight'
    <2>1. CallsGrouped /\ PageGrouped /\ AppliedOnDisk /\ ReadsRight /\ ~dati.busy
      BY <1>4 DEF DataInv, ChangesRight, AstrayTyped, DataTyped
    <2>2. Sent(Changing) = {}
      BY <2>1 DEF PageGrouped
    <2>3. \A c \in calls' : c.kind \in Changing => c \in made
      BY <2>2 DEF Sent
    <2>4. /\ Sent(Changing)' \subseteq made /\ Sent({"rename", "delete"})' \subseteq made
          /\ Sent({"upload"})' \subseteq made /\ Sent({"rename"})' \subseteq made
      BY <2>3 DEF Sent, Changing
    <2>5. CallsGrouped'
      BY <1>4, <2>4 DEF CallsGrouped, Sent
    <2>6. AppliedOnDisk'
      BY <1>2, <2>1 DEF AppliedOnDisk, Names
    <2>7. dati'.left = Cardinality(UploadNames)'
      <3>1. CASE \E x \in made : x.kind = "upload"
        <4>1. \A x \in made : x.kind = "upload"
          BY <1>4, <3>1 DEF Changing
        <4>2. Sent({"upload"})' = made
          BY <2>4, <4>1 DEF Sent
        <4> QED  BY <1>4, <3>1, <4>2 DEF UploadNames
      <3>2. CASE ~\E x \in made : x.kind = "upload"
        <4>1. Sent({"upload"})' = {} /\ Sent({"upload"}) = {}
          BY <2>2, <2>4, <3>2 DEF Sent, Changing
        <4> QED  BY <1>4, <2>1, <3>2, <4>1 DEF UploadNames, PageGrouped
      <3> QED  BY <3>1, <3>2
    <2>8. PageGrouped'
      <3>1. Sent({"rename"})' # {} => ~dati'.confirming
        BY <1>4, <2>4 DEF Sent
      <3> QED  BY <2>1, <2>7, <3>1 DEF PageGrouped
    <2> QED  BY <1>3, <2>1, <2>5, <2>6, <2>8
  <1>5. SelectionRight => SelectionRight'
    BY DEF SelectionRight, Sent
  <1>6. ASSUME Straight', ~astray'.failed PROVE ListRight' /\ PreviewRight' /\ PreviewAsked' /\ PreviewMoves'
    <2>1. ListRight /\ PreviewRight /\ PreviewAsked /\ PreviewMoves
      BY <1>6 DEF DataInv, PageRight, Straight, AstrayTyped, DataTyped
    <2>2. Settled' => Settled
      BY <1>2 DEF Settled, Sent
    <2>3. ListRight'
      BY <1>2, <2>1 DEF ListRight, Sent, Names
    <2>4. PreviewRight' /\ PreviewAsked'
      BY <2>1, <2>2 DEF PreviewRight, PreviewAsked, Names
    <2>5. PreviewMoves'
      BY <1>2, <2>1 DEF PreviewMoves
    <2> QED  BY <2>3, <2>4, <2>5
  <1> QED  BY <1>1, <1>4, <1>5, <1>6 DEF DataInv, ChangesRight, PageRight
LEMMA CallNumbered ==
  ASSUME NEW kind, NEW name, NEW to, NEW asked, NEW n, NEW c, NEW d,
         c = [n |-> 0, kind |-> kind, name |-> name, to |-> to,
              keep |-> TRUE, asked |-> asked, old |-> {}, answer |-> Pending],
         d = [c EXCEPT !.n = n]
  PROVE  d = [n |-> n, kind |-> kind, name |-> name, to |-> to,
              keep |-> TRUE, asked |-> asked, old |-> {}, answer |-> Pending]
  OBVIOUS
LEMMA CallAsked ==
  ASSUME NEW kind, NEW name, NEW to, NEW asked, NEW c
  PROVE  /\ c = [Call(kind, name) EXCEPT !.to = to, !.asked = asked] =>
              c = [n |-> 0, kind |-> kind, name |-> name, to |-> to,
                   keep |-> TRUE, asked |-> asked, old |-> {}, answer |-> Pending]
         /\ c = [Call(kind, name) EXCEPT !.asked = asked] =>
              c = [n |-> 0, kind |-> kind, name |-> name, to |-> NoName,
                   keep |-> TRUE, asked |-> asked, old |-> {}, answer |-> Pending]
  <1>1. PICK b : b = Call(kind, name)
    OBVIOUS
  <1>2. b = [n |-> 0, kind |-> kind, name |-> name, to |-> NoName,
             keep |-> TRUE, asked |-> name, old |-> {}, answer |-> Pending]
    BY <1>1 DEF Call
  <1>3. c = [b EXCEPT !.to = to, !.asked = asked] =>
          c = [n |-> 0, kind |-> kind, name |-> name, to |-> to,
               keep |-> TRUE, asked |-> asked, old |-> {}, answer |-> Pending]
    BY <1>2
  <1>4. c = [b EXCEPT !.asked = asked] =>
          c = [n |-> 0, kind |-> kind, name |-> name, to |-> NoName,
               keep |-> TRUE, asked |-> asked, old |-> {}, answer |-> Pending]
    BY <1>2
  <1> QED  BY <1>1, <1>3, <1>4
LEMMA ConfirmRenameKeeps ==
  ASSUME DataInv, NEW to \in FileNames, ConfirmRename(to)
  PROVE  DataInv'
  <1>1. PICK c :
          /\ Shown /\ dati.renaming /\ ~dati.busy /\ astray' = astray
          /\ c = [Call("rename", dati.selected) EXCEPT !.to = to, !.asked = astray.asked]
          /\ SendChange({c}, dati)
    BY DEF ConfirmRename
  <1>2. PICK made :
          /\ made = {[x EXCEPT !.n = dataSpent.changes + 1] : x \in {c}}
          /\ calls' = calls \cup made
          /\ dati' = [dati EXCEPT !.busy = TRUE] /\ SpendData({"changes"}) /\ dataDir' = dataDir
    BY <1>1 DEF SendChange
  <1>3. /\ SpentTyped' /\ dataSpent'.changes = dataSpent.changes + 1 /\ dataSpent.changes \in Nat
    BY <1>2, Spending DEF DataInv, DataTyped, SpentTyped
  <1>4. dati.selected \in FileNames /\ dati.selected \in Selectable /\ to \in Selectable
        /\ astray.asked \in Selectable
    BY <1>1 DEF Shown, DataInv, DataTyped, PageTyped, AstrayTyped, Selectable
  <1>5. made = {[n |-> dataSpent.changes + 1, kind |-> "rename", name |-> dati.selected, to |-> to,
                 keep |-> TRUE, asked |-> astray.asked, old |-> {}, answer |-> Pending]}
    <2>1. PICK m : m = [c EXCEPT !.n = dataSpent.changes + 1]
      OBVIOUS
    <2>2. c = [n |-> 0, kind |-> "rename", name |-> dati.selected, to |-> to,
               keep |-> TRUE, asked |-> astray.asked, old |-> {}, answer |-> Pending]
      BY <1>1, CallAsked
    <2>3. m = [n |-> dataSpent.changes + 1, kind |-> "rename", name |-> dati.selected, to |-> to,
               keep |-> TRUE, asked |-> astray.asked, old |-> {}, answer |-> Pending]
      BY <2>1, <2>2, CallNumbered
    <2>4. made = {m}
      BY <1>2, <2>1
    <2> QED  BY <2>3, <2>4
  <1>6. /\ \A x \in made : /\ x.kind = "rename" /\ x.kind \in Changing /\ x.answer = Pending
                           /\ x.n = dataSpent.changes + 1 /\ x.name = dati.selected
                           /\ x.asked = astray.asked
        /\ \A x, y \in made : x = y
    BY <1>5 DEF Changing
  <1>7. \A x \in made : CallTyped(x)'
    <2>1. dataSpent.changes + 1 \in Nat /\ dataSpent.changes + 1 \in 1..dataSpent'.changes
      BY <1>3
    <2>2. ASSUME NEW x \in made PROVE CallTyped(x)'
      <3>1. x = [n |-> dataSpent.changes + 1, kind |-> "rename", name |-> dati.selected, to |-> to,
                 keep |-> TRUE, asked |-> astray.asked, old |-> {}, answer |-> Pending]
        BY <1>5
      <3> QED  BY <1>4, <2>1, <3>1, AnswersDiffer DEF CallTyped, Changing
    <2> QED  BY <2>2
  <1>8. /\ PageTyped' /\ dati'.listed = dati.listed /\ dati'.selected = dati.selected
        /\ dati'.preview = dati.preview /\ dati'.renaming = dati.renaming
        /\ dati'.confirming = dati.confirming /\ dati'.busy = TRUE /\ dati'.left = dati.left
    BY <1>2 DEF DataInv, DataTyped, PageTyped
  <1>9. AstrayTyped' /\ astray'.crossed = astray.crossed /\ astray'.late = astray.late
        /\ astray'.failed = astray.failed /\ astray'.asked = astray.asked
    BY <1>1 DEF DataInv, DataTyped, AstrayTyped
  <1>10. ~astray.crossed => astray.asked = dati.selected
    BY <1>1 DEF DataInv, ChangesRight, PageGrouped
  <1>11. ~dati.confirming
    BY <1>1 DEF DataInv
  <1>12. ~astray'.crossed =>
         /\ ~dati.busy
         /\ \A x, y \in made : x.kind = "upload" /\ x.name = y.name => x = y
         /\ \A x, y \in made : x.kind \in {"rename", "delete"} => x = y /\ x.name = x.asked
         /\ \A x \in made : x.kind = "rename" => ~dati.confirming
         /\ dati'.left = IF \E x \in made : x.kind = "upload"
                         THEN Cardinality({x.name : x \in made}) ELSE dati.left
    BY <1>1, <1>6, <1>8, <1>9, <1>10, <1>11
  <1>13. \A m \in made : /\ m.kind \in Changing /\ m.answer = Pending /\ CallTyped(m)'
                         /\ m.n = dataSpent.changes + 1
    BY <1>6, <1>7
  <1>14. astray.crossed => astray'.crossed
    BY <1>9
  <1>15. calls' = calls \cup made /\ dataDir' = dataDir
    BY <1>2
  <1> QED  BY <1>3, <1>8, <1>9, <1>12, <1>13, <1>14, <1>15, Sending
LEMMA ConfirmDeleteKeeps ==
  ASSUME DataInv, ConfirmDelete
  PROVE  DataInv'
  <1>1. PICK c :
          /\ Shown /\ dati.confirming /\ ~dati.busy /\ astray' = astray
          /\ c = [Call("delete", dati.selected) EXCEPT !.asked = astray.asked]
          /\ SendChange({c}, dati)
    BY DEF ConfirmDelete
  <1>2. PICK made :
          /\ made = {[x EXCEPT !.n = dataSpent.changes + 1] : x \in {c}}
          /\ calls' = calls \cup made
          /\ dati' = [dati EXCEPT !.busy = TRUE] /\ SpendData({"changes"}) /\ dataDir' = dataDir
    BY <1>1 DEF SendChange
  <1>3. /\ SpentTyped' /\ dataSpent'.changes = dataSpent.changes + 1 /\ dataSpent.changes \in Nat
    BY <1>2, Spending DEF DataInv, DataTyped, SpentTyped
  <1>4. dati.selected \in FileNames /\ dati.selected \in Selectable /\ NoName \in Selectable
        /\ astray.asked \in Selectable
    BY <1>1 DEF Shown, DataInv, DataTyped, PageTyped, AstrayTyped, Selectable
  <1>5. made = {[n |-> dataSpent.changes + 1, kind |-> "delete", name |-> dati.selected, to |-> NoName,
                 keep |-> TRUE, asked |-> astray.asked, old |-> {}, answer |-> Pending]}
    <2>1. PICK m : m = [c EXCEPT !.n = dataSpent.changes + 1]
      OBVIOUS
    <2>2. c = [n |-> 0, kind |-> "delete", name |-> dati.selected, to |-> NoName,
               keep |-> TRUE, asked |-> astray.asked, old |-> {}, answer |-> Pending]
      BY <1>1, CallAsked
    <2>3. m = [n |-> dataSpent.changes + 1, kind |-> "delete", name |-> dati.selected, to |-> NoName,
               keep |-> TRUE, asked |-> astray.asked, old |-> {}, answer |-> Pending]
      BY <2>1, <2>2, CallNumbered
    <2>4. made = {m}
      BY <1>2, <2>1
    <2> QED  BY <2>3, <2>4
  <1>6. /\ \A x \in made : /\ x.kind = "delete" /\ x.kind \in Changing /\ x.answer = Pending
                           /\ x.n = dataSpent.changes + 1 /\ x.name = dati.selected
                           /\ x.asked = astray.asked
        /\ \A x, y \in made : x = y
    BY <1>5 DEF Changing
  <1>7. \A x \in made : CallTyped(x)'
    <2>1. dataSpent.changes + 1 \in Nat /\ dataSpent.changes + 1 \in 1..dataSpent'.changes
      BY <1>3
    <2>2. ASSUME NEW x \in made PROVE CallTyped(x)'
      <3>1. x = [n |-> dataSpent.changes + 1, kind |-> "delete", name |-> dati.selected, to |-> NoName,
                 keep |-> TRUE, asked |-> astray.asked, old |-> {}, answer |-> Pending]
        BY <1>5
      <3> QED  BY <1>4, <2>1, <3>1, AnswersDiffer DEF CallTyped, Changing
    <2> QED  BY <2>2
  <1>8. /\ PageTyped' /\ dati'.listed = dati.listed /\ dati'.selected = dati.selected
        /\ dati'.preview = dati.preview /\ dati'.renaming = dati.renaming
        /\ dati'.confirming = dati.confirming /\ dati'.busy = TRUE /\ dati'.left = dati.left
    BY <1>2 DEF DataInv, DataTyped, PageTyped
  <1>9. AstrayTyped' /\ astray'.crossed = astray.crossed /\ astray'.late = astray.late
        /\ astray'.failed = astray.failed /\ astray'.asked = astray.asked
    BY <1>1 DEF DataInv, DataTyped, AstrayTyped
  <1>10. ~astray.crossed => astray.asked = dati.selected
    BY <1>1 DEF DataInv, ChangesRight, PageGrouped
  <1>11. ~astray'.crossed =>
         /\ ~dati.busy
         /\ \A x, y \in made : x.kind = "upload" /\ x.name = y.name => x = y
         /\ \A x, y \in made : x.kind \in {"rename", "delete"} => x = y /\ x.name = x.asked
         /\ \A x \in made : x.kind = "rename" => ~dati.confirming
         /\ dati'.left = IF \E x \in made : x.kind = "upload"
                         THEN Cardinality({x.name : x \in made}) ELSE dati.left
    BY <1>1, <1>6, <1>8, <1>9, <1>10
  <1>12. \A m \in made : /\ m.kind \in Changing /\ m.answer = Pending /\ CallTyped(m)'
                         /\ m.n = dataSpent.changes + 1
    BY <1>6, <1>7
  <1>13. astray.crossed => astray'.crossed
    BY <1>9
  <1>14. calls' = calls \cup made /\ dataDir' = dataDir
    BY <1>2
  <1> QED  BY <1>3, <1>8, <1>9, <1>11, <1>12, <1>13, <1>14, Sending
LEMMA UploadAllKeeps ==
  ASSUME DataInv, NEW names \in SUBSET FileNames, names # {}, UploadAll(names)
  PROVE  DataInv'
  <1>1. PICK made :
          /\ made = {[c EXCEPT !.n = dataSpent.changes + 1] : c \in {Call("upload", f) : f \in names}}
          /\ calls' = calls \cup made
          /\ dati' = [[dati EXCEPT !.left = Cardinality(names), !.last = NoName] EXCEPT !.busy = TRUE]
          /\ SpendData({"changes"}) /\ dataDir' = dataDir
          /\ astray' = [astray EXCEPT !.crossed = astray.crossed \/ dati.busy]
    BY DEF UploadAll, SendChange
  <1>2. /\ SpentTyped' /\ dataSpent'.changes = dataSpent.changes + 1 /\ dataSpent.changes \in Nat
    BY <1>1, Spending DEF DataInv, DataTyped, SpentTyped
  <1>3. NoName \in Selectable /\ FileNames \subseteq Selectable
    BY DEF Selectable
  <1>4. /\ \A x \in made : \E f \in names :
             x = [n |-> dataSpent.changes + 1, kind |-> "upload", name |-> f, to |-> NoName,
                  keep |-> TRUE, asked |-> f, old |-> {}, answer |-> Pending]
        /\ \A f \in names : \E x \in made : x.name = f
    <2>1. ASSUME NEW f, NEW m, m = [Call("upload", f) EXCEPT !.n = dataSpent.changes + 1]
          PROVE  m = [n |-> dataSpent.changes + 1, kind |-> "upload", name |-> f, to |-> NoName,
                      keep |-> TRUE, asked |-> f, old |-> {}, answer |-> Pending]
      <3>1. PICK c : c = Call("upload", f)
        OBVIOUS
      <3>2. c = [n |-> 0, kind |-> "upload", name |-> f, to |-> NoName,
                 keep |-> TRUE, asked |-> f, old |-> {}, answer |-> Pending]
        BY <3>1 DEF Call
      <3>3. m = [c EXCEPT !.n = dataSpent.changes + 1]
        BY <2>1, <3>1
      <3> QED  BY <3>2, <3>3, CallNumbered
    <2>2. \A x \in made : \E f \in names : x = [Call("upload", f) EXCEPT !.n = dataSpent.changes + 1]
      BY <1>1
    <2>3. ASSUME NEW f \in names PROVE \E x \in made : x.name = f
      <3>1. PICK x : x = [Call("upload", f) EXCEPT !.n = dataSpent.changes + 1]
        OBVIOUS
      <3>2. x \in made
        BY <1>1, <3>1
      <3>3. x = [n |-> dataSpent.changes + 1, kind |-> "upload", name |-> f, to |-> NoName,
                 keep |-> TRUE, asked |-> f, old |-> {}, answer |-> Pending]
        BY <2>1, <3>1
      <3>4. x.name = f
        BY <3>3
      <3> QED  BY <3>2, <3>4
    <2> QED  BY <2>1, <2>2, <2>3
  <1>5. \A x \in made : /\ x.kind = "upload" /\ x.kind \in Changing /\ x.answer = Pending
                        /\ x.n = dataSpent.changes + 1
    BY <1>4 DEF Changing
  <1>6. \A x \in made : CallTyped(x)'
    <2>1. dataSpent.changes + 1 \in Nat /\ dataSpent.changes + 1 \in 1..dataSpent'.changes
      BY <1>2
    <2>2. ASSUME NEW x \in made PROVE CallTyped(x)'
      <3>1. PICK f \in names :
              x = [n |-> dataSpent.changes + 1, kind |-> "upload", name |-> f, to |-> NoName,
                   keep |-> TRUE, asked |-> f, old |-> {}, answer |-> Pending]
        BY <1>4
      <3>2. f \in FileNames /\ f \in Selectable
        BY <1>3
      <3> QED  BY <1>3, <2>1, <3>1, <3>2, AnswersDiffer DEF CallTyped, Changing
    <2> QED  BY <2>2
  <1>7. Cardinality(names) \in Nat
    BY DataAssumption, FS_Subset, FS_CardinalityType
  <1>8. /\ PageTyped' /\ dati'.listed = dati.listed /\ dati'.selected = dati.selected
        /\ dati'.preview = dati.preview /\ dati'.renaming = dati.renaming
        /\ dati'.confirming = dati.confirming /\ dati'.busy = TRUE /\ dati'.left = Cardinality(names)
    <2>1. PICK size \in Int : size = Cardinality(names)
      BY <1>7
    <2>2. PICK p : p = [dati EXCEPT !.left = size, !.last = NoName]
      OBVIOUS
    <2>3. NoName \in Selectable
      BY DEF Selectable
    <2>4. /\ p \in [listed : SUBSET FileNames, selected : Selectable, preview : StoredFile \cup {NoPreview},
                   renaming : BOOLEAN, confirming : BOOLEAN, busy : BOOLEAN, left : Int, last : Selectable]
          /\ p.listed = dati.listed /\ p.selected = dati.selected /\ p.left = size
          /\ p.preview = dati.preview /\ p.renaming = dati.renaming /\ p.confirming = dati.confirming
      BY <1>3, <2>2, <2>3 DEF DataInv, DataTyped, PageTyped
    <2>5. dati' = [p EXCEPT !.busy = TRUE]
      BY <1>1, <2>1, <2>2
    <2> QED  BY <2>1, <2>4, <2>5 DEF PageTyped
  <1>9. AstrayTyped' /\ astray'.crossed = (astray.crossed \/ dati.busy) /\ astray'.late = astray.late
        /\ astray'.failed = astray.failed /\ astray'.asked = astray.asked
    BY <1>1 DEF DataInv, DataTyped, AstrayTyped, PageTyped
  <1>10. ASSUME NEW x \in made, NEW y \in made, x.name = y.name PROVE x = y
    <2>1. PICK f \in names :
            x = [n |-> dataSpent.changes + 1, kind |-> "upload", name |-> f, to |-> NoName,
                 keep |-> TRUE, asked |-> f, old |-> {}, answer |-> Pending]
      BY <1>4
    <2>2. PICK g \in names :
            y = [n |-> dataSpent.changes + 1, kind |-> "upload", name |-> g, to |-> NoName,
                 keep |-> TRUE, asked |-> g, old |-> {}, answer |-> Pending]
      BY <1>4
    <2>3. f = g
      BY <1>10, <2>1, <2>2
    <2> QED  BY <2>1, <2>2, <2>3
  <1>11. {x.name : x \in made} = names /\ \E x \in made : x.kind = "upload"
    <2>1. \A x \in made : x.name \in names
      BY <1>4
    <2> QED  BY <1>4, <1>5, <2>1
  <1>12. ~astray'.crossed =>
         /\ ~dati.busy
         /\ \A x, y \in made : x.kind = "upload" /\ x.name = y.name => x = y
         /\ \A x, y \in made : x.kind \in {"rename", "delete"} => x = y /\ x.name = x.asked
         /\ \A x \in made : x.kind = "rename" => ~dati.confirming
         /\ dati'.left = IF \E x \in made : x.kind = "upload"
                         THEN Cardinality({x.name : x \in made}) ELSE dati.left
    BY <1>5, <1>8, <1>9, <1>10, <1>11
  <1>13. \A m \in made : /\ m.kind \in Changing /\ m.answer = Pending /\ CallTyped(m)'
                         /\ m.n = dataSpent.changes + 1
    BY <1>5, <1>6
  <1>14. astray.crossed => astray'.crossed
    BY <1>9
  <1>15. calls' = calls \cup made /\ dataDir' = dataDir
    BY <1>1
  <1> QED  BY <1>2, <1>8, <1>9, <1>12, <1>13, <1>14, <1>15, Sending

(* A change that the engine makes. *)

\* What a change leaves on disk.
LeftOnDisk(c, dir) ==
  /\ Refused(c) => dir = dataDir
  /\ c.kind = "delete" /\ ~Refused(c) =>
       /\ DOMAIN dir = Names \ {c.name}
       /\ \A x \in Names \ {c.name} : dir[x] = dataDir[x]
  /\ c.kind = "rename" /\ ~Refused(c) =>
       /\ DOMAIN dir = (Names \ {c.name}) \cup {c.to}
       /\ dir[c.to] = dataDir[c.name]
       /\ \A x \in Names \ {c.name, c.to} : dir[x] = dataDir[x]
LEMMA DirMade ==
  ASSUME dataDir \in DataFolder, SpentTyped, NEW c, CallTyped(c), c.kind \in Changing, NEW dir, dir = DirAfter(c)
  PROVE  dir \in DataFolder /\ LeftOnDisk(c, dir)
  <1>1. Names \subseteq FileNames /\ dataDir \in [Names -> StoredFile]
    BY FolderFacts
  <1>2. CASE Refused(c)
    BY <1>2 DEF DirAfter, LeftOnDisk
  <1>3. CASE c.kind = "upload"
    <2>1. ~Refused(c) /\ dir = Stored(c.name, c.n)
      BY <1>3, AnswerFacts DEF DirAfter
    <2>2. c.name \in FileNames /\ c.n \in Nat
      BY <1>3 DEF CallTyped, Changing
    <2>3. dir \in [Names \cup {c.name} -> StoredFile]
      <3>1. [id |-> c.n, text |-> c.n] \in StoredFile
        BY <2>2 DEF StoredFile
      <3>2. ASSUME c.name \in Names PROVE [dataDir[c.name] EXCEPT !.text = c.n] \in StoredFile
        <4>1. dataDir[c.name] \in StoredFile
          BY <1>1, <3>2
        <4> QED  BY <2>2, <4>1 DEF StoredFile
      <3> QED  BY <1>1, <2>1, <3>1, <3>2 DEF Stored
    <2>4. dir \in DataFolder
      BY <1>1, <2>2, <2>3, FolderMade
    <2> QED  BY <1>3, <2>1, <2>4 DEF LeftOnDisk
  <1>4. CASE c.kind = "rename" /\ ~Refused(c)
    <2>1. dir = FileMoved(c.name, c.to)
      BY <1>4 DEF DirAfter
    <2>2. c.to \in FileNames /\ c.name \in Names
      BY <1>4, AnswerFacts DEF CallTyped
    <2>3. dir \in [(Names \ {c.name}) \cup {c.to} -> StoredFile]
      BY <1>1, <2>1, <2>2 DEF FileMoved
    <2>4. dir \in DataFolder
      BY <1>1, <2>2, <2>3, FolderMade
    <2> QED  BY <1>4, <2>1, <2>4 DEF FileMoved, LeftOnDisk
  <1>5. CASE c.kind = "delete" /\ ~Refused(c)
    <2>1. dir = Without(c.name)
      BY <1>5 DEF DirAfter
    <2>2. dir \in [Names \ {c.name} -> StoredFile]
      BY <1>1, <2>1 DEF Without
    <2>3. dir \in DataFolder
      BY <1>1, <2>2, FolderMade
    <2> QED  BY <1>5, <2>1, <2>3 DEF Without, LeftOnDisk
  <1> QED  BY <1>2, <1>3, <1>4, <1>5 DEF Changing

\* What the engine makes of the change itself, of the calls beside it, and of the folder.
ServedSelf(c, cc) ==
  /\ c.kind \in Changing /\ c.answer = Pending /\ c.n \in 1..dataSpent.changes
  /\ cc.n = c.n /\ cc.kind = c.kind /\ cc.name = c.name /\ cc.to = c.to /\ cc.asked = c.asked
  /\ cc.answer = IF Refused(c) THEN Refusal ELSE Agreed
ServedBeside(c, cc, before, after) ==
  /\ \A d \in calls : /\ after[d].n = d.n /\ after[d].kind = d.kind /\ after[d].name = d.name
                       /\ after[d].keep = d.keep
  /\ \A d \in calls : d.kind \in Changing => after[d] = d
  /\ \A d \in calls : d.kind \notin Changing /\ d \in before => after[d].answer = AnswerTo(d)
  /\ \A d \in calls : d.kind \notin Changing /\ d \notin before => after[d].answer = d.answer
  /\ \A d \in calls : d.kind \notin Changing /\ after[d].answer # Pending =>
                        after[d].old = d.old \cup {c.n}
  /\ \A e \in calls' : e = cc \/ \E d \in calls \ {c} : e = after[d]
  /\ \A d \in calls \ {c} : after[d] \in calls'
  /\ cc \in calls'
ServedOnDisk(c) ==
  /\ Refused(c) => dataDir' = dataDir /\ Names' = Names
  /\ c.kind = "delete" /\ ~Refused(c) =>
       /\ Names' = Names \ {c.name}
       /\ \A x \in Names \ {c.name} : dataDir'[x] = dataDir[x]
  /\ c.kind = "rename" /\ ~Refused(c) =>
       /\ Names' = (Names \ {c.name}) \cup {c.to}
       /\ dataDir'[c.to] = dataDir[c.name]
       /\ \A x \in Names \ {c.name, c.to} : dataDir'[x] = dataDir[x]
MadeByEngine(c, cc, before, after) ==
  /\ ServedSelf(c, cc) /\ ServedBeside(c, cc, before, after) /\ ServedOnDisk(c)
  /\ UNCHANGED <<dati, dataSpent, astray>>

LEMMA ServeFacts ==
  ASSUME DataTyped, NEW c \in calls,
         NEW before \in SUBSET {d \in calls : d.kind \notin Changing /\ d.answer = Pending},
         Serve(c, before)
  PROVE  DataTyped' /\ \E cc, after : MadeByEngine(c, cc, before, after)
  <1> DEFINE after(d) == Aged(ServedFirst(d, before), c.n)
  <1>1. PICK cc : /\ cc = [c EXCEPT !.answer = AnswerTo(c)]
                  /\ c.kind \in Changing /\ c.answer = Pending /\ dataDir' = DirAfter(c)
                  /\ calls' = {after(d) : d \in calls \ {c}} \cup {cc}
                  /\ dati' = dati /\ dataSpent' = dataSpent /\ astray' = astray
    BY DEF Serve
  <1>2. CallTyped(c) /\ c.n \in Nat /\ dataDir \in DataFolder /\ SpentTyped
        /\ c.n \in 1..dataSpent.changes
    BY <1>1 DEF DataTyped, CallTyped
  <1>3. /\ cc.n = c.n /\ cc.kind = c.kind /\ cc.name = c.name /\ cc.to = c.to /\ cc.asked = c.asked
        /\ cc.answer = (IF Refused(c) THEN Refusal ELSE Agreed) /\ CallTyped(cc)
    <2>1. AnswerTo(c) = IF Refused(c) THEN Refusal ELSE Agreed
      BY <1>1, <1>2, AnswerFacts
    <2>2. c.kind = "upload" => ~Refused(c)
      BY <1>2, AnswerFacts
    <2>3. cc.n = c.n /\ cc.kind = c.kind /\ cc.name = c.name /\ cc.to = c.to /\ cc.asked = c.asked
          /\ cc.old = c.old /\ cc.answer = IF Refused(c) THEN Refusal ELSE Agreed
      BY <1>1, <1>2, <2>1 DEF CallTyped
    <2>4. cc \in [n : Nat, kind : {"list", "get"} \cup Changing, name : Selectable, to : Selectable,
                  keep : BOOLEAN, asked : Selectable, old : SUBSET Nat,
                  answer : {Pending, Refusal, Agreed} \cup Listing \cup Detail]
      BY <1>1, <1>2, <2>1 DEF CallTyped
    <2> QED  BY <1>1, <1>2, <2>2, <2>3, <2>4, AnswersDiffer DEF CallTyped, Changing
  <1>4. /\ dataDir' \in DataFolder
        /\ Refused(c) => dataDir' = dataDir
        /\ c.kind = "delete" /\ ~Refused(c) =>
             /\ Names' = Names \ {c.name}
             /\ \A x \in Names \ {c.name} : dataDir'[x] = dataDir[x]
        /\ c.kind = "rename" /\ ~Refused(c) =>
             /\ Names' = (Names \ {c.name}) \cup {c.to}
             /\ dataDir'[c.to] = dataDir[c.name]
             /\ \A x \in Names \ {c.name, c.to} : dataDir'[x] = dataDir[x]
    <2>1. PICK dir : dir = DirAfter(c)
      OBVIOUS
    <2>2. dataDir' = dir
      BY <1>1, <2>1
    <2>3. dir \in DataFolder /\ LeftOnDisk(c, dir)
      <3>1. c.kind \in Changing
        BY <1>1
      <3> QED  BY <1>2, <2>1, <3>1, DirMade
    <2> QED  BY <2>2, <2>3 DEF Names, LeftOnDisk
  <1>5. ASSUME NEW d \in calls
        PROVE  /\ after(d).n = d.n /\ after(d).kind = d.kind /\ after(d).name = d.name
               /\ after(d).keep = d.keep
               /\ d.kind \in Changing => after(d) = d
               /\ d.kind \notin Changing =>
                    /\ after(d).answer = IF d \in before THEN AnswerTo(d) ELSE d.answer
                    /\ after(d).old = IF after(d).answer # Pending THEN d.old \cup {c.n} ELSE d.old
               /\ CallTyped(after(d))
    <2>1. CallTyped(d) /\ (d \in before => d.kind \notin Changing /\ d.answer = Pending)
      BY DEF DataTyped
    <2>2. PICK e : e = after(d)
      OBVIOUS
    <2>3. /\ e.n = d.n /\ e.kind = d.kind /\ e.name = d.name /\ e.to = d.to /\ e.keep = d.keep
          /\ e.asked = d.asked
          /\ d.kind \in Changing => e = d
          /\ d.kind \notin Changing =>
               /\ e.answer = IF d \in before THEN AnswerTo(d) ELSE d.answer
               /\ e.old = IF e.answer # Pending THEN d.old \cup {c.n} ELSE d.old
          /\ e \in [n : Nat, kind : {"list", "get"} \cup Changing, name : Selectable, to : Selectable,
                    keep : BOOLEAN, asked : Selectable, old : SUBSET Nat,
                    answer : {Pending, Refusal, Agreed} \cup Listing \cup Detail]
      <3>1. e = Aged(ServedFirst(d, before), c.n)
        BY <2>2
      <3>2. c.n \in Nat /\ dataDir \in DataFolder
        BY <1>2
      <3> HIDE DEF after
      <3> QED  BY <2>1, <3>1, <3>2, AgedFacts
    <2>4. CallTyped(e)
      <3>1. CASE d.kind \in Changing
        BY <2>1, <2>3, <3>1
      <3>2. CASE d.kind = "list"
        <4>1. e.answer = Pending \/ e.answer \in Listing
          BY <1>2, <2>1, <2>3, <3>2, AnswerFacts DEF CallTyped, Changing
        <4> QED  BY <1>2, <2>1, <2>3, <3>2, <4>1 DEF CallTyped, Changing
      <3>3. CASE d.kind = "get"
        <4>1. e.answer \in {Pending, Refusal} \/ e.answer \in Detail
          BY <1>2, <2>1, <2>3, <3>3, AnswerFacts DEF CallTyped, Changing
        <4> QED  BY <1>2, <2>1, <2>3, <3>3, <4>1 DEF CallTyped, Changing
      <3> QED  BY <2>1, <3>1, <3>2, <3>3 DEF CallTyped
    <2> QED  BY <2>2, <2>3, <2>4
  <1> HIDE DEF after
  <1>6. /\ \A e \in calls' : e = cc \/ \E d \in calls \ {c} : e = after(d)
        /\ \A d \in calls \ {c} : after(d) \in calls'
        /\ cc \in calls'
    BY <1>1
  <1>7. DataTyped'
    <2>1. \A e \in calls' : CallTyped(e)
      BY <1>3, <1>5, <1>6
    <2>2. \A e : CallTyped(e)' <=> CallTyped(e)
      BY <1>1 DEF CallTyped
    <2> QED  BY <1>1, <1>4, <2>1, <2>2 DEF DataTyped, PageTyped, SpentTyped, AstrayTyped
  <1>8. PICK g : g = [d \in calls |-> after(d)]
    OBVIOUS
  <1>9. \A d \in calls : g[d] = after(d)
    BY <1>8
  <1>10. ServedSelf(c, cc)
    BY <1>1, <1>2, <1>3 DEF ServedSelf
  <1>11. ServedBeside(c, cc, before, g)
    <2>1. \A d \in calls : /\ g[d].n = d.n /\ g[d].kind = d.kind /\ g[d].name = d.name
                           /\ g[d].keep = d.keep
      BY <1>5, <1>9
    <2>2. \A d \in calls : d.kind \in Changing => g[d] = d
      BY <1>5, <1>9
    <2>3. ASSUME NEW d \in calls, d.kind \notin Changing
          PROVE  /\ d \in before => g[d].answer = AnswerTo(d)
                 /\ d \notin before => g[d].answer = d.answer
                 /\ g[d].answer # Pending => g[d].old = d.old \cup {c.n}
      <3>1. PICK e : e = after(d)
        OBVIOUS
      <3>2. /\ e.answer = IF d \in before THEN AnswerTo(d) ELSE d.answer
            /\ e.old = IF e.answer # Pending THEN d.old \cup {c.n} ELSE d.old
        BY <1>5, <2>3, <3>1
      <3>3. g[d] = e
        BY <1>9, <3>1
      <3> QED  BY <3>2, <3>3
    <2>4. /\ \A e \in calls' : e = cc \/ \E d \in calls \ {c} : e = g[d]
          /\ \A d \in calls \ {c} : g[d] \in calls'
      BY <1>6, <1>9
    <2> QED  BY <1>6, <2>1, <2>2, <2>3, <2>4 DEF ServedBeside
  <1>12. ServedOnDisk(c)
    BY <1>4 DEF ServedOnDisk, Names
  <1> QED  BY <1>1, <1>7, <1>10, <1>11, <1>12 DEF MadeByEngine

LEMMA ServeCalls ==
  ASSUME NEW c \in calls, NEW before, NEW cc, NEW after,
         ServedSelf(c, cc), ServedBeside(c, cc, before, after)
  PROVE  /\ \A kind \in Changing : \A x :
              x \in Sent({kind})' <=> (x \in Sent({kind}) \ {c} \/ (x = cc /\ c.kind = kind))
         /\ \A x : x \in Sent({"rename", "delete"})' <=>
                (x \in Sent({"rename", "delete"}) \ {c} \/ (x = cc /\ c.kind \in {"rename", "delete"}))
         /\ \A x : x \in Sent(Changing)' <=> (x \in Sent(Changing) \ {c} \/ x = cc)
         /\ \A kind \in Changing : \A x : x \in AgreedTo(kind)' <=>
                (x \in AgreedTo(kind) \/ (x = cc /\ c.kind = kind /\ ~Refused(c)))
         /\ UploadNames' = UploadNames
  <1>1. /\ c.kind \in Changing /\ c.answer = Pending
        /\ cc.n = c.n /\ cc.kind = c.kind /\ cc.name = c.name
        /\ cc.answer = Agreed <=> ~Refused(c)
    BY AnswersDiffer DEF ServedSelf
  <1>2. /\ \A d \in calls : after[d].kind = d.kind
        /\ \A d \in calls : d.kind \in Changing => after[d] = d
        /\ \A e \in calls' : e = cc \/ \E d \in calls \ {c} : e = after[d]
        /\ \A d \in calls \ {c} : after[d] \in calls'
        /\ cc \in calls'
    BY DEF ServedBeside
  <1>3. ASSUME NEW kinds \in SUBSET Changing
        PROVE  \A x : x \in Sent(kinds)' <=> (x \in Sent(kinds) \ {c} \/ (x = cc /\ c.kind \in kinds))
    <2>1. ASSUME NEW x, x \in Sent(kinds)'
          PROVE  x \in Sent(kinds) \ {c} \/ (x = cc /\ c.kind \in kinds)
      BY <1>1, <1>2, <2>1 DEF Sent
    <2>2. ASSUME NEW x \in Sent(kinds) \ {c} PROVE x \in Sent(kinds)'
      BY <1>2 DEF Sent
    <2>3. c.kind \in kinds => cc \in Sent(kinds)'
      BY <1>1, <1>2 DEF Sent
    <2> QED  BY <2>1, <2>2, <2>3
  <1>4. /\ \A kind \in Changing : \A x : x \in Sent({kind})' <=> (x \in Sent({kind}) \ {c} \/ (x = cc /\ c.kind = kind))
        /\ \A x : x \in Sent({"rename", "delete"})' <=>
                    (x \in Sent({"rename", "delete"}) \ {c} \/ (x = cc /\ c.kind \in {"rename", "delete"}))
        /\ \A x : x \in Sent(Changing)' <=> (x \in Sent(Changing) \ {c} \/ x = cc)
    <2>1. \A kind \in Changing : {kind} \in SUBSET Changing
      OBVIOUS
    <2>2. {"rename", "delete"} \in SUBSET Changing /\ Changing \in SUBSET Changing
      BY DEF Changing
    <2>3. \A kind : c.kind \in {kind} <=> c.kind = kind
      OBVIOUS
    <2>4. ASSUME NEW kind \in Changing
          PROVE  \A x : x \in Sent({kind})' <=> (x \in Sent({kind}) \ {c} \/ (x = cc /\ c.kind = kind))
      BY <1>3, <2>1, <2>3
    <2>5. \A x : x \in Sent({"rename", "delete"})' <=>
                    (x \in Sent({"rename", "delete"}) \ {c} \/ (x = cc /\ c.kind \in {"rename", "delete"}))
      BY <1>3, <2>2
    <2>6. \A x : x \in Sent(Changing)' <=> (x \in Sent(Changing) \ {c} \/ x = cc)
      BY <1>1, <1>3, <2>2
    <2> QED  BY <2>4, <2>5, <2>6
  <1>5. \A kind \in Changing : \A x : x \in AgreedTo(kind)' <=>
           (x \in AgreedTo(kind) \/ (x = cc /\ c.kind = kind /\ ~Refused(c)))
    BY <1>1, <1>4, AnswersDiffer DEF AgreedTo, Sent
  <1>6. UploadNames' = UploadNames
    <2>1. \A x \in Sent({"upload"})' : \E y \in Sent({"upload"}) : x.name = y.name
      BY <1>1, <1>4 DEF Sent, Changing
    <2>2. \A y \in Sent({"upload"}) : \E x \in Sent({"upload"})' : x.name = y.name
      BY <1>1, <1>4 DEF Sent, Changing
    <2>3. UploadNames' \subseteq UploadNames
      BY <2>1 DEF UploadNames
    <2>4. UploadNames \subseteq UploadNames'
      BY <2>2 DEF UploadNames
    <2> QED  BY <2>3, <2>4
  <1> QED  BY <1>4, <1>5, <1>6

\* The changes in flight and what is on disk, when one of them is made.
LEMMA ServeGrouped ==
  ASSUME DataTyped, NEW c \in calls, NEW before, NEW cc, NEW after, MadeByEngine(c, cc, before, after),
         CallsGrouped, PageGrouped, AppliedOnDisk
  PROVE  CallsGrouped' /\ PageGrouped' /\ AppliedOnDisk'
  <1>1. /\ c.kind \in Changing /\ c.answer = Pending
        /\ cc.n = c.n /\ cc.kind = c.kind /\ cc.name = c.name /\ cc.to = c.to /\ cc.asked = c.asked
    BY DEF MadeByEngine, ServedSelf
  <1>2. dati' = dati /\ dataSpent' = dataSpent /\ astray' = astray
    BY DEF MadeByEngine
  <1>3. /\ \A kind \in Changing : \A x :
              x \in Sent({kind})' <=> (x \in Sent({kind}) \ {c} \/ (x = cc /\ c.kind = kind))
        /\ \A x : x \in Sent({"rename", "delete"})' <=>
                (x \in Sent({"rename", "delete"}) \ {c} \/ (x = cc /\ c.kind \in {"rename", "delete"}))
        /\ \A x : x \in Sent(Changing)' <=> (x \in Sent(Changing) \ {c} \/ x = cc)
    BY ServeCalls DEF MadeByEngine
  <1>4. /\ \A kind \in Changing : \A x : x \in AgreedTo(kind)' <=>
             (x \in AgreedTo(kind) \/ (x = cc /\ c.kind = kind /\ ~Refused(c)))
        /\ UploadNames' = UploadNames
    BY ServeCalls DEF MadeByEngine
  <1>5. c \in Sent(Changing) /\ c \in Sent({c.kind})
    BY <1>1 DEF Sent
  <1>6. /\ \A x \in Sent({"rename", "delete"}) : \A y \in Sent(Changing) : x = y
        /\ \A x, y \in Sent({"upload"}) : x.n = y.n /\ (x.name = y.name => x = y)
        /\ \A x \in Sent({"rename", "delete"}) : x.name = x.asked
    BY DEF CallsGrouped
  <1>7. /\ c.kind \in {"rename", "delete"} => c \in Sent({"rename", "delete"})
        /\ c.kind = "upload" => c \in Sent({"upload"})
    BY <1>1 DEF Sent
  <1>8. CallsGrouped'
    <2>1. \A x, y \in Sent({"upload"})' : x.n = y.n /\ (x.name = y.name => x = y)
      <3>1. ASSUME NEW x \in Sent({"upload"})', NEW y \in Sent({"upload"})'
            PROVE  x.n = y.n /\ (x.name = y.name => x = y)
        <4>1. /\ x \in Sent({"upload"}) \ {c} \/ (x = cc /\ c.kind = "upload")
              /\ y \in Sent({"upload"}) \ {c} \/ (y = cc /\ c.kind = "upload")
          BY <1>3, <3>1 DEF Changing
        <4> QED  BY <1>1, <1>6, <1>7, <4>1
      <3> QED  BY <3>1
    <2>2. \A x \in Sent({"rename", "delete"})' : \A y \in Sent(Changing)' : x = y
      <3>1. ASSUME NEW x \in Sent({"rename", "delete"})', NEW y \in Sent(Changing)' PROVE x = y
        <4>1. /\ x \in Sent({"rename", "delete"}) \ {c} \/ (x = cc /\ c.kind \in {"rename", "delete"})
              /\ y \in Sent(Changing) \ {c} \/ y = cc
          BY <1>3, <3>1
        <4> QED  BY <1>5, <1>6, <1>7, <4>1
      <3> QED  BY <3>1
    <2>3. \A x \in Sent({"rename", "delete"})' : x.name = x.asked
      <3>1. ASSUME NEW x \in Sent({"rename", "delete"})' PROVE x.name = x.asked
        <4>1. x \in Sent({"rename", "delete"}) \ {c} \/ (x = cc /\ c.kind \in {"rename", "delete"})
          BY <1>3, <3>1
        <4> QED  BY <1>1, <1>6, <1>7, <4>1
      <3> QED  BY <3>1
    <2> QED  BY <2>1, <2>2, <2>3 DEF CallsGrouped
  <1>9. PageGrouped'
    <2>1. Sent(Changing) # {} /\ (Sent({"rename"})' # {} => Sent({"rename"}) # {})
      <3>1. ASSUME NEW x \in Sent({"rename"})' PROVE Sent({"rename"}) # {}
        <4>1. x \in Sent({"rename"}) \ {c} \/ (x = cc /\ c.kind = "rename")
          BY <1>3, <3>1 DEF Changing
        <4> QED  BY <1>5, <4>1
      <3> QED  BY <1>5, <3>1
    <2> QED  BY <1>2, <1>4, <2>1 DEF PageGrouped
  <1>10. AgreedTo("rename") = {} /\ AgreedTo("delete") = {}
    <2>1. ASSUME NEW x \in calls, x.kind \in {"rename", "delete"}, x.answer = Agreed PROVE FALSE
      <3>1. x \in Sent({"rename", "delete"})
        BY <2>1 DEF Sent
      <3> QED  BY <1>1, <1>5, <1>6, <2>1, <3>1, AnswersDiffer
    <2> QED  BY <2>1 DEF AgreedTo, Sent
  <1>11. AppliedOnDisk'
    <2>1. /\ c.kind = "delete" /\ ~Refused(c) => Names' = Names \ {c.name}
          /\ c.kind = "rename" /\ ~Refused(c) => Names' = (Names \ {c.name}) \cup {c.to}
      BY DEF MadeByEngine, ServedOnDisk
    <2>2. ASSUME NEW x \in AgreedTo("rename")' PROVE x.to \in Names' /\ (x.name \in Names' => x.name = x.to)
      <3>1. x = cc /\ c.kind = "rename" /\ ~Refused(c)
        BY <1>4, <1>10, <2>2 DEF Changing
      <3> QED  BY <1>1, <2>1, <3>1
    <2>3. ASSUME NEW x \in AgreedTo("delete")' PROVE x.name \notin Names'
      <3>1. x = cc /\ c.kind = "delete" /\ ~Refused(c)
        BY <1>4, <1>10, <2>3 DEF Changing
      <3> QED  BY <1>1, <2>1, <3>1
    <2> QED  BY <2>2, <2>3 DEF AppliedOnDisk
  <1> QED  BY <1>8, <1>9, <1>11

LEMMA ServeReads ==
  ASSUME DataTyped, NEW c \in calls, NEW before, NEW cc, NEW after, MadeByEngine(c, cc, before, after),
         CallsGrouped, ReadsRight
  PROVE  ReadsRight'
  <1>1. /\ c.kind \in Changing /\ c.answer = Pending
        /\ cc.n = c.n /\ cc.kind = c.kind /\ cc.name = c.name /\ cc.to = c.to
        /\ cc.answer = Agreed <=> ~Refused(c)
    BY AnswersDiffer DEF MadeByEngine, ServedSelf
  <1>2. /\ \A d \in calls : after[d].n = d.n /\ after[d].kind = d.kind /\ after[d].name = d.name
        /\ \A d \in calls : d.kind \in Changing => after[d] = d
        /\ \A e \in calls' : e = cc \/ \E d \in calls \ {c} : e = after[d]
        /\ \A d \in calls \ {c} : after[d] \in calls'
        /\ cc \in calls'
    BY DEF MadeByEngine, ServedBeside
  <1>3. /\ \A d \in calls : d.kind \notin Changing /\ d \in before => after[d].answer = AnswerTo(d)
        /\ \A d \in calls : d.kind \notin Changing /\ d \notin before => after[d].answer = d.answer
        /\ \A d \in calls : d.kind \notin Changing /\ after[d].answer # Pending =>
                              after[d].old = d.old \cup {c.n}
    BY DEF MadeByEngine, ServedBeside
  <1>4. /\ Refused(c) => dataDir' = dataDir /\ Names' = Names
        /\ c.kind = "delete" /\ ~Refused(c) =>
             /\ Names' = Names \ {c.name}
             /\ \A x \in Names \ {c.name} : dataDir'[x] = dataDir[x]
        /\ c.kind = "rename" /\ ~Refused(c) =>
             /\ Names' = (Names \ {c.name}) \cup {c.to}
             /\ dataDir'[c.to] = dataDir[c.name]
             /\ \A x \in Names \ {c.name, c.to} : dataDir'[x] = dataDir[x]
    BY DEF MadeByEngine, ServedOnDisk
  <1>5. dataDir \in DataFolder /\ (\A d \in calls : CallTyped(d))
    BY DEF DataTyped
  <1>6. /\ c.kind = "upload" => ~Refused(c)
        /\ c.kind = "rename" /\ ~Refused(c) => c.to \notin Names \ {c.name}
    BY <1>5, AnswerFacts
  <1>7. ASSUME NEW d \in calls \ {c}, d.kind \notin Changing, after[d].answer # Pending, Late(d)
        PROVE  Late(after[d])'
    <2>1. PICK k \in d.old : \A x \in calls : x.n # k
      BY <1>7 DEF Late
    <2>2. k \in after[d].old
      BY <1>3, <1>7
    <2>3. \A x \in calls' : x.n # k
      BY <1>1, <1>2, <2>1
    <2> QED  BY <2>2, <2>3 DEF Late
  <1>8. ASSUME NEW d \in calls \ {c}, d.kind \notin Changing, after[d].answer # Pending, ~Refused(c)
        PROVE  Since(after[d], cc)'
    <2>1. c.n \in after[d].old
      BY <1>3, <1>8
    <2> QED  BY <1>1, <1>8, <2>1 DEF Since
  <1>9. ASSUME NEW d \in calls \ {c}, d.kind \notin Changing, after[d].answer # Pending,
               NEW x \in calls, Since(d, x), Refused(c)
        PROVE  x \in calls' /\ Since(after[d], x)'
    <2>1. x # c
      BY <1>1, <1>6, <1>9, AnswersDiffer DEF Since
    <2>2. after[x] = x
      BY <1>2, <1>9 DEF Since
    <2>3. x \in calls' /\ d.old \subseteq after[d].old
      BY <1>2, <1>3, <1>9, <2>1, <2>2
    <2> QED  BY <1>9, <2>3 DEF Since
  <1>10. ASSUME NEW e \in calls', e.kind \notin Changing
         PROVE  \E d \in calls \ {c} : e = after[d] /\ d.kind = e.kind /\ d.name = e.name
                                       /\ d.kind \notin Changing
    BY <1>1, <1>2, <1>10
  <1>11. ASSUME NEW e \in calls', e.kind = "list", e.answer # Pending
         PROVE  Late(e)' \/ e.answer.items = Names' \/ \E x \in calls' : Since(e, x)'
    <2>1. PICK d \in calls \ {c} : e = after[d] /\ d.kind = "list" /\ d.kind \notin Changing
      BY <1>10, <1>11 DEF Changing
    <2>2. CASE ~Refused(c)
      BY <1>2, <1>8, <1>11, <2>1, <2>2
    <2>3. CASE Refused(c) /\ d \in before
      <3>1. CallTyped(d) /\ e.answer = AnswerTo(d)
        BY <1>3, <1>5, <2>1, <2>3
      <3>2. AnswerTo(d).items = Names
        BY <1>5, <2>1, <3>1, AnswerFacts
      <3> QED  BY <1>4, <2>3, <3>1, <3>2
    <2>4. CASE Refused(c) /\ d \notin before
      <3>1. e.answer = d.answer
        BY <1>3, <2>1, <2>4
      <3>2. Late(d) \/ d.answer.items = Names \/ \E x \in calls : Since(d, x)
        BY <1>11, <2>1, <3>1 DEF ReadsRight
      <3>3. CASE Late(d)
        BY <1>7, <1>11, <2>1, <3>3
      <3>4. CASE d.answer.items = Names
        BY <1>4, <2>4, <3>1, <3>4
      <3>5. CASE \E x \in calls : Since(d, x)
        BY <1>9, <1>11, <2>1, <2>4, <3>5
      <3> QED  BY <3>2, <3>3, <3>4, <3>5
    <2> QED  BY <2>2, <2>3, <2>4
  <1>12. ASSUME NEW e \in calls', e.kind = "get", e.answer \in Detail
         PROVE  \/ Late(e)'
                \/ e.name \in Names' /\ e.answer.file = dataDir'[e.name]
                \/ \E x \in calls' :
                     /\ Since(e, x)'
                     /\ x.kind = "delete" => x.name = e.name
                     /\ x.kind = "rename" => x.name = e.name /\ e.answer.file = dataDir'[x.to]
    <2>1. PICK d \in calls \ {c} : e = after[d] /\ d.kind = "get" /\ e.name = d.name /\ d.kind \notin Changing
      BY <1>10, <1>12 DEF Changing
    <2>2. e.answer # Pending /\ after[d].answer # Pending /\ CallTyped(d)
      BY <1>5, <1>12, <2>1, AnswersDiffer
    <2>3. \/ Late(d)
          \/ d.name \in Names /\ e.answer.file = dataDir[d.name]
          \/ \E x \in calls : /\ Since(d, x)
                              /\ x.kind = "delete" => x.name = d.name
                              /\ x.kind = "rename" => x.name = d.name /\ e.answer.file = dataDir[x.to]
      <3>1. CASE d \in before
        <4>1. e.answer = AnswerTo(d)
          BY <1>3, <2>1, <3>1
        <4>2. AnswerTo(d) # Refusal
          BY <1>12, <4>1, AnswersDiffer
        <4> QED  BY <1>5, <2>1, <2>2, <4>1, <4>2, AnswerFacts
      <3>2. CASE d \notin before
        <4>1. e.answer = d.answer
          BY <1>3, <2>1, <3>2
        <4> QED  BY <1>12, <2>1, <4>1 DEF ReadsRight
      <3> QED  BY <3>1, <3>2
    <2>4. CASE Late(d)
      BY <1>7, <2>1, <2>2, <2>4
    <2>5. CASE d.name \in Names /\ e.answer.file = dataDir[d.name]
      <3>1. CASE Refused(c)
        BY <1>4, <2>1, <2>5, <3>1
      <3>2. CASE ~Refused(c) /\ (c.kind = "upload" \/ c.name = d.name)
        <4>1. Since(e, cc)' /\ cc \in calls'
          BY <1>2, <1>8, <2>1, <2>2, <3>2
        <4>2. cc.kind = "rename" => cc.name = e.name /\ e.answer.file = dataDir'[cc.to]
          BY <1>1, <1>4, <2>1, <2>5, <3>2
        <4>3. cc.kind = "delete" => cc.name = e.name
          BY <1>1, <2>1, <3>2
        <4> QED  BY <4>1, <4>2, <4>3
      <3>3. CASE ~Refused(c) /\ c.kind \in {"rename", "delete"} /\ c.name # d.name
        <4>1. c.kind = "rename" => c.to # d.name
          BY <1>6, <2>5, <3>3
        <4>2. d.name \in Names' /\ dataDir'[d.name] = dataDir[d.name]
          BY <1>4, <2>5, <3>3, <4>1
        <4> QED  BY <2>1, <2>5, <4>2
      <3> QED  BY <1>1, <3>1, <3>2, <3>3 DEF Changing
    <2>6. ASSUME NEW x \in calls, Since(d, x), x.kind = "delete" => x.name = d.name,
                 x.kind = "rename" => x.name = d.name /\ e.answer.file = dataDir[x.to]
          PROVE  \E y \in calls' :
                     /\ Since(e, y)'
                     /\ y.kind = "delete" => y.name = e.name
                     /\ y.kind = "rename" => y.name = e.name /\ e.answer.file = dataDir'[y.to]
      <3>1. CASE Refused(c)
        <4>1. x \in calls' /\ Since(e, x)'
          BY <1>9, <2>1, <2>2, <2>6, <3>1
        <4> QED  BY <1>4, <2>1, <2>6, <3>1, <4>1
      <3>2. CASE ~Refused(c)
        <4>1. x \in Sent(Changing) /\ x.kind \in Changing /\ (x.kind = "upload" \/ x.answer = Agreed)
          BY <2>6 DEF Since, Sent
        <4>2. c \in Sent(Changing)
          BY <1>1 DEF Sent
        <4>3. c.kind = "upload"
          <5>1. CASE x = c
            BY <1>1, <4>1, <5>1, AnswersDiffer
          <5>2. ASSUME c.kind \in {"rename", "delete"} PROVE x = c
            BY <4>1, <5>2 DEF CallsGrouped, Sent
          <5> QED  BY <1>1, <5>1, <5>2 DEF Changing
        <4>4. Since(e, cc)' /\ cc \in calls'
          BY <1>2, <1>8, <2>1, <2>2, <3>2
        <4> QED  BY <1>1, <4>3, <4>4
      <3> QED  BY <3>1, <3>2
    <2> QED  BY <2>3, <2>4, <2>5, <2>6
  <1> QED  BY <1>11, <1>12 DEF ReadsRight

LEMMA ServePage ==
  ASSUME DataTyped, NEW c \in calls, NEW before, NEW cc, NEW after, MadeByEngine(c, cc, before, after)
  PROVE  /\ SelectionRight => SelectionRight'
         /\ CallsGrouped /\ ListRight /\ PreviewRight /\ PreviewAsked /\ PreviewMoves =>
              ListRight' /\ PreviewRight' /\ PreviewAsked' /\ PreviewMoves'
  <1>1. /\ c.kind \in Changing /\ c.answer = Pending
        /\ cc.n = c.n /\ cc.kind = c.kind /\ cc.name = c.name /\ cc.to = c.to
        /\ cc.answer = Agreed <=> ~Refused(c)
    BY AnswersDiffer DEF MadeByEngine, ServedSelf
  <1>2. /\ \A d \in calls : after[d].kind = d.kind /\ after[d].name = d.name /\ after[d].keep = d.keep
        /\ \A d \in calls \ {c} : after[d] \in calls'
        /\ \A d \in calls : d.kind \notin Changing /\ d \in before => after[d].answer = AnswerTo(d)
        /\ \A d \in calls : d.kind \notin Changing /\ d \notin before => after[d].answer = d.answer
    BY DEF MadeByEngine, ServedBeside
  <1>3. dati' = dati
    BY DEF MadeByEngine
  <1>4. /\ Refused(c) => dataDir' = dataDir /\ Names' = Names
        /\ c.kind = "delete" /\ ~Refused(c) =>
             /\ Names' = Names \ {c.name}
             /\ \A x \in Names \ {c.name} : dataDir'[x] = dataDir[x]
        /\ c.kind = "rename" /\ ~Refused(c) => dataDir'[c.to] = dataDir[c.name]
    BY DEF MadeByEngine, ServedOnDisk
  <1>5. dataDir \in DataFolder /\ (\A d \in calls : CallTyped(d))
    BY DEF DataTyped
  <1>6. /\ \A x : x \in Sent({"upload"})' <=> (x \in Sent({"upload"}) \ {c} \/ (x = cc /\ c.kind = "upload"))
        /\ \A kind \in Changing : \A x : x \in AgreedTo(kind)' <=>
             (x \in AgreedTo(kind) \/ (x = cc /\ c.kind = kind /\ ~Refused(c)))
    BY ServeCalls DEF MadeByEngine, Changing
  <1>7. Sent({"list"}) # {} => Sent({"list"})' # {}
    <2>1. ASSUME NEW d \in Sent({"list"}) PROVE after[d] \in Sent({"list"})'
      BY <1>1, <1>2 DEF Sent, Changing
    <2> QED  BY <2>1
  <1>8. SelectionRight => SelectionRight'
    BY <1>3, <1>7 DEF SelectionRight
  <1>9. ASSUME Settled' PROVE Settled /\ (Refused(c) \/ c.kind = "delete")
    <2>1. Sent({"upload"})' = {} /\ AgreedTo("rename")' = {}
      BY <1>9 DEF Settled
    <2>2. c.kind # "upload" /\ (c.kind = "rename" => Refused(c))
      BY <1>6, <2>1 DEF Changing
    <2>3. AgreedTo("rename") = {}
      BY <1>6, <2>1 DEF Changing
    <2>4. Sent({"upload"}) = {}
      <3>1. c \notin Sent({"upload"})
        BY <2>2 DEF Sent
      <3> QED  BY <1>6, <2>1, <3>1
    <2> QED  BY <1>1, <2>2, <2>3, <2>4 DEF Settled, Changing
  <1>10. ASSUME Settled', dati'.selected \in Names'
         PROVE  Settled /\ dati.selected \in Names /\ dataDir'[dati.selected] = dataDir[dati.selected]
    BY <1>3, <1>4, <1>9, <1>10
  <1>11. ListRight => ListRight'
    <2>1. Sent({"upload"}) # {} => Sent({"upload"})' # {}
      <3>1. c \in Sent({"upload"}) => c.kind = "upload"
        BY DEF Sent
      <3> QED  BY <1>6, <3>1
    <2>2. \A kind \in Changing : AgreedTo(kind) # {} => AgreedTo(kind)' # {}
      BY <1>6
    <2>3. ~Refused(c) => Sent({"upload"})' # {} \/ AgreedTo("rename")' # {} \/ AgreedTo("delete")' # {}
      BY <1>1, <1>6 DEF Changing
    <2>4. Refused(c) => Names' = Names
      BY <1>4
    <2> QED  BY <1>3, <1>7, <2>1, <2>2, <2>3, <2>4 DEF ListRight, Changing
  <1>12. PreviewRight => PreviewRight'
    BY <1>3, <1>10 DEF PreviewRight
  <1>13. ASSUME PreviewAsked PROVE PreviewAsked'
    <2> SUFFICES ASSUME Settled', dati'.preview = NoPreview, dati'.selected \in Names'
                 PROVE  \E e \in calls' : \/ e.kind = "list" /\ e.keep
                                          \/ e.kind = "get" /\ e.name = dati'.selected /\ e.answer # Refusal
      BY DEF PreviewAsked
    <2>1. dati.preview = NoPreview /\ Settled /\ dati.selected \in Names
      BY <1>3, <1>10
    <2>2. PICK d \in calls : \/ d.kind = "list" /\ d.keep
                             \/ d.kind = "get" /\ d.name = dati.selected /\ d.answer # Refusal
      BY <1>13, <2>1 DEF PreviewAsked
    <2>3. d.kind \notin Changing /\ d # c /\ after[d] \in calls'
      BY <1>1, <1>2, <2>2 DEF Changing
    <2>4. ASSUME d.kind = "get", d.name = dati.selected, d.answer # Refusal
          PROVE  after[d].answer # Refusal
      <3>1. AnswerTo(d) # Refusal
        BY <1>5, <2>1, <2>4, AnswerFacts, AnswersDiffer
      <3> QED  BY <1>2, <2>3, <2>4, <3>1
    <2> QED  BY <1>2, <1>3, <2>2, <2>3, <2>4
  <1>14. ASSUME CallsGrouped, PreviewRight PROVE PreviewMoves'
    <2>1. c \in Sent(Changing)
      BY <1>1 DEF Sent
    <2>2. AgreedTo("rename") = {}
      <3>1. ASSUME NEW x \in AgreedTo("rename") PROVE FALSE
        <4>1. x \in Sent({"rename", "delete"}) /\ x.answer = Agreed
          BY <3>1 DEF AgreedTo, Sent
        <4>2. x = c
          BY <1>14, <2>1, <4>1 DEF CallsGrouped
        <4> QED  BY <1>1, <4>1, <4>2, AnswersDiffer
      <3> QED  BY <3>1
    <2>3. ASSUME c.kind = "rename" PROVE Sent({"upload"}) = {}
      <3>1. ASSUME NEW x \in Sent({"upload"}) PROVE FALSE
        <4>1. x \in Sent(Changing) /\ c \in Sent({"rename", "delete"}) /\ x.kind = "upload"
          BY <1>1, <2>3, <3>1 DEF Sent, Changing
        <4>2. x = c
          BY <1>14, <4>1 DEF CallsGrouped
        <4> QED  BY <2>3, <4>1, <4>2
      <3> QED  BY <3>1
    <2>4. ASSUME NEW x \in AgreedTo("rename")', dati'.selected = x.name
          PROVE  dati'.preview \in {NoPreview, dataDir'[x.to]}
      <3>1. x = cc /\ c.kind = "rename" /\ ~Refused(c)
        BY <1>6, <2>2 DEF Changing
      <3>2. c.name \in Names /\ dati.selected = c.name
        BY <1>1, <1>3, <1>5, <2>4, <3>1, AnswerFacts
      <3>3. Settled
        BY <2>2, <2>3, <3>1 DEF Settled
      <3>4. dati.preview \in {NoPreview, dataDir[c.name]}
        BY <1>14, <3>2, <3>3 DEF PreviewRight
      <3>5. dataDir'[x.to] = dataDir[c.name]
        BY <1>1, <1>4, <3>1
      <3> QED  BY <1>3, <3>4, <3>5
    <2> QED  BY <2>4 DEF PreviewMoves
  <1> QED  BY <1>8, <1>11, <1>12, <1>13, <1>14

LEMMA ServeKeeps ==
  ASSUME DataInv, NEW c \in calls,
         NEW before \in SUBSET {d \in calls : d.kind \notin Changing /\ d.answer = Pending},
         Serve(c, before)
  PROVE  DataInv'
  <1>1. DataTyped
    BY DEF DataInv
  <1>2. DataTyped' /\ \E cc, after : MadeByEngine(c, cc, before, after)
    BY <1>1, ServeFacts
  <1>3. PICK cc, after : MadeByEngine(c, cc, before, after)
    BY <1>2
  <1>4. dati' = dati /\ astray' = astray
    BY <1>3 DEF MadeByEngine
  <1>5. CallsGrouped /\ PageGrouped /\ AppliedOnDisk => CallsGrouped' /\ PageGrouped' /\ AppliedOnDisk'
    BY <1>1, <1>3, ServeGrouped
  <1>6. CallsGrouped /\ ReadsRight => ReadsRight'
    BY <1>1, <1>3, ServeReads
  <1>7. /\ SelectionRight => SelectionRight'
        /\ CallsGrouped /\ ListRight /\ PreviewRight /\ PreviewAsked /\ PreviewMoves =>
             ListRight' /\ PreviewRight' /\ PreviewAsked' /\ PreviewMoves'
    BY <1>1, <1>3, ServePage
  <1>8. ChangesRight'
    BY <1>4, <1>5, <1>6 DEF DataInv, ChangesRight
  <1>9. PageRight'
    BY <1>4, <1>7 DEF DataInv, PageRight, ChangesRight, Straight
  <1> QED  BY <1>2, <1>4, <1>7, <1>8, <1>9 DEF DataInv

(* The answers of the changes. *)

\* A change leaves: what remains in flight, and what is known of it.
LEMMA ChangeLeaves ==
  ASSUME DataTyped, NEW c \in calls, c.kind \in Changing,
         NEW made, \A m \in made : FreshRead(m) /\ CallTyped(m),
         calls' = (calls \ {c}) \cup made, dataDir' = dataDir,
         SpentTyped', dataSpent'.changes = dataSpent.changes
  PROVE  /\ \A d \in calls' : CallTyped(d)'
         /\ CallsGrouped /\ AppliedOnDisk /\ ReadsRight
              => CallsGrouped' /\ AppliedOnDisk' /\ ReadsRight'
         /\ Sent(Changing)' = Sent(Changing) \ {c}
         /\ \A kind \in Changing : Sent({kind})' = Sent({kind}) \ {c}
                                   /\ AgreedTo(kind)' = AgreedTo(kind) \ {c}
         /\ \A d \in calls \ {c} : d \in calls'
         /\ \A m \in made : m \in calls'
         /\ Sent({"list"}) # {} => Sent({"list"})' # {}
         /\ Names' = Names
  <1>1. PICK gone \in SUBSET calls : gone = {c}
    OBVIOUS
  <1>2. (\A x, y \in gone : x = y) /\ calls' = (calls \ gone) \cup made
    BY <1>1
  <1>3. /\ \A d \in calls' : CallTyped(d)'
        /\ CallsGrouped => CallsGrouped'
        /\ Sent(Changing)' = Sent(Changing) \ gone
        /\ \A kind \in Changing : Sent({kind})' = Sent({kind}) \ gone
                                  /\ AgreedTo(kind)' = AgreedTo(kind) \ gone
        /\ AppliedOnDisk => AppliedOnDisk'
        /\ CallsGrouped /\ ReadsRight => ReadsRight'
        /\ \A d \in calls \ gone : d \in calls'
        /\ \A m \in made : m \in calls'
    BY <1>2, Reading
  <1>4. Sent({"list"}) # {} => Sent({"list"})' # {}
    BY DEF Sent, Changing
  <1>5. Names' = Names
    BY DEF Names
  <1> QED  BY <1>1, <1>3, <1>4, <1>5

LEMMA ListFresh ==
  ASSUME NEW keep \in BOOLEAN, NEW m, m = List(keep)
  PROVE  FreshRead(m) /\ CallTyped(m) /\ m.kind = "list" /\ m.keep = keep
  <1>1. CallTyped(m)
    BY ListMade
  <1>2. m = [n |-> 0, kind |-> "list", name |-> NoName, to |-> NoName, keep |-> keep,
             asked |-> NoName, old |-> {}, answer |-> Pending]
    BY ListMade
  <1>3. m.kind = "list" /\ m.n = 0 /\ m.keep = keep /\ m.old = {} /\ m.answer = Pending
    BY <1>2
  <1> QED  BY <1>1, <1>3 DEF FreshRead

\* A rename or a deletion is the only change in flight; an upload leaves its group.
LEMMA OneLess ==
  ASSUME DataTyped, CallsGrouped, PageGrouped, NEW c \in calls, c.kind \in Changing,
         \A kind \in Changing : Sent({kind})' = Sent({kind}) \ {c},
         Sent(Changing)' = Sent(Changing) \ {c}
  PROVE  /\ c.kind \in {"rename", "delete"} =>
              /\ Sent(Changing)' = {} /\ UploadNames' = UploadNames
              /\ Sent({"upload"}) = {} /\ dati.left = 0
              /\ AgreedTo("rename") \subseteq {c} /\ AgreedTo("delete") \subseteq {c}
         /\ c.kind = "upload" =>
              /\ Sent({"rename"}) = {} /\ AgreedTo("rename") = {}
              /\ Cardinality(UploadNames') = dati.left - 1
              /\ dati.left \in Nat \ {0}
              /\ dati.left > 1 => Sent({"upload"})' # {}
              /\ dati.left <= 1 => Sent(Changing)' = {}
  <1>1. c \in Sent(Changing)
    BY DEF Sent
  <1>2. ASSUME c.kind \in {"rename", "delete"}
        PROVE  /\ Sent(Changing)' = {} /\ UploadNames' = UploadNames
               /\ Sent({"upload"}) = {} /\ dati.left = 0
               /\ AgreedTo("rename") \subseteq {c} /\ AgreedTo("delete") \subseteq {c}
    <2>1. \A x \in Sent(Changing) : x = c
      BY <1>2 DEF CallsGrouped, Sent
    <2>2. Sent({"upload"}) = {}
      <3>1. ASSUME NEW x \in Sent({"upload"}) PROVE FALSE
        BY <1>2, <2>1, <3>1 DEF Sent, Changing
      <3> QED  BY <3>1
    <2>3. UploadNames = {} /\ UploadNames' = {}
      BY <2>2 DEF UploadNames, Changing
    <2>4. dati.left = 0
      BY <2>3, FS_EmptySet DEF PageGrouped
    <2>5. \A kind \in Changing : AgreedTo(kind) \subseteq {c}
      BY <2>1 DEF AgreedTo, Sent
    <2> QED  BY <2>1, <2>2, <2>3, <2>4, <2>5 DEF Changing
  <1>3. ASSUME c.kind = "upload"
        PROVE  /\ Sent({"rename"}) = {} /\ AgreedTo("rename") = {}
               /\ Cardinality(UploadNames') = dati.left - 1
               /\ dati.left \in Nat \ {0}
               /\ dati.left > 1 => Sent({"upload"})' # {}
               /\ dati.left <= 1 => Sent(Changing)' = {}
    <2>1. ASSUME NEW x \in Sent({"rename", "delete"}) PROVE FALSE
      <3>1. x = c
        BY <1>1, <2>1 DEF CallsGrouped
      <3> QED  BY <1>3, <2>1, <3>1 DEF Sent
    <2>2. Sent({"rename"}) = {} /\ AgreedTo("rename") = {}
      BY <2>1 DEF Sent, AgreedTo
    <2>3. c \in Sent({"upload"}) /\ Sent({"upload"})' = Sent({"upload"}) \ {c}
      BY <1>3 DEF Sent, Changing
    <2>4. UploadNames' = UploadNames \ {c.name} /\ c.name \in UploadNames
      <3>1. \A x \in Sent({"upload"}) : x.name = c.name <=> x = c
        BY <2>3 DEF CallsGrouped
      <3>2. UploadNames' = {x.name : x \in Sent({"upload"}) \ {c}}
        BY <2>3 DEF UploadNames
      <3> QED  BY <2>3, <3>1, <3>2 DEF UploadNames
    <2>5. IsFiniteSet(UploadNames)
      <3>1. UploadNames \subseteq FileNames
        BY DEF UploadNames, Sent, DataTyped, CallTyped, Changing
      <3> QED  BY <3>1, FS_Subset, DataAssumption
    <2>6. /\ Cardinality(UploadNames') = Cardinality(UploadNames) - 1
          /\ Cardinality(UploadNames') \in Nat /\ Cardinality(UploadNames) \in Nat
      <3>1. IsFiniteSet(UploadNames')
        BY <2>4, <2>5, FS_Subset
      <3> QED  BY <2>4, <2>5, <3>1, FS_RemoveElement, FS_CardinalityType
    <2>7. Cardinality(UploadNames') = dati.left - 1 /\ dati.left \in Nat \ {0}
      BY <2>6 DEF PageGrouped
    <2>8. ASSUME dati.left > 1 PROVE Sent({"upload"})' # {}
      <3>1. UploadNames' # {}
        BY <2>7, <2>8, FS_EmptySet
      <3> QED  BY <3>1 DEF UploadNames
    <2>9. ASSUME dati.left <= 1 PROVE Sent(Changing)' = {}
      <3>1. Cardinality(UploadNames') = 0
        BY <2>7, <2>9
      <3>2. UploadNames' = {}
        BY <2>4, <2>5, <3>1, FS_Subset, FS_EmptySet
      <3>3. Sent({"upload"})' = {}
        <4>1. ASSUME NEW x \in Sent({"upload"})' PROVE x.name \in UploadNames'
          BY DEF UploadNames
        <4> QED  BY <3>2, <4>1
      <3>4. Sent({"upload"}) \subseteq {c}
        BY <2>3, <3>3
      <3>5. ASSUME NEW x \in Sent(Changing) PROVE x = c
        <4>1. x \in Sent({"upload"})
          BY <2>1, <3>5 DEF Sent, Changing
        <4> QED  BY <3>4, <4>1
      <3> QED  BY <3>5
    <2> QED  BY <2>2, <2>7, <2>8, <2>9
  <1> QED  BY <1>2, <1>3

LEMMA RenamedKeeps ==
  ASSUME DataInv, NEW c \in calls, c.kind = "rename", c.answer = Agreed, FileRenamed(c),
         astray' = [astray EXCEPT !.crossed = astray.crossed \/ dati.selected # c.name]
  PROVE  DataInv'
  <1>1. /\ dati' = [dati EXCEPT !.busy = FALSE, !.renaming = FALSE, !.selected = c.to]
        /\ calls' = (calls \ {c}) \cup {List(TRUE)} /\ dataDir' = dataDir /\ SpendData({})
    BY DEF FileRenamed, Leaves
  <1>2. DataTyped /\ CallTyped(c) /\ c.kind \in Changing /\ c.to \in Selectable
    BY DEF DataInv, DataTyped, CallTyped, Changing
  <1>3. SpentTyped' /\ dataSpent'.changes = dataSpent.changes
    BY <1>1, <1>2, Spending DEF DataTyped, SpentTyped
  <1>4. /\ PageTyped' /\ dati'.listed = dati.listed /\ dati'.selected = c.to
        /\ dati'.preview = dati.preview /\ dati'.left = dati.left
        /\ ~dati'.renaming /\ dati'.confirming = dati.confirming
    BY <1>1, <1>2 DEF DataTyped, PageTyped
  <1>5. /\ AstrayTyped' /\ astray'.crossed = (astray.crossed \/ dati.selected # c.name)
        /\ astray'.late = astray.late /\ astray'.failed = astray.failed /\ astray'.asked = astray.asked
    BY <1>2 DEF DataTyped, AstrayTyped
  <1>6. PICK made : made = {List(TRUE)}
    OBVIOUS
  <1>7. \A m \in made : FreshRead(m) /\ CallTyped(m) /\ m.kind = "list" /\ m.keep
    BY <1>6, ListFresh
  <1>8. calls' = (calls \ {c}) \cup made /\ made # {}
    BY <1>1, <1>6
  <1>9. /\ \A d \in calls' : CallTyped(d)'
        /\ CallsGrouped /\ AppliedOnDisk /\ ReadsRight
             => CallsGrouped' /\ AppliedOnDisk' /\ ReadsRight'
        /\ Sent(Changing)' = Sent(Changing) \ {c}
        /\ \A kind \in Changing : Sent({kind})' = Sent({kind}) \ {c}
                                  /\ AgreedTo(kind)' = AgreedTo(kind) \ {c}
        /\ \A m \in made : m \in calls'
    BY <1>1, <1>2, <1>3, <1>7, <1>8, ChangeLeaves
  <1>10. DataTyped'
    BY <1>1, <1>2, <1>3, <1>4, <1>5, <1>9 DEF DataTyped
  <1>11. PICK m \in calls' : m.kind = "list" /\ m.keep
    BY <1>7, <1>8, <1>9
  <1>12. Sent({"list"})' # {}
    BY <1>11 DEF Sent
  <1>13. ASSUME ~astray.crossed
         PROVE  /\ CallsGrouped' /\ AppliedOnDisk' /\ ReadsRight' /\ PageGrouped'
                /\ c \in AgreedTo("rename") /\ AgreedTo("rename")' = {}
    <2>1. CallsGrouped /\ PageGrouped /\ AppliedOnDisk /\ ReadsRight
      BY <1>13 DEF DataInv, ChangesRight
    <2>2. /\ Sent(Changing)' = {} /\ UploadNames' = UploadNames
          /\ AgreedTo("rename") \subseteq {c}
      BY <1>2, <1>9, <2>1, OneLess
    <2>3. c \in Sent({"rename"}) /\ c \in AgreedTo("rename")
      BY DEF Sent, AgreedTo
    <2>4. ~dati.confirming /\ dati.left = Cardinality(UploadNames)
      BY <2>1, <2>3 DEF PageGrouped
    <2>5. Sent({"rename"})' = {} /\ AgreedTo("rename")' = {}
      BY <1>9, <2>2 DEF Sent, Changing
    <2>6. PageGrouped'
      BY <1>4, <2>2, <2>4, <2>5 DEF PageGrouped
    <2> QED  BY <1>9, <2>1, <2>3, <2>5, <2>6
  <1>14. ChangesRight'
    BY <1>5, <1>13 DEF ChangesRight
  <1>15. SelectionRight' /\ ListRight'
    BY <1>12 DEF SelectionRight, ListRight
  <1>16. PreviewAsked'
    BY <1>11 DEF PreviewAsked
  <1>17. ASSUME Straight', ~astray'.failed PROVE PreviewRight' /\ PreviewMoves'
    <2>1. ~astray.crossed /\ dati.selected = c.name /\ Straight /\ ~astray.failed
      BY <1>5, <1>17 DEF Straight
    <2>2. dati.preview \in {NoPreview, dataDir[c.to]}
      BY <1>13, <2>1 DEF DataInv, PageRight, PreviewMoves
    <2>3. PreviewRight'
      BY <1>1, <1>4, <2>2 DEF PreviewRight
    <2> QED  BY <1>13, <2>1, <2>3 DEF PreviewMoves
  <1>18. PageRight'
    BY <1>15, <1>16, <1>17 DEF PageRight
  <1> QED  BY <1>4, <1>10, <1>14, <1>15, <1>18 DEF DataInv

LEMMA DeletedKeeps ==
  ASSUME DataInv, NEW c \in calls, c.kind = "delete", c.answer = Agreed, FileDeleted(c),
         astray' = astray
  PROVE  DataInv'
  <1>1. /\ dati' = [dati EXCEPT !.busy = FALSE, !.confirming = FALSE]
        /\ calls' = (calls \ {c}) \cup {List(FALSE)} /\ dataDir' = dataDir /\ SpendData({})
    BY DEF FileDeleted, Leaves
  <1>2. DataTyped /\ CallTyped(c) /\ c.kind \in Changing
    BY DEF DataInv, DataTyped, CallTyped, Changing
  <1>3. SpentTyped' /\ dataSpent'.changes = dataSpent.changes
    BY <1>1, <1>2, Spending DEF DataTyped, SpentTyped
  <1>4. /\ PageTyped' /\ dati'.listed = dati.listed /\ dati'.selected = dati.selected
        /\ dati'.preview = dati.preview /\ dati'.left = dati.left
        /\ ~dati'.confirming /\ dati'.renaming = dati.renaming
    BY <1>1, <1>2 DEF DataTyped, PageTyped
  <1>5. AstrayTyped'
    BY <1>2 DEF DataTyped, AstrayTyped
  <1>6. PICK made : made = {List(FALSE)}
    OBVIOUS
  <1>7. \A m \in made : FreshRead(m) /\ CallTyped(m) /\ m.kind = "list"
    BY <1>6, ListFresh
  <1>8. calls' = (calls \ {c}) \cup made /\ made # {}
    BY <1>1, <1>6
  <1>9. /\ \A d \in calls' : CallTyped(d)'
        /\ CallsGrouped /\ AppliedOnDisk /\ ReadsRight
             => CallsGrouped' /\ AppliedOnDisk' /\ ReadsRight'
        /\ Sent(Changing)' = Sent(Changing) \ {c}
        /\ \A kind \in Changing : Sent({kind})' = Sent({kind}) \ {c}
                                  /\ AgreedTo(kind)' = AgreedTo(kind) \ {c}
        /\ \A d \in calls \ {c} : d \in calls'
        /\ \A m \in made : m \in calls'
    BY <1>1, <1>2, <1>3, <1>7, <1>8, ChangeLeaves
  <1>10. DataTyped'
    BY <1>1, <1>2, <1>3, <1>4, <1>5, <1>9 DEF DataTyped
  <1>11. Sent({"list"})' # {}
    BY <1>7, <1>8, <1>9 DEF Sent
  <1>12. ASSUME ~astray.crossed
         PROVE  /\ CallsGrouped' /\ AppliedOnDisk' /\ ReadsRight' /\ PageGrouped'
                /\ Settled /\ AgreedTo("rename")' = {}
    <2>1. CallsGrouped /\ PageGrouped /\ AppliedOnDisk /\ ReadsRight
      BY <1>12 DEF DataInv, ChangesRight
    <2>2. /\ Sent(Changing)' = {} /\ UploadNames' = UploadNames /\ Sent({"upload"}) = {}
          /\ AgreedTo("rename") \subseteq {c}
      BY <1>2, <1>9, <2>1, OneLess
    <2>3. c \notin AgreedTo("rename")
      BY DEF Sent, AgreedTo
    <2>4. AgreedTo("rename") = {} /\ AgreedTo("rename")' = {}
      BY <1>9, <2>2, <2>3 DEF Changing
    <2>5. Sent({"rename"})' = {}
      BY <1>9, <2>2 DEF Sent, Changing
    <2>6. PageGrouped'
      BY <1>4, <2>1, <2>2, <2>5 DEF PageGrouped
    <2> QED  BY <1>9, <2>1, <2>2, <2>4, <2>6 DEF Settled
  <1>13. ChangesRight'
    BY <1>12 DEF ChangesRight
  <1>14. SelectionRight' /\ ListRight'
    BY <1>11 DEF SelectionRight, ListRight
  <1>15. ASSUME Straight, ~astray.failed PROVE PreviewRight' /\ PreviewAsked' /\ PreviewMoves'
    <2>1. Settled /\ PreviewRight /\ PreviewAsked /\ AgreedTo("rename")' = {}
      BY <1>12, <1>15 DEF DataInv, PageRight, Straight
    <2>2. PreviewRight' /\ PreviewMoves'
      BY <1>1, <1>4, <2>1 DEF PreviewRight, PreviewMoves, Names
    <2>3. PreviewAsked'
      BY <1>1, <1>4, <1>9, <2>1 DEF PreviewAsked, Names
    <2> QED  BY <2>2, <2>3
  <1>16. PageRight'
    BY <1>14, <1>15 DEF PageRight, Straight
  <1> QED  BY <1>4, <1>10, <1>13, <1>14, <1>16 DEF DataInv

LEMMA UploadedKeeps ==
  ASSUME DataInv, NEW c \in calls, c.kind = "upload", NEW ok \in BOOLEAN, NEW what,
         "changes" \notin what, FileUploaded(c, ok, what), AstrayTyped',
         astray'.crossed = astray.crossed, astray'.late = astray.late, astray'.asked = astray.asked,
         IF ok THEN astray'.failed = astray.failed ELSE astray'.failed
  PROVE  DataInv'
  <1> DEFINE closes == ~dati'.renaming /\ ~dati'.confirming
             same == dati'.renaming = dati.renaming /\ dati'.confirming = dati.confirming
                     /\ dati'.selected = dati.selected /\ dati'.preview = dati.preview
  <1>1. DataTyped /\ CallTyped(c) /\ c.kind \in Changing /\ c.name \in FileNames
    BY DEF DataInv, DataTyped, CallTyped, Changing
  <1>2. c.name # NoName /\ c.name \in Selectable /\ NoName \in Selectable
    BY <1>1, DataAssumption DEF NoName, Selectable
  <1>3. PICK last : last = IF ok THEN c.name ELSE dati.last
    OBVIOUS
  <1>4. last \in Selectable /\ (ok => last # NoName)
    BY <1>1, <1>2, <1>3 DEF DataTyped, PageTyped
  <1>23. PICK less : less = dati.left - 1
    OBVIOUS
  <1>24. less \in Int /\ dati.left \in Int
    BY <1>1, <1>23 DEF DataTyped, PageTyped
  <1>5. PICK p : p = [dati EXCEPT !.left = less, !.last = last]
    OBVIOUS
  <1>6. /\ p \in [listed : SUBSET FileNames, selected : Selectable, preview : StoredFile \cup {NoPreview},
                  renaming : BOOLEAN, confirming : BOOLEAN, busy : BOOLEAN, left : Int, last : Selectable]
        /\ p.listed = dati.listed /\ p.selected = dati.selected /\ p.preview = dati.preview
        /\ p.renaming = dati.renaming /\ p.confirming = dati.confirming /\ p.busy = dati.busy
        /\ p.left = less
    BY <1>1, <1>24, <1>4, <1>5 DEF DataTyped, PageTyped
  <1>7. IF dati.left > 1 THEN Leaves(c, p, {}, what)
        ELSE Leaves(c, IF last = NoName THEN [p EXCEPT !.busy = FALSE]
                       ELSE [p EXCEPT !.busy = FALSE, !.selected = last, !.preview = NoPreview,
                                      !.renaming = FALSE, !.confirming = FALSE, !.last = NoName],
                    {List(TRUE)}, what)
    BY <1>3, <1>5, <1>23 DEF FileUploaded
  <1>8. /\ PageTyped' /\ dati'.listed = dati.listed /\ dati'.left = less
        /\ dati.left > 1 => same /\ dati'.busy = dati.busy
        /\ ~(dati.left > 1) => closes \/ (last = NoName /\ same)
        /\ ~(dati.left > 1) /\ ok => closes /\ dati'.preview = NoPreview
    <2>1. CASE dati.left > 1
      <3>1. dati' = p
        BY <1>7, <2>1 DEF Leaves
      <3>2. PageTyped'
        BY <1>6, <3>1 DEF PageTyped
      <3> QED  BY <1>6, <2>1, <3>1, <3>2
    <2>2. CASE ~(dati.left > 1) /\ last = NoName
      <3>1. dati' = [p EXCEPT !.busy = FALSE]
        BY <1>7, <2>2 DEF Leaves
      <3>2. PageTyped'
        BY <1>6, <3>1 DEF PageTyped
      <3>3. /\ dati'.listed = p.listed /\ dati'.left = p.left /\ dati'.renaming = p.renaming
            /\ dati'.confirming = p.confirming /\ dati'.selected = p.selected
            /\ dati'.preview = p.preview
        BY <1>6, <3>1
      <3> QED  BY <1>4, <1>6, <2>2, <3>2, <3>3
    <2>3. CASE ~(dati.left > 1) /\ last # NoName
      <3>1. dati' = [p EXCEPT !.busy = FALSE, !.selected = last, !.preview = NoPreview,
                              !.renaming = FALSE, !.confirming = FALSE, !.last = NoName]
        BY <1>7, <2>3 DEF Leaves
      <3>2. PageTyped'
        BY <1>2, <1>4, <1>6, <3>1 DEF PageTyped
      <3>3. /\ dati'.listed = p.listed /\ dati'.left = p.left /\ ~dati'.renaming
            /\ ~dati'.confirming /\ dati'.preview = NoPreview
        BY <1>6, <3>1
      <3> QED  BY <1>6, <2>3, <3>2, <3>3
    <2> QED  BY <2>1, <2>2, <2>3
  <1>9. PICK made : made = IF dati.left > 1 THEN {} ELSE {List(TRUE)}
    OBVIOUS
  <1>10. \A m \in made : FreshRead(m) /\ CallTyped(m) /\ m.kind = "list" /\ m.keep
    BY <1>9, ListFresh
  <1>11. calls' = (calls \ {c}) \cup made /\ dataDir' = dataDir /\ SpendData(what)
    BY <1>7, <1>9 DEF Leaves
  <1>12. SpentTyped' /\ dataSpent'.changes = dataSpent.changes
    BY <1>1, <1>11, Spending DEF DataTyped, SpentTyped
  <1>13. /\ \A d \in calls' : CallTyped(d)'
         /\ CallsGrouped /\ AppliedOnDisk /\ ReadsRight
              => CallsGrouped' /\ AppliedOnDisk' /\ ReadsRight'
         /\ Sent(Changing)' = Sent(Changing) \ {c}
         /\ \A kind \in Changing : Sent({kind})' = Sent({kind}) \ {c}
                                   /\ AgreedTo(kind)' = AgreedTo(kind) \ {c}
         /\ \A m \in made : m \in calls'
         /\ Sent({"list"}) # {} => Sent({"list"})' # {}
         /\ Names' = Names
    BY <1>1, <1>10, <1>11, <1>12, ChangeLeaves
  <1>14. DataTyped'
    BY <1>1, <1>8, <1>11, <1>12, <1>13 DEF DataTyped
  <1>15. ~(dati'.renaming /\ dati'.confirming)
    BY <1>8 DEF DataInv
  <1>16. ~(dati.left > 1) => \E m \in calls' : m.kind = "list" /\ m.keep
    BY <1>9, <1>10, <1>13
  <1>17. ~(dati.left > 1) => Sent({"list"})' # {}
    BY <1>16 DEF Sent
  <1>18. ASSUME ~astray.crossed
         PROVE  /\ CallsGrouped' /\ AppliedOnDisk' /\ ReadsRight' /\ PageGrouped'
                /\ AgreedTo("rename")' = {} /\ (dati.left > 1 => Sent({"upload"})' # {})
    <2>1. CallsGrouped /\ PageGrouped /\ AppliedOnDisk /\ ReadsRight
      BY <1>18 DEF DataInv, ChangesRight
    <2>2. /\ Sent({"rename"}) = {} /\ AgreedTo("rename") = {}
          /\ Cardinality(UploadNames') = dati.left - 1
          /\ dati.left > 1 => Sent({"upload"})' # {}
          /\ dati.left <= 1 => Sent(Changing)' = {}
      BY <1>1, <1>13, <2>1, OneLess
    <2>3. dati.busy /\ (dati.renaming \/ dati.confirming => astray.asked = dati.selected)
      <3>1. c \in Sent(Changing)
        BY <1>1 DEF Sent
      <3> QED  BY <2>1, <3>1 DEF PageGrouped
    <2>4. Sent({"rename"})' = {} /\ AgreedTo("rename")' = {}
      BY <1>13, <2>2 DEF Changing
    <2>5. dati.left \in Int
      BY <1>1 DEF DataTyped, PageTyped
    <2>6. Sent(Changing)' # {} => dati'.busy
      <3>1. dati.left > 1 => dati'.busy = dati.busy
        BY <1>8
      <3>2. Sent(Changing)' # {} => dati.left > 1
        BY <2>2, <2>5
      <3> QED  BY <2>3, <3>1, <3>2, Zenon
    <2>7. dati'.renaming \/ dati'.confirming => astray'.asked = dati'.selected
      BY <1>8, <2>3
    <2>8. PageGrouped'
      BY <1>8, <1>23, <2>2, <2>4, <2>6, <2>7 DEF PageGrouped
    <2> QED  BY <1>13, <2>1, <2>2, <2>4, <2>8
  <1>19. ChangesRight'
    BY <1>18 DEF ChangesRight
  <1>20. ASSUME ok, ~astray.failed PROVE SelectionRight'
    <2>1. CASE dati.left > 1
      <3>1. SelectionRight
        BY <1>20 DEF DataInv
      <3> QED  BY <1>8, <1>13, <2>1, <3>1 DEF SelectionRight
    <2>2. CASE ~(dati.left > 1)
      BY <1>17, <2>2 DEF SelectionRight
    <2> QED  BY <2>1, <2>2
  <1>21. ASSUME ok, Straight PROVE ListRight' /\ PreviewRight' /\ PreviewAsked' /\ PreviewMoves'
    <2>1. AgreedTo("rename")' = {} /\ (dati.left > 1 => Sent({"upload"})' # {})
      BY <1>18, <1>21 DEF Straight
    <2>2. dati.left > 1 => ~Settled'
      BY <2>1 DEF Settled
    <2>3. ListRight'
      BY <1>17, <2>1 DEF ListRight
    <2>4. PreviewRight'
      BY <1>8, <1>21, <2>2 DEF PreviewRight
    <2>5. PreviewAsked'
      BY <1>16, <2>2 DEF PreviewAsked
    <2> QED  BY <2>1, <2>3, <2>4, <2>5 DEF PreviewMoves
  <1>22. PageRight'
    BY <1>21 DEF PageRight, Straight
  <1> QED  BY <1>14, <1>15, <1>19, <1>20, <1>22 DEF DataInv

LEMMA ChangeDoneKeeps ==
  ASSUME DataInv, NEW c \in calls, DataChangeDone(c)
  PROVE  DataInv'
  <1>1. /\ c.kind \in Changing /\ c.answer.status = "ok"
        /\ astray' = [astray EXCEPT !.crossed = astray.crossed
                                      \/ (c.kind = "rename" /\ dati.selected # c.name)]
        /\ \/ c.kind = "upload" /\ FileUploaded(c, TRUE, {})
           \/ c.kind = "rename" /\ FileRenamed(c)
           \/ c.kind = "delete" /\ FileDeleted(c)
    BY DEF DataChangeDone
  <1>2. c.answer = Agreed
    BY <1>1, AnswersDiffer DEF DataInv, DataTyped, CallTyped
  <1>3. AstrayTyped
    BY DEF DataInv, DataTyped
  <1>4. CASE c.kind = "upload" /\ FileUploaded(c, TRUE, {})
    <2>1. /\ AstrayTyped' /\ astray'.crossed = astray.crossed /\ astray'.late = astray.late
          /\ astray'.asked = astray.asked /\ astray'.failed = astray.failed
      BY <1>1, <1>3, <1>4 DEF AstrayTyped
    <2>2. PICK what : what = {} /\ FileUploaded(c, TRUE, what)
      BY <1>4
    <2>3. "changes" \notin what
      BY <2>2
    <2> QED  BY <1>4, <2>1, <2>2, <2>3, UploadedKeeps
  <1>5. CASE c.kind = "rename" /\ FileRenamed(c)
    <2>1. astray' = [astray EXCEPT !.crossed = astray.crossed \/ dati.selected # c.name]
      BY <1>1, <1>5
    <2> QED  BY <1>2, <1>5, <2>1, RenamedKeeps
  <1>6. CASE c.kind = "delete" /\ FileDeleted(c)
    <2>1. astray' = astray
      BY <1>1, <1>3, <1>6 DEF AstrayTyped
    <2> QED  BY <1>2, <1>6, <2>1, DeletedKeeps
  <1> QED  BY <1>1, <1>4, <1>5, <1>6

LEMMA CallFailsKeeps ==
  ASSUME DataInv, NEW c \in calls, CallFails(c)
  PROVE  DataInv'
  <1>1. PICK refused \in BOOLEAN : refused = (Answer(c).status = "refused")
    OBVIOUS
  <1>2. PICK what : what = IF refused THEN {} ELSE {"failures"}
    OBVIOUS
  <1>3. /\ refused = (Answer(c).status = "refused") /\ what = IF refused THEN {} ELSE {"failures"}
        /\ astray' = [astray EXCEPT !.failed = astray.failed \/ ~refused]
        /\ IF c.kind = "upload" THEN FileUploaded(c, FALSE, what)
           ELSE Leaves(c, IF c.kind \in Changing THEN [dati EXCEPT !.busy = FALSE] ELSE dati, {}, what)
    BY <1>1, <1>2 DEF CallFails
  <1>4. DataTyped /\ CallTyped(c) /\ "changes" \notin what
    BY <1>3 DEF DataInv, DataTyped
  <1>5. /\ AstrayTyped' /\ astray'.crossed = astray.crossed /\ astray'.late = astray.late
        /\ astray'.asked = astray.asked /\ astray'.failed = (astray.failed \/ ~refused)
    BY <1>3, <1>4 DEF DataTyped, AstrayTyped
  <1>6. c.kind \in Changing /\ refused => c.answer = Refusal
    BY <1>3, <1>4, AnswersDiffer DEF Answer, CallTyped
  <1>7. CASE c.kind = "upload"
    <2>1. ~refused
      BY <1>4, <1>6, <1>7 DEF CallTyped, Changing
    <2>2. PICK ok \in BOOLEAN : ~ok /\ FileUploaded(c, ok, what)
      BY <1>3, <1>7
    <2> QED  BY <1>4, <1>5, <1>7, <2>1, <2>2, UploadedKeeps
  <1>8. ASSUME c.kind # "upload"
        PROVE  /\ dati' = IF c.kind \in Changing THEN [dati EXCEPT !.busy = FALSE] ELSE dati
               /\ calls' = (calls \ {c}) \cup {} /\ dataDir' = dataDir /\ SpendData(what)
    BY <1>3, <1>8 DEF Leaves
  <1>9. ASSUME c.kind # "upload"
        PROVE  /\ SpentTyped' /\ dataSpent'.changes = dataSpent.changes
               /\ PageTyped' /\ dati'.listed = dati.listed /\ dati'.selected = dati.selected
               /\ dati'.preview = dati.preview /\ dati'.left = dati.left
               /\ dati'.renaming = dati.renaming /\ dati'.confirming = dati.confirming
               /\ c.kind \notin Changing => dati'.busy = dati.busy
    <2>1. SpentTyped' /\ dataSpent'.changes = dataSpent.changes
      BY <1>4, <1>8, <1>9, Spending DEF DataTyped, SpentTyped
    <2>2. /\ PageTyped' /\ dati'.listed = dati.listed /\ dati'.selected = dati.selected
          /\ dati'.preview = dati.preview /\ dati'.left = dati.left
          /\ dati'.renaming = dati.renaming /\ dati'.confirming = dati.confirming
          /\ c.kind \notin Changing => dati'.busy = dati.busy
      BY <1>4, <1>8, <1>9 DEF DataTyped, PageTyped
    <2> QED  BY <2>1, <2>2
  <1>10. PICK made : made = {}
    OBVIOUS
  <1>11. \A m \in made : FreshRead(m) /\ CallTyped(m)
    BY <1>10
  <1>12. CASE c.kind \in {"rename", "delete"}
    <2>1. c.kind \in Changing /\ c.kind # "upload" /\ calls' = (calls \ {c}) \cup made
      BY <1>8, <1>10, <1>12 DEF Changing
    <2>2. /\ \A d \in calls' : CallTyped(d)'
          /\ CallsGrouped /\ AppliedOnDisk /\ ReadsRight
               => CallsGrouped' /\ AppliedOnDisk' /\ ReadsRight'
          /\ Sent(Changing)' = Sent(Changing) \ {c}
          /\ \A kind \in Changing : Sent({kind})' = Sent({kind}) \ {c}
                                    /\ AgreedTo(kind)' = AgreedTo(kind) \ {c}
          /\ \A d \in calls \ {c} : d \in calls'
          /\ Sent({"list"}) # {} => Sent({"list"})' # {}
          /\ Names' = Names
      BY <1>4, <1>8, <1>9, <1>11, <2>1, ChangeLeaves
    <2>3. DataTyped'
      BY <1>4, <1>5, <1>8, <1>9, <2>1, <2>2 DEF DataTyped
    <2>4. ASSUME ~astray.crossed
          PROVE  /\ CallsGrouped' /\ AppliedOnDisk' /\ ReadsRight' /\ PageGrouped'
                 /\ AgreedTo("rename") \subseteq {c} /\ AgreedTo("delete") \subseteq {c}
                 /\ Sent({"upload"}) = {}
      <3>1. CallsGrouped /\ PageGrouped /\ AppliedOnDisk /\ ReadsRight
        BY <2>4 DEF DataInv, ChangesRight
      <3>2. /\ Sent(Changing)' = {} /\ UploadNames' = UploadNames /\ Sent({"upload"}) = {}
            /\ AgreedTo("rename") \subseteq {c} /\ AgreedTo("delete") \subseteq {c}
        BY <1>4, <1>12, <2>1, <2>2, <3>1, OneLess
      <3>3. Sent({"rename"})' = {}
        BY <2>2, <3>2 DEF Sent, Changing
      <3>4. PageGrouped'
        BY <1>5, <1>9, <2>1, <3>1, <3>2, <3>3 DEF PageGrouped
      <3> QED  BY <2>2, <3>1, <3>2, <3>4
    <2>5. ChangesRight'
      BY <1>5, <2>4 DEF ChangesRight
    <2>6. SelectionRight => SelectionRight'
      BY <1>9, <2>1, <2>2 DEF SelectionRight
    <2>7. ASSUME Straight, ~astray.failed, refused
          PROVE  ListRight' /\ PreviewRight' /\ PreviewAsked' /\ PreviewMoves'
      <3>1. ListRight /\ PreviewRight /\ PreviewAsked
        BY <2>7 DEF DataInv, PageRight
      <3>2. c \notin AgreedTo("rename") /\ c \notin AgreedTo("delete")
        BY <1>6, <2>1, <2>7, AnswersDiffer DEF AgreedTo
      <3>3. AgreedTo("rename") = {} /\ AgreedTo("delete") = {} /\ Sent({"upload"}) = {}
        BY <2>4, <2>7, <3>2 DEF Straight
      <3>4. Settled /\ AgreedTo("rename")' = {}
        BY <2>2, <3>3 DEF Settled, Changing
      <3>5. ListRight'
        BY <1>9, <2>1, <2>2, <3>1, <3>3 DEF ListRight
      <3>6. PreviewRight'
        BY <1>8, <1>9, <2>1, <2>2, <3>1, <3>4 DEF PreviewRight
      <3>7. PreviewAsked'
        BY <1>9, <1>12, <2>1, <2>2, <3>1, <3>4 DEF PreviewAsked
      <3> QED  BY <3>4, <3>5, <3>6, <3>7 DEF PreviewMoves
    <2>8. PageRight'
      BY <1>5, <2>7 DEF PageRight, Straight
    <2> QED  BY <1>5, <1>9, <2>1, <2>3, <2>5, <2>6, <2>8 DEF DataInv
  <1>13. CASE c.kind \notin Changing
    <2>1. c.kind # "upload"
      BY <1>13 DEF Changing
    <2>2. PICK gone \in SUBSET calls : gone = {c}
      OBVIOUS
    <2>3. /\ \A x, y \in gone : x = y
          /\ \A x \in gone : x.kind \notin Changing
          /\ calls' = (calls \ gone) \cup made
      BY <1>8, <1>10, <1>13, <2>1, <2>2
    <2>4. /\ \A d \in calls' : CallTyped(d)'
          /\ CallsGrouped /\ AppliedOnDisk /\ ReadsRight
               => CallsGrouped' /\ AppliedOnDisk' /\ ReadsRight'
          /\ Sent(Changing)' = Sent(Changing)
          /\ \A kind \in Changing : Sent({kind})' = Sent({kind}) /\ AgreedTo(kind)' = AgreedTo(kind)
          /\ UploadNames' = UploadNames /\ Settled' = Settled
          /\ \A d \in calls \ gone : d \in calls'
      BY <1>4, <1>8, <1>9, <1>11, <2>1, <2>3, ReadingOnly
    <2>5. DataTyped'
      BY <1>4, <1>5, <1>8, <1>9, <2>1, <2>4 DEF DataTyped
    <2>6. ChangesRight'
      <3>1. Sent({"rename"}) \subseteq Sent(Changing)
        BY DEF Sent, Changing
      <3> QED  BY <1>5, <1>9, <1>13, <2>1, <2>4, <3>1 DEF DataInv, ChangesRight, PageGrouped, Changing
    <2>7. ASSUME refused PROVE c.kind = "get" /\ Answer(c) = Refusal
      <3>1. /\ c.kind = "list" => Answer(c) \in Listing
            /\ c.kind = "get" => Answer(c) \in Detail \cup {Refusal}
        BY <1>4, <1>13, ReadBrings DEF DataTyped
      <3> QED  BY <1>3, <1>4, <1>13, <2>7, <3>1, AnswersDiffer DEF CallTyped
    <2>8. ASSUME refused PROVE Sent({"list"})' = Sent({"list"})
      BY <1>8, <2>1, <2>7, <2>8 DEF Sent
    <2>9. ASSUME refused, SelectionRight PROVE SelectionRight'
      BY <1>9, <2>1, <2>8, <2>9 DEF SelectionRight
    <2>10. ASSUME Straight, ~astray.failed, refused
           PROVE  ListRight' /\ PreviewRight' /\ PreviewAsked' /\ PreviewMoves'
      <3>1. ListRight /\ PreviewRight /\ PreviewAsked /\ PreviewMoves
        BY <2>10 DEF DataInv, PageRight
      <3>2. dataDir' = dataDir /\ Names' = Names
        BY <1>8, <2>1 DEF Names
      <3>3. ListRight'
        BY <1>9, <2>1, <2>4, <2>8, <2>10, <3>1, <3>2 DEF ListRight, Changing
      <3>4. PreviewRight' /\ PreviewMoves'
        BY <1>9, <2>1, <2>4, <3>1, <3>2 DEF PreviewRight, PreviewMoves, Changing
      <3>5. ASSUME c.name \in Names PROVE c.answer = Refusal
        <4>1. AnswerTo(c) # Refusal
          BY <1>4, <2>7, <2>10, <3>5, AnswerFacts, AnswersDiffer DEF DataTyped
        <4> QED  BY <1>4, <1>13, <2>7, <2>10, <4>1, ReadBrings DEF DataTyped
      <3>6. PreviewAsked'
        BY <1>9, <2>1, <2>2, <2>4, <2>7, <2>10, <3>1, <3>2, <3>5 DEF PreviewAsked
      <3> QED  BY <3>3, <3>4, <3>6
    <2>11. PageRight'
      BY <1>5, <2>10 DEF PageRight, Straight
    <2> QED  BY <1>5, <1>9, <2>1, <2>5, <2>6, <2>9, <2>11 DEF DataInv
  <1> QED  BY <1>7, <1>12, <1>13 DEF Changing

LEMMA DataBegins == InitData(DataFolder, Selectable) => DataInv
  <1> SUFFICES ASSUME InitData(DataFolder, Selectable) PROVE DataInv
    OBVIOUS
  <1>1. PICK s \in Selectable :
          dati = [listed |-> {}, selected |-> s, preview |-> NoPreview, renaming |-> FALSE,
                  confirming |-> FALSE, busy |-> FALSE, left |-> 0, last |-> NoName]
    BY DEF InitData
  <1>2. /\ dataDir \in DataFolder /\ calls = {List(TRUE)}
        /\ dataSpent = [changes |-> 0, selections |-> 0, forms |-> 0, failures |-> 0]
        /\ astray = [asked |-> NoName, crossed |-> FALSE, late |-> FALSE, failed |-> FALSE]
    BY DEF InitData
  <1>3. \A c \in calls : FreshRead(c) /\ CallTyped(c) /\ c.kind = "list" /\ c.keep
    BY <1>2, ListFresh
  <1>4. NoName \in Selectable
    BY DEF Selectable
  <1>5. PageTyped
    BY <1>1, <1>4 DEF PageTyped
  <1>6. SpentTyped
    BY <1>2 DEF SpentTyped
  <1>7. AstrayTyped
    BY <1>2, <1>4 DEF AstrayTyped
  <1>8. DataTyped
    BY <1>2, <1>3, <1>5, <1>6, <1>7 DEF DataTyped
  <1>9. /\ Sent(Changing) = {} /\ Sent({"upload"}) = {} /\ Sent({"rename"}) = {}
        /\ Sent({"rename", "delete"}) = {}
        /\ AgreedTo("rename") = {} /\ AgreedTo("delete") = {} /\ Sent({"list"}) # {}
    BY <1>2, <1>3 DEF Sent, AgreedTo, Changing
  <1>10. UploadNames = {} /\ Cardinality(UploadNames) = 0
    BY <1>9, FS_EmptySet DEF UploadNames
  <1>11. CallsGrouped /\ AppliedOnDisk
    BY <1>9 DEF CallsGrouped, AppliedOnDisk
  <1>12. PageGrouped
    BY <1>1, <1>9, <1>10 DEF PageGrouped
  <1>13. ReadsRight
    BY <1>3, AnswersDiffer DEF ReadsRight, FreshRead
  <1>14. SelectionRight /\ ListRight
    BY <1>9 DEF SelectionRight, ListRight
  <1>15. PreviewRight /\ PreviewMoves
    BY <1>1, <1>9 DEF PreviewRight, PreviewMoves
  <1>16. PreviewAsked
    BY <1>2, <1>3 DEF PreviewAsked
  <1>17. ~dati.renaming
    BY <1>1
  <1> QED  BY <1>8, <1>11, <1>12, <1>13, <1>14, <1>15, <1>16, <1>17 DEF DataInv, ChangesRight, PageRight

LEMMA DataStepKeeps == DataInv /\ [DataStep]_dataVars => DataInv'
  <1> SUFFICES ASSUME DataInv, [DataStep]_dataVars PROVE DataInv'
    OBVIOUS
  <1>1. ASSUME NEW f \in FileNames, SelectRow(f) PROVE DataInv'
    BY <1>1, SelectRowKeeps
  <1>2. ASSUME NEW f \in FileNames, ConfirmRename(f) PROVE DataInv'
    BY <1>2, ConfirmRenameKeeps
  <1>3. ASSUME NEW form \in {"renaming", "confirming"}, OpenForm(form) PROVE DataInv'
    BY <1>3, OpenFormKeeps
  <1>4. ASSUME CloseForm PROVE DataInv'
    BY <1>4, CloseFormKeeps
  <1>5. ASSUME ConfirmDelete PROVE DataInv'
    BY <1>5, ConfirmDeleteKeeps
  <1>6. ASSUME NEW names \in SUBSET FileNames, names # {}, UploadAll(names) PROVE DataInv'
    BY <1>6, UploadAllKeeps
  <1>7. ASSUME NEW c \in calls,
               NEW before \in SUBSET {d \in calls : d.kind \notin Changing /\ d.answer = Pending},
               Serve(c, before)
        PROVE  DataInv'
    BY <1>7, ServeKeeps
  <1>8. ASSUME NEW c \in calls, ReadList(c) PROVE DataInv'
    BY <1>8, ReadListKeeps
  <1>9. ASSUME NEW c \in calls, ReadPreview(c) PROVE DataInv'
    BY <1>9, ReadPreviewKeeps
  <1>10. ASSUME NEW c \in calls, DataChangeDone(c) PROVE DataInv'
    BY <1>10, ChangeDoneKeeps
  <1>11. ASSUME NEW c \in calls, CallFails(c) PROVE DataInv'
    BY <1>11, CallFailsKeeps
  <1>12. CASE UNCHANGED dataVars
    <2>1. /\ calls' = calls /\ dataDir' = dataDir /\ dataSpent' = dataSpent /\ dati' = dati
          /\ astray' = astray
      BY <1>12 DEF dataVars
    <2>2. /\ PageTyped' /\ SpentTyped' /\ AstrayTyped' /\ ~(dati.renaming /\ dati.confirming)
      BY <2>1 DEF DataInv, DataTyped, PageTyped, SpentTyped, AstrayTyped
    <2>3. /\ dati'.listed = dati.listed /\ dati'.selected = dati.selected
          /\ dati'.preview = dati.preview /\ dati'.busy = dati.busy /\ dati'.left = dati.left
          /\ dataSpent'.changes = dataSpent.changes
          /\ astray'.crossed = astray.crossed /\ astray'.late = astray.late
          /\ astray'.failed = astray.failed
          /\ dati'.confirming => ~dati.busy \/ dati.confirming
          /\ dati'.renaming \/ dati'.confirming => (dati.renaming \/ dati.confirming) /\ astray' = astray
          /\ ~(dati'.renaming /\ dati'.confirming)
      BY <2>1, <2>2
    <2> QED  BY <2>1, <2>2, <2>3, FormKeeps
  <1> QED  BY <1>1, <1>2, <1>3, <1>4, <1>5, <1>6, <1>7, <1>8, <1>9, <1>10, <1>11, <1>12
           DEF DataStep

LEMMA DataInvTells == DataInv => DataPageTrue
  <1> SUFFICES ASSUME DataInv PROVE DataPageTrue
    OBVIOUS
  <1>1. ChangesWhatWasAsked
    BY DEF DataInv, ChangesRight, CallsGrouped, ChangesWhatWasAsked, Sent
  <1>2. ASSUME ~Undecided PROVE Settled
    BY <1>2 DEF Undecided, Settled, Sent, AgreedTo, Changing
  <1>3. PreviewIsOfSelected
    BY <1>2 DEF DataInv, PageRight, PreviewRight, PreviewIsOfSelected
  <1>4. ASSUME Straight, ~astray.failed, calls = {}
        PROVE  /\ dati.listed = Names
               /\ dati.selected \in Names \/ (Names = {} /\ dati.selected = NoName)
               /\ dati.selected # NoName => dati.preview = dataDir[dati.selected]
    <2>1. ListRight /\ PreviewRight /\ PreviewAsked /\ SelectionRight
      BY <1>4 DEF DataInv, PageRight
    <2>2. Sent({"list"}) = {} /\ Sent({"upload"}) = {} /\ AgreedTo("rename") = {} /\ AgreedTo("delete") = {}
      BY <1>4 DEF Sent, AgreedTo
    <2>3. dati.listed = Names
      BY <2>1, <2>2 DEF ListRight
    <2>4. dati.selected \in Names \/ (Names = {} /\ dati.selected = NoName)
      BY <2>1, <2>2, <2>3 DEF SelectionRight
    <2>5. dati.selected \in Names => dati.preview = dataDir[dati.selected]
      BY <1>4, <2>1, <2>2 DEF PreviewAsked, PreviewRight, Settled
    <2> QED  BY <2>3, <2>4, <2>5
  <1>5. PageShowsDisk
    BY <1>4 DEF PageShowsDisk
  <1> QED  BY <1>1, <1>3, <1>5 DEF DataPageTrue

\* The page of the data files renames and deletes the file it was asked about, and shows what is
\* on disk, whatever selections, uploads, renames, deletions, answers and refusals come between.
THEOREM DataPageTrueHolds == DataSpec => []DataPageTrue
  <1>1. DataInv /\ [DataStep]_dataVars => DataInv'
    BY DataStepKeeps
  <1>2. DataInv => DataPageTrue
    BY DataInvTells
  <1> QED  BY DataBegins, <1>1, <1>2, PTL DEF DataSpec
===============================================================================
