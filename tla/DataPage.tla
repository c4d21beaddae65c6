------------------------------- MODULE DataPage -------------------------------
(***************************************************************************)
(* The page of the data files (mockxy-ui/.../pages/dati/dati.page.ts): the *)
(* list, the selected file with its preview, the form of the rename and    *)
(* the confirmation of the deletion, and the calls that they make, whose   *)
(* answers come in any order or not at all.                                *)
(*                                                                         *)
(* Names are ordered as in the list.  A stored file is [id, text]: an      *)
(* upload over it changes the text, a rename moves it, and a file created  *)
(* anew has an id of its own, so a preview can be told from another's.     *)
(***************************************************************************)
EXTENDS Integers, FiniteSets, FiniteSetsExt

CONSTANTS FileNames,          \* the names that files may have: numbers, as they are ordered
          NoPreview,
          DataBudget          \* bounds: [changes, selections, forms, failures, total]

StoredFile == [id : Nat, text : Nat]

ASSUME DataAssumption ==
  /\ FileNames \subseteq Nat \ {0} /\ IsFiniteSet(FileNames)
  /\ NoPreview \notin StoredFile
  /\ DataBudget \in [{"changes", "selections", "forms", "failures", "total"} -> Nat]

VARIABLES
  dataDir,    \* name -> [id, text], for the names that exist
  dati,       \* [listed, selected, preview, renaming, confirming, busy, left, last]
  calls,      \* the calls in flight: [n, kind, name, to, keep, asked, old, answer]
  dataSpent,  \* counters of changes, selections, forms and failures
  astray      \* [asked, crossed, late, failed]: the file a form was opened on; what excuses the page

dataVars == <<dataDir, dati, calls, dataSpent, astray>>

NoName == 0
Changing == {"upload", "rename", "delete"}
Pending == [status |-> "pending"]
Refusal == [status |-> "refused"]
Agreed == [status |-> "ok"]
Names == DOMAIN dataDir

-------------------------------------------------------------------------------
(* The calls that a step makes. *)

\* n tells the changes apart; two reads of the same, neither of them served, count as one.
Call(kind, name) ==
  [n |-> 0, kind |-> kind, name |-> name, to |-> NoName, keep |-> TRUE,
   asked |-> name, old |-> {}, answer |-> Pending]
List(keep) == [Call("list", NoName) EXCEPT !.keep = keep]
LoadPreview(name) == Call("get", name)

SpendData(what) ==
  /\ what # {} => MapThenSumSet(LAMBDA k : dataSpent[k], DOMAIN dataSpent) < DataBudget.total
  /\ dataSpent' = [k \in DOMAIN dataSpent |-> dataSpent[k] + IF k \in what THEN 1 ELSE 0]

\* Mutant: the confirmation stays open when another file is selected.
Selecting_KeepsAsking(p, name) ==
  IF name = p.selected THEN p
  ELSE [p EXCEPT !.selected = name, !.preview = NoPreview, !.renaming = FALSE]
\* select: a new selection closes what was open on the old one, and has no preview yet.
Selecting(p, name) ==
  IF name = p.selected THEN p
  ELSE [p EXCEPT !.selected = name, !.preview = NoPreview,
                 !.renaming = FALSE, !.confirming = FALSE]
Previews(p, q) ==
  IF q.selected \notin {p.selected, NoName} THEN {LoadPreview(q.selected)} ELSE {}

\* What may be on disk, and what a visit may have left selected.
DataFolder == UNION {[S -> StoredFile] : S \in SUBSET FileNames}
Selectable == FileNames \cup {NoName}

InitData(dirs, visits) ==
  /\ dataDir \in dirs
  /\ \E s \in visits :   \* the selection of the last visit
       dati = [listed |-> {}, selected |-> s, preview |-> NoPreview, renaming |-> FALSE,
               confirming |-> FALSE, busy |-> FALSE, left |-> 0, last |-> NoName]
  /\ calls = {List(TRUE)}
  /\ dataSpent = [changes |-> 0, selections |-> 0, forms |-> 0, failures |-> 0]
  /\ astray = [asked |-> NoName, crossed |-> FALSE, late |-> FALSE, failed |-> FALSE]

-------------------------------------------------------------------------------
(* The user. *)

Shown == dati.selected \in dati.listed   \* the panel of the selected file

SelectRow(name) ==
  /\ name \in dati.listed /\ name # dati.selected
  /\ dataSpent.selections < DataBudget.selections
  /\ dati' = Selecting(dati, name)
  /\ calls' = calls \cup Previews(dati, dati') /\ SpendData({"selections"})
  /\ UNCHANGED <<dataDir, astray>>

OpenForm(form) ==   \* startRename, askDelete: each closes the other
  /\ Shown /\ ~dati[form] /\ (form = "confirming" => ~dati.busy)
  /\ dataSpent.forms < DataBudget.forms /\ SpendData({"forms"})
  /\ dati' = [dati EXCEPT !.renaming = form = "renaming", !.confirming = form = "confirming"]
  /\ astray' = [astray EXCEPT !.asked = dati.selected]
  /\ UNCHANGED <<dataDir, calls>>
CloseForm ==
  /\ Shown /\ (dati.renaming \/ dati.confirming)
  /\ dati' = [dati EXCEPT !.renaming = FALSE, !.confirming = FALSE]
  /\ UNCHANGED <<dataDir, calls, dataSpent, astray>>

\* The page sends a change; uploads come by the button, or dropped on the page at any time.
SendChange(made, p) ==
  /\ dataSpent.changes < DataBudget.changes
  /\ dati' = [p EXCEPT !.busy = TRUE]
  /\ calls' = calls \cup {[c EXCEPT !.n = dataSpent.changes + 1] : c \in made}
  /\ SpendData({"changes"})
  /\ UNCHANGED dataDir
ConfirmRename(to) ==
  /\ Shown /\ dati.renaming /\ ~dati.busy
  /\ SendChange({[Call("rename", dati.selected) EXCEPT !.to = to, !.asked = astray.asked]}, dati)
  /\ UNCHANGED astray
ConfirmDelete ==
  /\ Shown /\ dati.confirming /\ ~dati.busy
  /\ SendChange({[Call("delete", dati.selected) EXCEPT !.asked = astray.asked]}, dati)
  /\ UNCHANGED astray
UploadAll(names) ==
  /\ dati.left = 0   \* bound: one group of uploads at a time
  /\ SendChange({Call("upload", f) : f \in names},
            [dati EXCEPT !.left = Cardinality(names), !.last = NoName])
  /\ astray' = [astray EXCEPT !.crossed = @ \/ dati.busy]

-------------------------------------------------------------------------------
(* The engine. *)

Stored(f, n) == [x \in Names \cup {f} |->
  IF x # f THEN dataDir[x]
  ELSE IF f \in Names THEN [dataDir[f] EXCEPT !.text = n] ELSE [id |-> n, text |-> n]]
FileMoved(f, to) == [x \in (Names \ {f}) \cup {to} |-> IF x = to THEN dataDir[f] ELSE dataDir[x]]
Without(f) == [x \in Names \ {f} |-> dataDir[x]]

Refused(c) ==
  \/ c.kind \in {"get", "rename", "delete"} /\ c.name \notin Names
  \/ c.kind = "rename" /\ c.to \in Names \ {c.name}
AnswerTo(c) ==
  IF Refused(c) THEN Refusal
  ELSE CASE c.kind = "list" -> [status |-> "ok", items |-> Names]
         [] c.kind = "get" -> [status |-> "ok", file |-> dataDir[c.name]]
         [] OTHER -> Agreed
DirAfter(c) ==
  IF Refused(c) THEN dataDir
  ELSE CASE c.kind = "upload" -> Stored(c.name, c.n)
         [] c.kind = "rename" -> FileMoved(c.name, c.to)
         [] c.kind = "delete" -> Without(c.name)
\* A change is made after the reads in before, which have come to the engine first; a read
\* that none finds pending is as one served when its answer comes.
ServedFirst(d, before) == IF d \in before THEN [d EXCEPT !.answer = AnswerTo(d)] ELSE d
\* What a read in flight becomes when the change n is made: it is older, if it was served.
Aged(d, n) ==
  IF d.answer # Pending /\ d.kind \notin Changing THEN [d EXCEPT !.old = @ \cup {n}] ELSE d
Serve(c, before) ==
  /\ c.kind \in Changing /\ c.answer = Pending
  /\ dataDir' = DirAfter(c)
  /\ calls' = {Aged(ServedFirst(d, before), c.n) : d \in calls \ {c}}
               \cup {[c EXCEPT !.answer = AnswerTo(c)]}
  /\ UNCHANGED <<dati, dataSpent, astray>>
Answer(c) == IF c.answer = Pending /\ c.kind \notin Changing THEN AnswerTo(c) ELSE c.answer

-------------------------------------------------------------------------------
(* The answers. *)

Leaves(c, p, made, what) ==
  /\ dati' = p /\ calls' = (calls \ {c}) \cup made /\ SpendData(what)
  /\ UNCHANGED dataDir

Undecided == \E c \in calls : c.kind \in Changing
\* A read is late when a change that the engine made after it has been answered before it.
Late(c) == \E k \in c.old : \A d \in calls : d.n # k

FirstOf(items, name) ==
  IF items = {} THEN name = NoName ELSE name \in items /\ \A x \in items : name <= x
\* reload: the selection is kept if it is still there, else it goes to the first of the list.
ListAnswered(p, c, items, first) ==
  LET q == [p EXCEPT !.listed = items] IN
    IF ~c.keep \/ q.selected \notin items THEN Selecting(q, first) ELSE q
\* Mutant: a selection that is kept keeps its preview, were there none.
Reloads_Never(c, q) == {}
\* A selection kept without a preview asks for it.
Reloads(c, q) ==
  IF c.keep /\ q.selected # NoName /\ q.preview = NoPreview THEN {LoadPreview(q.selected)} ELSE {}
ReadList(c) ==
  /\ c.kind = "list" /\ Answer(c).status = "ok"
  /\ \E first \in Selectable :
       /\ FirstOf(Answer(c).items, first)
       /\ LET q == ListAnswered(dati, c, Answer(c).items, first) IN
            Leaves(c, q, Previews(dati, q) \cup Reloads(c, q), {})
  /\ astray' = [astray EXCEPT !.late = @ \/ Late(c)]

\* Mutant: whatever comes is shown.
Previewed_Any(p, c) == [p EXCEPT !.preview = Answer(c).file]
\* loadPreview: what comes is shown if it is of the file that is selected now.
Previewed(p, c) == IF p.selected = c.name THEN [p EXCEPT !.preview = Answer(c).file] ELSE p
ReadPreview(c) ==
  /\ c.kind = "get" /\ Answer(c).status = "ok"
  /\ Leaves(c, Previewed(dati, c), {}, {})
  /\ astray' = [astray EXCEPT !.late = @ \/ Late(c)]

\* The last of a group of uploads selects the last that went well, and reloads.
FileUploaded(c, ok, what) ==
  LET last == IF ok THEN c.name ELSE dati.last
      p == [dati EXCEPT !.left = @ - 1, !.last = last]
  IN IF dati.left > 1 THEN Leaves(c, p, {}, what)
     ELSE Leaves(c, IF last = NoName THEN [p EXCEPT !.busy = FALSE]
                    ELSE [p EXCEPT !.busy = FALSE, !.selected = last, !.preview = NoPreview,
                                   !.renaming = FALSE, !.confirming = FALSE, !.last = NoName],
                 {List(TRUE)}, what)
FileRenamed(c) ==
  Leaves(c, [dati EXCEPT !.busy = FALSE, !.renaming = FALSE, !.selected = c.to], {List(TRUE)}, {})
FileDeleted(c) == Leaves(c, [dati EXCEPT !.busy = FALSE, !.confirming = FALSE], {List(FALSE)}, {})

DataChangeDone(c) ==
  /\ c.kind \in Changing /\ c.answer.status = "ok"
  /\ \/ c.kind = "upload" /\ FileUploaded(c, TRUE, {})
     \/ c.kind = "rename" /\ FileRenamed(c)
     \/ c.kind = "delete" /\ FileDeleted(c)
  /\ astray' = [astray EXCEPT !.crossed = @ \/ (c.kind = "rename" /\ dati.selected # c.name)]

\* The engine refuses, or its answer is lost, or the call never reaches it.
CallFails(c) ==
  LET refused == Answer(c).status = "refused"
      what == IF refused THEN {} ELSE {"failures"}
  IN /\ refused \/ dataSpent.failures < DataBudget.failures
     /\ astray' = [astray EXCEPT !.failed = @ \/ ~refused]
     /\ IF c.kind = "upload" THEN FileUploaded(c, FALSE, what)
        ELSE Leaves(c, IF c.kind \in Changing THEN [dati EXCEPT !.busy = FALSE] ELSE dati, {}, what)

DataStep ==
  \/ \E f \in FileNames : SelectRow(f) \/ ConfirmRename(f)
  \/ \E form \in {"renaming", "confirming"} : OpenForm(form)
  \/ CloseForm \/ ConfirmDelete
  \/ \E names \in SUBSET FileNames : names # {} /\ Cardinality(names) <= 2 /\ UploadAll(names)
  \/ \E c \in calls, before \in SUBSET {d \in calls : d.kind \notin Changing /\ d.answer = Pending} :
       Serve(c, before)
  \/ \E c \in calls : ReadList(c) \/ ReadPreview(c) \/ DataChangeDone(c) \/ CallFails(c)

DataSpec == InitData(DataFolder, Selectable) /\ [][DataStep]_dataVars

-------------------------------------------------------------------------------
Straight == ~astray.crossed /\ ~astray.late

\* The file that is renamed or deleted is the one the user opened the form on: a new
\* selection, whoever makes it, closes the form.
ChangesWhatWasAsked ==
  ~astray.crossed => \A c \in calls : c.kind \in {"rename", "delete"} => c.name = c.asked

\* Unless a call was lost, the preview under a name is what the file of that name holds,
\* whatever was selected, uploaded, renamed or deleted while it was being read.
PreviewIsOfSelected ==
  Straight /\ ~astray.failed /\ ~Undecided /\ dati.preview # NoPreview /\ dati.selected \in Names
    => dati.preview = dataDir[dati.selected]

\* When every answer has come the page shows what is on disk: the list, a selection that
\* exists, and its text, the new one after an upload over it.
PageShowsDisk ==
  Straight /\ ~astray.failed /\ calls = {} =>
    /\ dati.listed = Names
    /\ dati.selected \in Names \/ (Names = {} /\ dati.selected = NoName)
    /\ dati.selected # NoName => dati.preview = dataDir[dati.selected]

\* The page acts on what the user asked, and shows what is there.
DataPageTrue == ChangesWhatWasAsked /\ PreviewIsOfSelected /\ PageShowsDisk
===============================================================================
