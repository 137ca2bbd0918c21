------------------------------ MODULE Seeding ------------------------------
(***************************************************************************)
(* `datasync apply` and the importer run against the database that the     *)
(* administration edits at the same time.  The workflows run one of them   *)
(* at a time (concurrency groups); a run may fail at any statement, lose   *)
(* the answer of a COMMIT, or be killed.                                   *)
(***************************************************************************)
EXTENDS Importer, Content

CONSTANTS Data,             \* data directories, and
          Yaml,             \* the one whose syncs Goal speaks of
          Titles, Uploads,
          MaxId, MaxEdits, MaxTools, MaxFaults       \* bounds

VARIABLES tool, edits, tools, faults
vars == <<db, tool, edits, tools, faults>>

(* The files as they are decoded; ids are numbers from 1 on.                *)
IdNumbers == Nat \ {0}
DirectoryOK(y) ==
  /\ \A t \in Tables : IsFiniteSet(DOMAIN y[t]) /\ DOMAIN y[t] \subseteq IdNumbers
  /\ y.images \in [DOMAIN y.images -> STRING]
  /\ \A q \in DOMAIN y.questions :
       y.questions[q] \in [text : STRING, choices : Seq(STRING), correct : Int, images : Seq(Nat)]
  /\ \A w \in DOMAIN y.workbooks : y.workbooks[w] \in [title : STRING, questions : Seq(Nat)]
  /\ \A c \in DOMAIN y.categories : y.categories[c] \in [title : STRING, workbooks : Seq(Nat)]

(* What the tools do not check and the repository's data directory keeps    *)
(* to: every image file is one image, no list names anything twice, and a   *)
(* category lists workbooks that exist and that no other category lists.    *)
Tidy(y) ==
  /\ \A i, j \in DOMAIN y.images : y.images[i] = y.images[j] => i = j
  /\ \A q \in DOMAIN y.questions : Distinct(y.questions[q].images)
  /\ \A w \in DOMAIN y.workbooks : Distinct(y.workbooks[w].questions)
  /\ \A c \in DOMAIN y.categories : /\ Distinct(y.categories[c].workbooks)
                                    /\ Elems(y.categories[c].workbooks) \subseteq DOMAIN y.workbooks
  /\ \A b, c \in DOMAIN y.categories :
       b # c => Elems(y.categories[b].workbooks) \cap Elems(y.categories[c].workbooks) = {}

ASSUME SeedingAssumption ==
  /\ \A y \in Data : DirectoryOK(y)
  /\ Yaml \in Data /\ validateReferences(Yaml) /\ Tidy(Yaml)
  /\ {MaxId, MaxEdits, MaxTools, MaxFaults} \subseteq Nat

(* kind; stage; data directory; what the plan has read; files of the phase  *)
(* left and attempts of the current one; history: nobody edited meanwhile.  *)
None == [kind |-> "none", stage |-> "idle", data |-> Yaml, read |-> << >>,
         todo |-> {}, attempt |-> 0, clean |-> FALSE]
Phases == {"clear", "images", "questions", "workbooks", "categories", "sequences"}
AtWork == tool.stage \in {"plan"} \cup Phases
Ended(stage) == [tool EXCEPT !.stage = stage, !.attempt = 0]
Failed == [None EXCEPT !.kind = tool.kind, !.data = tool.data, !.stage = "failed"]

Init == db = InitDB /\ tool = None /\ edits = 0 /\ tools = 0 /\ faults = 0

------------------------------ \* datasync apply
Start(next) ==
  /\ ~AtWork /\ tools < MaxTools
  /\ tool' = next /\ tools' = tools + 1
  /\ UNCHANGED <<db, edits, faults>>
(* The plan reads the questions of a workbook by their places, which must   *)
(* differ for the answer to be a definite one.                              *)
StartSync(y) ==
  Start([None EXCEPT !.kind = "sync", !.data = y, !.clean = InPlace(db.workbookQuestions),
                     !.stage = IF validateReferences(y) THEN "plan" ELSE "failed"])

Queries == 8
Query(n) ==
  CASE n = 1 -> loadImagesDB(db)     [] n = 2 -> QuestionTexts(db)
    [] n = 3 -> QuestionChoices(db)  [] n = 4 -> QuestionImageIds(db)
    [] n = 5 -> WorkbookTitles(db)   [] n = 6 -> WorkbookQuestionIds(db)
    [] n = 7 -> CategoryTitles(db)   [] n = 8 -> CategoryWorkbookIds(db)
PlanQuery ==
  /\ tool.stage = "plan" /\ Len(tool.read) < Queries
  /\ tool' = [tool EXCEPT !.read = Append(@, Query(Len(tool.read) + 1))]
  /\ UNCHANGED <<db, edits, tools, faults>>

(* The tables whose queries are done, and the differences found in them.    *)
TablesAfter == [images |-> 1, questions |-> 4, workbooks |-> 6, categories |-> 8]
Compared == {t \in Tables : Len(tool.read) >= TablesAfter[t]}
PlanOf(t) ==
  LET r == tool.read
      y == tool.data
  IN  CASE t = "images"     -> planImages(y, r[1])
        [] t = "questions"  -> planQuestions(y, loadQuestionsDB(r[2], r[3], r[4]))
        [] t = "workbooks"  -> planWorkbooks(y, loadWorkbooksDB(r[5], r[6]))
        [] t = "categories" -> planCategories(y, loadCategoriesDB(r[7], r[8]))
Outcomes == applied(tool.data, [t \in Tables |-> PlanOf(t)], db)
Changing == \E t \in Compared : HasChanges(PlanOf(t))

Planned == tool.stage = "plan" /\ Len(tool.read) = Queries
Apply ==
  /\ Planned
  /\ IF ~Changing THEN tool' = Ended("done") /\ UNCHANGED db
     ELSE \/ \E after \in Outcomes : db' = after /\ tool' = Ended("done")
          \/ Outcomes = {} /\ tool' = Failed /\ UNCHANGED db
  /\ UNCHANGED <<edits, tools, faults>>

Fault == faults < MaxFaults /\ faults' = faults + 1
(* The COMMIT reports an error: everything is rolled back but setval, or it *)
(* went through and only its answer was lost.                               *)
CommitFails ==
  /\ Planned /\ Changing /\ Fault
  /\ \E after \in Outcomes : db' \in {[db EXCEPT !.seq = after.seq], after}
  /\ tool' = Failed
  /\ UNCHANGED <<edits, tools>>

------------------------------ \* the importer
Files(stage, y) ==
  CASE stage = "questions" -> DOMAIN y.questions [] stage = "workbooks" -> DOMAIN y.workbooks
    [] stage = "categories" -> DOMAIN y.categories [] stage = "done" -> {}
    [] OTHER -> {"the one transaction"}
Following == [clear |-> "images", images |-> "questions", questions |-> "workbooks",
              workbooks |-> "categories", categories |-> "sequences", sequences |-> "done"]
Retried == {"questions", "workbooks", "categories"}
Entering(t, stage) == [t EXCEPT !.stage = stage, !.attempt = 0, !.todo = Files(stage, t.data)]

StartImport(y, first) ==
  Start(Entering([None EXCEPT !.kind = "import", !.data = y, !.clean = first = "clear"], first))

(* The transaction for the next file of the phase.                          *)
File == CHOOSE f \in tool.todo : TRUE
Transaction ==
  CASE tool.stage = "clear"      -> {clearData(db)}
    [] tool.stage = "images"     -> importImages(tool.data, db)
    [] tool.stage = "questions"  -> importQuestion(tool.data, File, db)
    [] tool.stage = "workbooks"  -> importWorkbook(tool.data, File, db)
    [] tool.stage = "categories" -> importCategory(tool.data, File, db)
    [] tool.stage = "sequences"  -> {resetSequences(db)}
AfterFile == IF tool.todo = {File} THEN Entering(tool, Following[tool.stage])
             ELSE [tool EXCEPT !.todo = @ \ {File}, !.attempt = 0]
RunInTx ==
  /\ tool.stage \in Phases /\ tool.todo # {}
  /\ \/ \E after \in Transaction : db' = after /\ tool' = AfterFile
     \/ Transaction = {} /\ tool' = Failed /\ UNCHANGED db
  /\ UNCHANGED <<edits, tools, faults>>

NoFiles ==
  /\ tool.stage \in Phases /\ tool.todo = {}
  /\ tool' = Entering(tool, Following[tool.stage])
  /\ UNCHANGED <<db, edits, tools, faults>>

(* The connection breaks, before or after the commit: the phases of the     *)
(* files try again, the others give up.                                     *)
ConnectionLost ==
  /\ tool.stage \in Phases /\ tool.todo # {} /\ Fault
  /\ db' \in {db} \cup Transaction
  /\ tool' = IF tool.stage \in Retried /\ tool.attempt + 1 < Attempts
             THEN [tool EXCEPT !.attempt = @ + 1] ELSE Failed
  /\ UNCHANGED <<edits, tools>>

Killed ==
  /\ AtWork /\ Fault
  /\ tool' = Failed
  /\ UNCHANGED <<db, edits, tools>>

------------------------------ \* administration
Edit(after) ==
  /\ edits < MaxEdits
  /\ db' = after /\ edits' = edits + 1
  /\ tool' = [tool EXCEPT !.clean = FALSE]
  /\ UNCHANGED <<tools, faults>>
EditContent ==
  \/ \E b \in QuestionBodies :
       \/ Edit(AdminCreateQuestion(db, b))
       \/ \E q \in db.questions : Edit(AdminUpdateQuestion(db, q, b))
  \/ \E q \in db.questions : Edit(AdminDeleteQuestion(db, q))
  \/ \E b \in WorkbookBodies :
       \/ Edit(AdminCreateWorkbook(db, b))
       \/ \E w \in db.workbooks : Edit(AdminUpdateWorkbook(db, w.id, b))
  \/ \E w \in db.workbooks : Edit(AdminDeleteWorkbook(db, w.id))
  \/ \E t \in Titles : Edit(AdminCreateCategory(db, t))
  \/ \E c \in db.categories : Edit(AdminDeleteCategory(db, c.id))
  \/ /\ NewPaths(db, Uploads) # {}
     /\ Edit(CreatePresignedUrl(db, CHOOSE path \in NewPaths(db, Uploads) : TRUE))

Next ==
  \/ \E y \in Data : StartSync(y) \/ StartImport(y, "clear") \/ StartImport(y, "workbooks")
  \/ PlanQuery \/ Apply \/ CommitFails
  \/ RunInTx \/ NoFiles \/ ConnectionLost \/ Killed
  \/ EditContent

Spec == Init /\ [][Next]_vars

-----------------------------------------------------------------------------
(* After a run that succeeded and that nobody disturbed, a new plan has     *)
(* nothing to do and the API serves what the data directory says; whatever  *)
(* the database held before, and wherever earlier runs were cut off.  Only  *)
(* where the administration had left several correct choices does the plan  *)
(* compare the first and the API serve the last.                            *)
Serves(y) ==
  /\ \A q \in DOMAIN y.questions :
       LET got == ApiGetQuestion(db, q).body
       IN  /\ got.choices = y.questions[q].choices /\ got.correct = y.questions[q].correct
           /\ got.images = [i \in DOMAIN y.questions[q].images |-> y.images[y.questions[q].images[i]]]
  /\ \A w \in DOMAIN y.workbooks :
       Ids(AdminGetWorkbook(db, w).body.questions) = y.workbooks[w].questions
  /\ \A c \in DOMAIN y.categories :
       Elems(Ids(AdminGetCategory(db, c).body.workbooks)) = Elems(y.categories[c].workbooks)
Success == tool.stage = "done" /\ tool.clean
UndisturbedRunsConverge ==
  (Success /\ validateReferences(tool.data) /\ Tidy(tool.data)) =>
    /\ InSync(tool.data, db)
    /\ SingleKey(db.choices) => Serves(tool.data)

(* A run that wrote rows under explicit ids and succeeded leaves the        *)
(* sequences ahead of every row, also of those the administration created   *)
(* beside it, so that no later create fails.                                *)
SequencesFollowRows ==
  (tool.stage = "done" /\ (tool.kind = "sync" => Changing)) => SequencesAhead(db)

(* What the data directory does not speak of survives a sync: the link of   *)
(* an app to a category that stays, and the unpublished state of a          *)
(* workbook that stays; whether the run learns that it has committed or     *)
(* not.                                                                     *)
SyncKeepsTheRest ==
  [][(tool.kind = "sync" /\ tool.stage = "plan" /\ tool'.stage \in {"done", "failed"}) =>
       /\ \A r \in db.appCategories :
            r.category \in DOMAIN tool.data.categories => r \in db'.appCategories
       /\ \A w \in db.workbooks, v \in db'.workbooks :
            w.id = v.id => w.published = v.published]_vars

(* Seeding implements Reconciler: its keys are the rows of the four tables, *)
(* a part of the comparison is a table, and the runs are those of a sync of *)
(* Yaml; everything else that writes disturbs.                              *)
Keys == Tables \X (1 .. MaxId)
Under(f, id) == IF id \in DOMAIN f THEN {f[id]} ELSE {}
StoredRows(d) ==
  [images |-> loadImagesDB(d),
   questions |-> [q \in d.questions |->
     LET cs == GetChoicesByQuestionID(d, q)
     IN  [text |-> RowsOf(d, q).text, choices |-> [i \in DOMAIN cs |-> cs[i].text],
          correct |-> FirstCorrect(cs), images |-> QuestionImageIds(d)[q]]],
   workbooks |-> loadWorkbooksDB(WorkbookTitles(d), WorkbookQuestionIds(d)),
   categories |-> loadCategoriesDB(CategoryTitles(d), CategoryWorkbookIds(d))]
Wanted(y, t, id) ==
  IF t # "categories" \/ id \notin DOMAIN y.categories THEN Under(y[t], id)
  ELSE {[title |-> y.categories[id].title, workbooks |-> Elems(y.categories[id].workbooks)]}
Target == [k \in Keys |-> Wanted(Yaml, k[1], k[2])]
Contents == LET rows == StoredRows(db) IN [k \in Keys |-> Under(rows[k[1]], k[2])]
Syncing == tool.kind = "sync" /\ tool.data = Yaml /\ tool.stage \in {"plan", "done"}
Stage ==
  CASE tool.kind = "sync" /\ tool.data = Yaml /\ tool.stage = "failed" -> "failed"
    [] Syncing /\ tool.stage = "plan" -> "comparing"
    [] Syncing /\ tool.stage = "done" -> "done"
    [] OTHER -> "idle"
Differing(t) == PlanOf(t).add \cup PlanOf(t).change \cup PlanOf(t).delete
Seen == IF Syncing THEN {k \in Keys : k[1] \in Compared} ELSE {}
KeysIn(t) == {t} \X (Differing(t) \cap 1 .. MaxId)
PlannedKeys == IF Syncing THEN UNION {KeysIn(t) : t \in Compared} ELSE {}
Alone == Syncing /\ tool.clean
Abstract == INSTANCE Reconciler WITH
  Goal <- Target, content <- Contents, stage <- Stage,
  seen <- Seen, planned <- PlannedKeys, undisturbed <- Alone
ImplementsReconciler == Abstract!Spec

=============================================================================
