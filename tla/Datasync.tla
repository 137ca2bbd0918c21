------------------------------ MODULE Datasync ------------------------------
(***************************************************************************)
(* Plan and Apply of internal/datasync: a data directory is compared with  *)
(* the database, table by table, and the differences are written.          *)
(*                                                                         *)
(* A data directory y is a record of functions from ids: images to paths,  *)
(* questions to [text, choices, correct, images], workbooks to             *)
(* [title, questions], categories to [title, workbooks].                   *)
(***************************************************************************)
EXTENDS ContentHandlers, Integers

Ascending(S) == OrderBy(S, LAMBDA a, b : a < b)
Elems(s) == {s[i] : i \in DOMAIN s}
SomeText(t) == t # ""

\* Fault: the upper bound of "correct" is not checked.
ValidateWithoutRange(id, q) ==
  /\ id > 0 /\ SomeText(q.text)
  /\ Len(q.choices) >= 2 /\ \A c \in Elems(q.choices) : SomeText(c)
  /\ q.correct >= 0

Validate(id, q) ==
  /\ id > 0 /\ SomeText(q.text)
  /\ Len(q.choices) >= 2 /\ \A c \in Elems(q.choices) : SomeText(c)
  /\ q.correct >= 0 /\ q.correct < Len(q.choices)
validateReferences(y) ==
  /\ \A q \in DOMAIN y.questions : /\ Validate(q, y.questions[q])
                                   /\ Elems(y.questions[q].images) \subseteq DOMAIN y.images
  /\ \A w \in DOMAIN y.workbooks : Elems(y.workbooks[w].questions) \subseteq DOMAIN y.questions

------------------------------ \* the database as the plan reads it
Rows(T, Value(_)) == [id \in {r.id : r \in T} |-> Value(CHOOSE r \in T : r.id = id)]
loadImagesDB(db) == Rows(db.images, LAMBDA r : r.path)

(* Three queries: the texts, all choices, all images.                       *)
QuestionTexts(db) == [q \in db.questions |-> RowsOf(db, q).text]
QuestionChoices(db) == [q \in db.questions |-> GetChoicesByQuestionID(db, q)]
QuestionImageIds(db) ==
  [q \in db.questions |->
     LET rows == OrderBy({r \in db.questionImages : r.question = q}, LAMBDA r, s : r.order < s.order)
     IN  [i \in DOMAIN rows |-> rows[i].image]]
Of(f, id) == IF id \in DOMAIN f THEN f[id] ELSE << >>
loadQuestionsDB(texts, choices, images) ==
  [q \in DOMAIN texts |-> [text |-> texts[q], choices |-> Of(choices, q), images |-> Of(images, q)]]

(* Two queries each: the rows, and what belongs to them.                    *)
WorkbookTitles(db) == Rows(db.workbooks, LAMBDA r : r.title)
WorkbookQuestionIds(db) ==
  [w \in {v.id : v \in db.workbooks} |->
     LET rows == OrderBy({r \in db.workbookQuestions : r.workbook = w}, LAMBDA r, s : r.order < s.order)
     IN  [i \in DOMAIN rows |-> rows[i].question]]
loadWorkbooksDB(titles, questions) ==
  [w \in DOMAIN titles |-> [title |-> titles[w], questions |-> Of(questions, w)]]
CategoryTitles(db) == Rows(db.categories, LAMBDA r : r.title)
CategoryWorkbookIds(db) ==
  [c \in {d.id : d \in db.categories} |-> {w.id : w \in {v \in db.workbooks : v.category = c}}]
loadCategoriesDB(titles, workbooks) ==
  [c \in DOMAIN titles |->
     [title |-> titles[c], workbooks |-> IF c \in DOMAIN workbooks THEN workbooks[c] ELSE {}]]

------------------------------ \* differences
(* Labels and details are for the reader of the plan; Apply uses the ids.   *)
Diff(goal, have, Same(_, _)) ==
  [add    |-> DOMAIN goal \ DOMAIN have,
   change |-> {id \in DOMAIN goal \cap DOMAIN have : ~Same(goal[id], have[id])},
   delete |-> DOMAIN have \ DOMAIN goal]
HasChanges(d) == d.add \cup d.change \cup d.delete # {}

(* The first correct choice stands for the database's key, -1 for none.     *)
FirstCorrect(rows) ==
  LET S == {i \in DOMAIN rows : rows[i].correct}
  IN  IF S = {} THEN -1 ELSE rows[CHOOSE i \in S : \A j \in S : i <= j].index
diffQuestion(yq, dq) ==
  /\ yq.text = dq.text
  /\ yq.choices = [i \in DOMAIN dq.choices |-> dq.choices[i].text]
  /\ yq.correct = FirstCorrect(dq.choices)
  /\ yq.images = dq.images
planImages(y, have) == Diff(y.images, have, LAMBDA a, b : a = b)
planQuestions(y, have) == Diff(y.questions, have, diffQuestion)
\* Fault: the questions of a workbook are compared as a set.
planWorkbooksUnordered(y, have) ==
  Diff(y.workbooks, have, LAMBDA a, b : a.title = b.title /\ Elems(a.questions) = Elems(b.questions))

planWorkbooks(y, have) ==
  Diff(y.workbooks, have, LAMBDA a, b : a.title = b.title /\ a.questions = b.questions)
planCategories(y, have) ==
  Diff(y.categories, have,
       LAMBDA a, b : /\ a.title = b.title
                     /\ Elems(a.workbooks) = b.workbooks /\ Len(a.workbooks) = Cardinality(b.workbooks))

(* The plan of a database that nobody writes meanwhile.                     *)
Plan(y, db) ==
  [images     |-> planImages(y, loadImagesDB(db)),
   questions  |-> planQuestions(y, loadQuestionsDB(QuestionTexts(db), QuestionChoices(db), QuestionImageIds(db))),
   workbooks  |-> planWorkbooks(y, loadWorkbooksDB(WorkbookTitles(db), WorkbookQuestionIds(db))),
   categories |-> planCategories(y, loadCategoriesDB(CategoryTitles(db), CategoryWorkbookIds(db)))]
Tables == {"images", "questions", "workbooks", "categories"}
InSync(y, db) == LET plan == Plan(y, db) IN \A t \in Tables : ~HasChanges(plan[t])

------------------------------ \* writing the differences, in the order of ids
ForEach(S, Step(_, _), db) ==
  LET ids == Ascending(S)
      after[i \in 0 .. Len(ids)] == IF i = 0 THEN db ELSE Step(after[i - 1], ids[i])
  IN  after[Len(ids)]

PutImage(y, b, id) == CreateImage([b EXCEPT !.images = {m \in @ : m.id # id}], id, y.images[id])
DropImage(b, id) == [b EXCEPT !.questionImages = {r \in @ : r.image # id},
                              !.images = {m \in @ : m.id # id}]
(* UNIQUE (path) is looked at after each statement: a path is still taken   *)
(* by an image whose turn, by its id, comes later.                          *)
PathTaken(y, d, db) ==
  \E m \in db.images, id \in d.add \cup (d.change \cap DOMAIN loadImagesDB(db)) :
     m.id > id /\ m.path = y.images[id]
applyImages(y, d, db) ==
  LET Put(b, id) == PutImage(y, b, id)
  IN  ForEach(d.delete, DropImage, ForEach(d.add \cup (d.change \cap DOMAIN loadImagesDB(db)), Put, db))

insertQuestionDetails(b, id, q) ==
  CreateQuestionImage(
    CreateChoice(b, id, [i \in DOMAIN q.choices |->
                           [text |-> q.choices[i], correct |-> i - 1 = q.correct]]),
    id, q.images)
AddQuestion(y, b, id) ==
  insertQuestionDetails(CreateSingleChoice(CreateQuestion(b, id), id, y.questions[id].text),
                        id, y.questions[id])
ChangeQuestion(y, b, id) ==
  insertQuestionDetails(
    UpdateSingleChoice(DeleteQuestionImages(DeleteChoicesByQuestionID(b, id), id),
                       id, y.questions[id].text),
    id, y.questions[id])
applyQuestions(y, d, db) ==
  LET Add(b, id) == AddQuestion(y, b, id)
      Change(b, id) == ChangeQuestion(y, b, id)
  IN  ForEach(d.change, Change, ForEach(d.add, Add, ForEach(d.delete, DeleteQuestion, db)))

FillCategory(y, b, id) ==
  [b EXCEPT !.workbooks = {IF w.id \in Elems(y.categories[id].workbooks)
                           THEN [w EXCEPT !.category = id] ELSE w : w \in @}]
EmptyCategory(b, id) ==
  [b EXCEPT !.workbooks = {IF w.category = id THEN [w EXCEPT !.category = NoCategory]
                           ELSE w : w \in @}]
SyncCategory(y, d, b, id) ==
  IF id \in d.delete THEN DeleteCategory(b, id)
  ELSE IF id \in d.add THEN FillCategory(y, CreateCategory(b, id, y.categories[id].title), id)
  ELSE FillCategory(y, EmptyCategory(UpdateCategory(b, id, y.categories[id].title), id), id)

\* Fault: a changed category is deleted and inserted again.
applyCategoriesAnew(y, d, db) ==
  LET Put(b, id) == CreateCategory(b, id, y.categories[id].title)
      Fill(b, id) == FillCategory(y, b, id)
  IN  ForEach(d.add \cup d.change, Fill, ForEach(d.add \cup d.change, Put,
        ForEach(d.delete \cup d.change, DeleteCategory, db)))

applyCategories(y, d, db) ==
  LET Step(b, id) == SyncCategory(y, d, b, id)
  IN  ForEach(d.add \cup d.change \cup d.delete, Step, db)

(* Which category lists a workbook: of several any, for a map has no order. *)
buildCategoryMap(y) ==
  LET Listers(w) == {c \in DOMAIN y.categories : w \in Elems(y.categories[c].workbooks)}
      Ws == DOMAIN y.workbooks
  IN  {f \in [Ws -> DOMAIN y.categories \cup {NoCategory}] :
         \A w \in Ws : IF Listers(w) = {} THEN f[w] = NoCategory ELSE f[w] \in Listers(w)}
(* An inserted workbook is published, an updated one as it was.             *)
AddWorkbook(y, category, b, id) ==
  bulkInsertWorkbookQuestions(
    CreateWorkbook(b, id, y.workbooks[id].title, category[id], TRUE), id, y.workbooks[id].questions)
ChangeWorkbook(y, category, b, id) ==
  bulkInsertWorkbookQuestions(
    DeleteWorkbookQuestions(
      [b EXCEPT !.workbooks = {IF w.id = id THEN [w EXCEPT !.title = y.workbooks[id].title,
                                                           !.category = category[id]]
                               ELSE w : w \in @}], id),
    id, y.workbooks[id].questions)
applyWorkbooks(y, category, d, db) ==
  LET Add(b, id) == AddWorkbook(y, category, b, id)
      Change(b, id) == ChangeWorkbook(y, category, b, id)
  IN  ForEach(d.change, Change, ForEach(d.add, Add, ForEach(d.delete, DeleteWorkbook, db)))

Max(S) == IF S = {} THEN 0 ELSE CHOOSE m \in S : \A n \in S : n <= m
\* Fault: setval to the largest id, is_called = false.
resetSequencesToMax(db) ==
  [db EXCEPT !.seq = [@ EXCEPT !.questions  = Max(db.questions),
                               !.images     = Max({m.id : m \in db.images}),
                               !.workbooks  = Max({w.id : w \in db.workbooks}),
                               !.categories = Max({c.id : c \in db.categories})]]

resetSequences(db) ==
  [db EXCEPT !.seq = [@ EXCEPT !.questions  = Max(db.questions) + 1,
                               !.images     = Max({m.id : m \in db.images}) + 1,
                               !.workbooks  = Max({w.id : w \in db.workbooks}) + 1,
                               !.categories = Max({c.id : c \in db.categories}) + 1]]

(* The databases the statements may leave before COMMIT.  There is none     *)
(* when a statement fails: a row to add is there, a question to change is   *)
(* gone, a path is taken for a while, or a key does not hold at the end.    *)
applied(y, plan, db) ==
  LET Present == [images |-> DOMAIN loadImagesDB(db), questions |-> db.questions,
                  workbooks |-> DOMAIN WorkbookTitles(db), categories |-> DOMAIN CategoryTitles(db)]
      Outcomes == {applyWorkbooks(y, category, plan.workbooks,
                     applyCategories(y, plan.categories,
                       applyQuestions(y, plan.questions, applyImages(y, plan.images, db)))) :
                   category \in buildCategoryMap(y)}
  IN  IF \/ \E t \in Tables : plan[t].add \cap Present[t] # {}
         \/ ~(plan.questions.change \subseteq db.questions)
         \/ PathTaken(y, plan.images, db)
      THEN {} ELSE {after \in {resetSequences(b) : b \in Outcomes} : ConstraintsHold(after)}
=============================================================================
