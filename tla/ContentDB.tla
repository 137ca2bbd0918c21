----------------------------- MODULE ContentDB -----------------------------
(***************************************************************************)
(* The content half of the PostgreSQL schema (app/migrations) and the sqlc *)
(* queries over it (app/internal/db).  A database is a record of tables,   *)
(* a table a set of rows.  Every operator below is one SQL statement: a    *)
(* query returns the rows it selects (a :one query a set of at most one    *)
(* row, {} being sql.ErrNoRows; an ordered :many query a sequence), and a  *)
(* statement that writes returns the database it leaves behind, with the   *)
(* cascades of the foreign keys.  Descriptions, explanations and           *)
(* timestamps no query selects by are folded into title and text.          *)
(***************************************************************************)
EXTENDS Naturals, FiniteSets, Sequences, TLC

NoCategory == 0      \* SQL NULL in workbooks.category_id; ids start at 1

(* ORDER BY, for an order that is total on the rows, and LIMIT .. OFFSET.   *)
OrderBy(S, Before(_, _)) ==
  [i \in 1 .. Cardinality(S) |->
     CHOOSE r \in S : Cardinality({s \in S : Before(s, r)}) = i - 1]
ById(S) == OrderBy(S, LAMBDA r, s : r.id < s.id)
Page(rows, limit, offset) ==
  SubSeq(rows, offset + 1, IF offset + limit < Len(rows) THEN offset + limit ELSE Len(rows))
Ids(rows) == [i \in DOMAIN rows |-> rows[i].id]
(* A row with one column more.                                              *)
With(row, column, value) ==
  [c \in DOMAIN row \cup {column} |-> IF c = column THEN value ELSE row[c]]

(* A sequence hands out each value once and is not rolled back.             *)
NextVal(db, table) == [db EXCEPT !.seq[table] = @ + 1]

------------------------------ \* images
CreateImage(db, id, path) == [db EXCEPT !.images = @ \cup {[id |-> id, path |-> path]}]
CreateQuestionImage(db, q, images) ==      \* once per image, in the order given
  [db EXCEPT !.questionImages =
     @ \cup {[question |-> q, image |-> images[i], order |-> i - 1] : i \in DOMAIN images}]
DeleteQuestionImages(db, q) == [db EXCEPT !.questionImages = {r \in @ : r.question # q}]
GetImageURLsByQuestionID(db, q) ==
  LET rows == OrderBy({r \in db.questionImages : r.question = q},
                      LAMBDA r, s : r.order < s.order)
  IN  [i \in DOMAIN rows |-> (CHOOSE m \in db.images : m.id = rows[i].image).path]
GetImageURLsByQuestionIDs(db, qs) ==
  [q \in {r.question : r \in {s \in db.questionImages : s.question \in qs}}
     |-> GetImageURLsByQuestionID(db, q)]

------------------------------ \* questions, questions_single_choice and its choices
CountQuestions(db) == Cardinality(db.questions)
QuestionExists(db, q) == q \in db.questions
CreateQuestion(db, q) == [db EXCEPT !.questions = @ \cup {q}]
CreateSingleChoice(db, q, text) ==
  [db EXCEPT !.singleChoices = @ \cup {[question |-> q, text |-> text]}]
UpdateSingleChoice(db, q, text) ==
  [db EXCEPT !.singleChoices = {IF s.question = q THEN [s EXCEPT !.text = text] ELSE s : s \in @}]
\* Fault: choices are numbered from 1.
CreateChoiceFromOne(db, q, cs) ==
  [db EXCEPT !.choices = @ \cup {[question |-> q, index |-> i, text |-> cs[i].text,
                                  correct |-> cs[i].correct] : i \in DOMAIN cs}]

CreateChoice(db, q, cs) ==                 \* once per choice, in the order given
  [db EXCEPT !.choices = @ \cup {[question |-> q, index |-> i - 1, text |-> cs[i].text,
                                  correct |-> cs[i].correct] : i \in DOMAIN cs}]
DeleteChoicesByQuestionID(db, q) == [db EXCEPT !.choices = {c \in @ : c.question # q}]

\* Fault: workbook_questions.question_id without ON DELETE CASCADE (and no error).
DeleteQuestionOnly(db, q) ==
  [db EXCEPT !.questions      = @ \ {q},
             !.singleChoices  = {s \in @ : s.question # q},
             !.choices        = {c \in @ : c.question # q},
             !.questionImages = {r \in @ : r.question # q}]

(* Cascades to the single choice, its choices, and the rows that place the  *)
(* question in workbooks or give it images.                                 *)
DeleteQuestion(db, q) ==
  [db EXCEPT !.questions         = @ \ {q},
             !.singleChoices     = {s \in @ : s.question # q},
             !.choices           = {c \in @ : c.question # q},
             !.questionImages    = {r \in @ : r.question # q},
             !.workbookQuestions = {r \in @ : r.question # q}]

GetQuestionByID(db, q) == {s \in db.singleChoices : s.question = q}
GetChoicesByQuestionID(db, q) ==
  OrderBy({c \in db.choices : c.question = q}, LAMBDA c, d : c.index < d.index)

(* The flat rows of one question, grouped: its text and its choice rows.    *)
RowsOf(db, q) == [id |-> q, text |-> (CHOOSE s \in GetQuestionByID(db, q) : TRUE).text,
                  choices |-> GetChoicesByQuestionID(db, q)]
ListQuestionsWithChoices(db, limit, offset) ==
  LET ids == Page(OrderBy(db.questions, LAMBDA p, q : p < q), limit, offset)
  IN  [i \in DOMAIN ids |-> RowsOf(db, ids[i])]

------------------------------ \* workbooks and workbook_questions
CountWorkbooks(db) == Cardinality(db.workbooks)
CountPublishedWorkbooks(db) == Cardinality({w \in db.workbooks : w.published})
WorkbookExists(db, id) == \E w \in db.workbooks : w.id = id
GetWorkbookByID(db, id) == {w \in db.workbooks : w.id = id}
GetWorkbookTitle(db, id) ==
  {[title |-> w.title, category |-> w.category] : w \in {v \in db.workbooks : v.id = id}}

QuestionCount(db, id) == Cardinality({r \in db.workbookQuestions : r.workbook = id})
WorkbookRow(db, w) == [id |-> w.id, title |-> w.title, category |-> w.category,
                       published |-> w.published, questionCount |-> QuestionCount(db, w.id)]
Listed(db, W) == LET rows == ById(W) IN [i \in DOMAIN rows |-> WorkbookRow(db, rows[i])]
ListWorkbooks(db, limit, offset) == Page(Listed(db, db.workbooks), limit, offset)
ListPublishedWorkbooks(db, limit, offset) ==
  Page(Listed(db, {w \in db.workbooks : w.published}), limit, offset)
\* Fault: the publisher's listing without WHERE is_published.
ListEveryWorkbook(db) == Listed(db, db.workbooks)

ListAllWorkbooks(db) == Listed(db, {w \in db.workbooks : w.published})
ListQuestionsWithChoicesByWorkbook(db, id) ==
  LET rows == OrderBy({r \in db.workbookQuestions : r.workbook = id},
                      LAMBDA r, s : r.order < s.order)
  IN  [i \in DOMAIN rows |-> RowsOf(db, rows[i].question)]

CreateWorkbook(db, id, title, category, published) ==
  [db EXCEPT !.workbooks = @ \cup {[id |-> id, title |-> title,
                                    category |-> category, published |-> published]}]
UpdateWorkbook(db, id, title, category, published) ==
  IF WorkbookExists(db, id)
  THEN [db EXCEPT !.workbooks = {w \in @ : w.id # id} \cup
          {[id |-> id, title |-> title, category |-> category, published |-> published]}]
  ELSE db
DeleteWorkbook(db, id) ==
  [db EXCEPT !.workbooks         = {w \in @ : w.id # id},
             !.workbookQuestions = {r \in @ : r.workbook # id}]
DeleteWorkbookQuestions(db, id) ==
  [db EXCEPT !.workbookQuestions = {r \in @ : r.workbook # id}]

bulkInsertWorkbookQuestions(db, id, qs) ==
  [db EXCEPT !.workbookQuestions =
     @ \cup {[workbook |-> id, question |-> qs[i], order |-> i - 1] : i \in DOMAIN qs}]

------------------------------ \* categories
CountCategories(db) == Cardinality(db.categories)
CategoryExists(db, id) == \E c \in db.categories : c.id = id
GetCategoryByID(db, id) == {c \in db.categories : c.id = id}
GetCategoryTitle(db, id) == {c.title : c \in {d \in db.categories : d.id = id}}
ListWorkbooksByCategory(db, id) == Listed(db, {w \in db.workbooks : w.category = id})
ListPublishedWorkbooksByCategory(db, id) ==
  Listed(db, {w \in db.workbooks : w.category = id /\ w.published})

(* The listing counts every workbook, the publisher's the published ones.   *)
Counted(rows, W) ==
  [i \in DOMAIN rows |-> [id |-> rows[i].id, title |-> rows[i].title,
     workbookCount |-> Cardinality({w \in W : w.category = rows[i].id})]]
ListCategories(db, limit, offset) ==
  Page(Counted(ById(db.categories), db.workbooks), limit, offset)
ListAllCategories(db) == Counted(ById(db.categories), {w \in db.workbooks : w.published})

CreateCategory(db, id, title) ==
  [db EXCEPT !.categories = @ \cup {[id |-> id, title |-> title]}]
UpdateCategory(db, id, title) ==
  [db EXCEPT !.categories = {IF c.id = id THEN [c EXCEPT !.title = title] ELSE c : c \in @}]
(* ON DELETE SET NULL for workbooks, CASCADE for app_categories.            *)
DeleteCategory(db, id) ==
  [db EXCEPT !.categories    = {c \in @ : c.id # id},
             !.workbooks     = {IF w.category = id THEN [w EXCEPT !.category = NoCategory]
                                ELSE w : w \in @},
             !.appCategories = {r \in @ : r.category # id}]

------------------------------ \* apps and app_categories
CountApps(db) == Cardinality(db.apps)
ListApps(db) == ById(db.apps)
GetAppByID(db, id) == {a \in db.apps : a.id = id}
GetAppBySlug(db, slug) == {a \in db.apps : a.slug = slug}
ListAppCategoriesBySlug(db, slug) ==
  LET rows == OrderBy({r \in db.appCategories : \E a \in GetAppBySlug(db, slug) : r.app = a.id},
                      LAMBDA r, s : r.sort < s.sort \/ (r.sort = s.sort /\ r.category < s.category))
  IN  [i \in DOMAIN rows |-> CHOOSE c \in db.categories : c.id = rows[i].category]
CreateApp(db, id, slug) == [db EXCEPT !.apps = @ \cup {[id |-> id, slug |-> slug]}]
UpdateApp(db, id, slug) ==
  [db EXCEPT !.apps = {IF a.id = id THEN [a EXCEPT !.slug = slug] ELSE a : a \in @}]
DeleteApp(db, id) ==
  [db EXCEPT !.apps = {a \in @ : a.id # id}, !.appCategories = {r \in @ : r.app # id}]

------------------------------ \* announcements
CountAnnouncements(db) == Cardinality(db.announcements)
AnnouncementExists(db, id) == \E a \in db.announcements : a.id = id
GetAnnouncement(db, id) == {a \in db.announcements : a.id = id}
NewestFirst(S) ==
  OrderBy(S, LAMBDA a, b : a.publishedAt > b.publishedAt
                           \/ (a.publishedAt = b.publishedAt /\ a.id > b.id))
ListAnnouncements(db, limit, offset) == Page(NewestFirst(db.announcements), limit, offset)
ListLatestAnnouncements(db, limit) == Page(NewestFirst(db.announcements), limit, 0)
CreateAnnouncement(db, id, title, publishedAt) ==
  [db EXCEPT !.announcements =
     @ \cup {[id |-> id, title |-> title, publishedAt |-> publishedAt]}]
UpdateAnnouncement(db, id, title, publishedAt) ==
  IF AnnouncementExists(db, id)
  THEN [db EXCEPT !.announcements = {a \in @ : a.id # id} \cup
          {[id |-> id, title |-> title, publishedAt |-> publishedAt]}]
  ELSE db
DeleteAnnouncement(db, id) == [db EXCEPT !.announcements = {a \in @ : a.id # id}]

------------------------------ \* importer.sql: ON CONFLICT keeps the row that is there
DeleteAllWorkbookQuestions(db) == [db EXCEPT !.workbookQuestions = {}]
DeleteAllWorkbooks(db) == [db EXCEPT !.workbooks = {}, !.workbookQuestions = {}]
DeleteAllCategories(db) ==
  [db EXCEPT !.categories = {}, !.appCategories = {},
             !.workbooks  = {[w EXCEPT !.category = NoCategory] : w \in @}]
DeleteAllQuestionImages(db) == [db EXCEPT !.questionImages = {}]
DeleteAllChoices(db) == [db EXCEPT !.choices = {}]
DeleteAllSingleChoices(db) == [db EXCEPT !.singleChoices = {}, !.choices = {}]
DeleteAllQuestions(db) ==
  [db EXCEPT !.questions = {}, !.singleChoices = {}, !.choices = {},
             !.questionImages = {}, !.workbookQuestions = {}]
DeleteAllImages(db) == [db EXCEPT !.images = {}, !.questionImages = {}]

ImportImage(db, id, path) ==
  IF \E m \in db.images : m.id = id \/ m.path = path THEN db ELSE CreateImage(db, id, path)
ImportQuestion(db, q) == CreateQuestion(db, q)
ImportSingleChoice(db, q, text) ==         \* the one DO UPDATE
  IF GetQuestionByID(db, q) = {} THEN CreateSingleChoice(db, q, text)
                                 ELSE UpdateSingleChoice(db, q, text)
ImportChoice(db, q, c) ==
  IF \E d \in db.choices : d.question = q /\ d.index = c.index THEN db
  ELSE [db EXCEPT !.choices = @ \cup {With(c, "question", q)}]
ImportQuestionImage(db, q, image, order) ==
  IF \E r \in db.questionImages : r.question = q /\ (r.image = image \/ r.order = order) THEN db
  ELSE [db EXCEPT !.questionImages = @ \cup {[question |-> q, image |-> image, order |-> order]}]
ImportWorkbook(db, id, title) ==
  IF WorkbookExists(db, id) THEN db ELSE CreateWorkbook(db, id, title, NoCategory, TRUE)
ImportWorkbookQuestion(db, id, q, order) ==
  IF \E r \in db.workbookQuestions : r.workbook = id /\ r.question = q THEN db
  ELSE [db EXCEPT !.workbookQuestions = @ \cup {[workbook |-> id, question |-> q, order |-> order]}]
ImportCategory(db, id, title) ==
  IF CategoryExists(db, id) THEN db ELSE CreateCategory(db, id, title)
SetWorkbookCategory(db, category, id) ==
  [db EXCEPT !.workbooks = {IF w.id = id THEN [w EXCEPT !.category = category] ELSE w : w \in @}]

------------------------------ \* what the schema guarantees
Keyed(T) == \A r, s \in T : r.id = s.id => r = s
(* Primary and unique keys, and foreign keys.                               *)
ConstraintsHold(db) ==
  /\ \A T \in {db.categories, db.workbooks, db.announcements, db.apps, db.images} : Keyed(T)
  /\ \A a, b \in db.apps : a.slug = b.slug => a = b
  /\ \A m, n \in db.images : m.path = n.path => m = n
  /\ \A s, t \in db.singleChoices : s.question = t.question => s = t
  /\ \A c, d \in db.choices : (c.question = d.question /\ c.index = d.index) => c = d
  /\ \A r, s \in db.questionImages :
       (r.question = s.question /\ (r.image = s.image \/ r.order = s.order)) => r = s
  /\ \A r, s \in db.appCategories : (r.app = s.app /\ r.category = s.category) => r = s
  /\ \A r, s \in db.workbookQuestions :
       (r.workbook = s.workbook /\ r.question = s.question) => r = s
  /\ \A w \in db.workbooks : w.category = NoCategory \/ CategoryExists(db, w.category)
  /\ \A r \in db.workbookQuestions :
       WorkbookExists(db, r.workbook) /\ QuestionExists(db, r.question)
  /\ \A r \in db.questionImages :
       QuestionExists(db, r.question) /\ \E m \in db.images : m.id = r.image
  /\ \A r \in db.singleChoices \cup db.choices : QuestionExists(db, r.question)
  /\ \A r \in db.appCategories : CategoryExists(db, r.category) /\ GetAppByID(db, r.app) # {}
  /\ \A q \in db.questions : GetQuestionByID(db, q) # {}
(* An INSERT that draws its id from the sequence meets no row.              *)
SequencesAhead(db) ==
  /\ \A q \in db.questions : q < db.seq.questions
  /\ \A w \in db.workbooks : w.id < db.seq.workbooks
  /\ \A c \in db.categories : c.id < db.seq.categories
  /\ \A m \in db.images : m.id < db.seq.images
SchemaOK(db) == ConstraintsHold(db) /\ SequencesAhead(db)

(* Its tables and columns; the ids of a serial column are drawn from 1 on.  *)
Serial == {"categories", "workbooks", "announcements", "apps", "images"}
TableNames == Serial \cup {"questions", "singleChoices", "choices", "questionImages",
                           "workbookQuestions", "appCategories"}
TablesOK(db) ==
  /\ DOMAIN db = TableNames \cup {"seq"} /\ DOMAIN db.seq = Serial \cup {"questions"}
  /\ \A t \in DOMAIN db.seq : db.seq[t] \in Nat \ {0}
  /\ \A t \in TableNames : IsFiniteSet(db[t])
  /\ \A t \in Serial : \A r \in db[t] : r.id \in Nat \ {0} /\ r.id < db.seq[t]
  /\ \A q \in db.questions : q \in Nat \ {0}
  /\ \A s \in db.singleChoices : DOMAIN s = {"question", "text"}
  /\ \A c \in db.choices : c.index \in Nat /\ c.correct \in BOOLEAN
  /\ \A r \in db.questionImages \cup db.workbookQuestions : r.order \in Nat
  /\ \A c \in db.categories : DOMAIN c = {"id", "title"}
  /\ \A w \in db.workbooks : DOMAIN w = {"id", "title", "category", "published"}
  /\ \A a \in db.apps : DOMAIN a = {"id", "slug"}
=============================================================================
