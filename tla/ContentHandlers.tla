-------------------------- MODULE ContentHandlers --------------------------
(***************************************************************************)
(* The handlers over the content tables: what the content API              *)
(* (internal/handler) and the publisher (internal/admin/publisher.go) show *)
(* of a database, and what each administration request (internal/admin)    *)
(* makes of it.  A writing handler is the database after its transaction:  *)
(* its first write locks the row it changes, so that the transactions of   *)
(* two requests on one row follow each other; a refused or failing request *)
(* leaves the database as it was, but for the sequence values it drew.     *)
(* The re-read that fills the answer of a write changes nothing.  Reading  *)
(* handlers are given the database of one moment; Publisher takes the      *)
(* publisher's queries apart.                                              *)
(***************************************************************************)
EXTENDS ContentDB

NoKey == 99          \* the JSON of a question without "correct"
MaxLimit == 100
Announced == 50

LastCorrect(rows, default) ==      \* the last correct row wins
  LET S == {i \in DOMAIN rows : rows[i].correct}
  IN  IF S = {} THEN default ELSE rows[CHOOSE i \in S : \A j \in S : j <= i].index
NotFound == [status |-> 404]
Found(body) == [status |-> 200, body |-> body]
validatePagination(limit, offset) == limit \in 1 .. MaxLimit /\ offset >= 0
Paged(limit, offset, total, rows) ==
  IF validatePagination(limit, offset) THEN Found([total |-> total, rows |-> rows])
                                       ELSE [status |-> 400]

------------------------------ \* content API: questions
(* Grouped from flat rows: a choice is put at its index, gaps are blank.    *)
buildQuestionsFromRows(rows) ==
  LET Width(cs) == IF cs = << >> THEN 0 ELSE cs[Len(cs)].index + 1
      At(cs, i) == {c \in {cs[j] : j \in DOMAIN cs} : c.index = i}
  IN  [n \in DOMAIN rows |->
         [id |-> rows[n].id, text |-> rows[n].text,
          choices |-> [i \in 1 .. Width(rows[n].choices) |->
                         IF At(rows[n].choices, i - 1) = {} THEN ""
                         ELSE (CHOOSE c \in At(rows[n].choices, i - 1) : TRUE).text],
          correct |-> LastCorrect(rows[n].choices, 0)]]
attachImages(db, questions) ==
  LET urls == GetImageURLsByQuestionIDs(db, {questions[n].id : n \in DOMAIN questions})
  IN  [n \in DOMAIN questions |->
         With(questions[n], "images", IF questions[n].id \in DOMAIN urls
                                      THEN urls[questions[n].id] ELSE << >>)]
(* The single-question endpoint appends the choices one after another.      *)
buildQuestion(db, q, text) ==
  LET cs == GetChoicesByQuestionID(db, q)
  IN  [id |-> q, text |-> text, choices |-> [i \in DOMAIN cs |-> cs[i].text],
       correct |-> LastCorrect(cs, 0), images |-> GetImageURLsByQuestionID(db, q)]

ApiGetQuestions(db, limit, offset) ==
  Paged(limit, offset, CountQuestions(db),
        attachImages(db, buildQuestionsFromRows(ListQuestionsWithChoices(db, limit, offset))))
ApiGetQuestion(db, q) ==
  IF GetQuestionByID(db, q) = {} THEN NotFound
  ELSE Found(buildQuestion(db, q, (CHOOSE s \in GetQuestionByID(db, q) : TRUE).text))

------------------------------ \* content API: categories, apps, workbooks, announcements
ApiGetCategories(db, limit, offset) ==
  Paged(limit, offset, CountCategories(db), ListCategories(db, limit, offset))
ApiGetCategory(db, id) ==
  IF GetCategoryByID(db, id) = {} THEN NotFound
  ELSE Found([id |-> id, title |-> (CHOOSE c \in GetCategoryByID(db, id) : TRUE).title,
              workbooks |-> ListPublishedWorkbooksByCategory(db, id)])
ApiGetApp(db, slug) ==
  IF GetAppBySlug(db, slug) = {} THEN NotFound
  ELSE Found([app |-> CHOOSE a \in GetAppBySlug(db, slug) : TRUE,
              categories |-> ListAppCategoriesBySlug(db, slug)])
ApiGetWorkbooks(db, limit, offset) ==
  Paged(limit, offset, CountPublishedWorkbooks(db), ListPublishedWorkbooks(db, limit, offset))
ApiGetWorkbook(db, id) ==
  IF \A w \in GetWorkbookByID(db, id) : ~w.published THEN NotFound
  ELSE LET w == CHOOSE w \in GetWorkbookByID(db, id) : TRUE
       IN  Found([id |-> id, title |-> w.title, category |-> w.category,
                  questions |-> attachImages(db,
                    buildQuestionsFromRows(ListQuestionsWithChoicesByWorkbook(db, id)))])
ApiGetAnnouncements(db) == ListLatestAnnouncements(db, Announced)
ApiGetAnnouncement(db, id) ==
  IF GetAnnouncement(db, id) = {} THEN NotFound
  ELSE Found(CHOOSE a \in GetAnnouncement(db, id) : TRUE)

------------------------------ \* publisher: what each object is built from
buildCategories(db) == ListAllCategories(db)
buildCategoryDetail(id, title, rows) == [id |-> id, title |-> title, workbooks |-> rows]
buildWorkbooks(db) == ListAllWorkbooks(db)
buildAnnouncements(db) == ListLatestAnnouncements(db, Announced)
buildWorkbookDetail(id, wb, rows, urls) ==
  [id |-> id, title |-> wb.title, category |-> wb.category,
   questions |-> [n \in DOMAIN rows |->
     [id |-> rows[n].id, text |-> rows[n].text,
      choices |-> [i \in DOMAIN rows[n].choices |-> rows[n].choices[i].text],
      correct |-> LastCorrect(rows[n].choices, NoKey),
      images |-> IF rows[n].id \in DOMAIN urls THEN urls[rows[n].id] ELSE << >>]]]

------------------------------ \* administration: reads
AdminQuestion(row, images) ==
  [id |-> row.id, text |-> row.text, images |-> images,
   choices |-> [i \in DOMAIN row.choices |->
                  [text |-> row.choices[i].text, correct |-> row.choices[i].correct]]]
AdminQuestions(db, rows) ==
  LET urls == GetImageURLsByQuestionIDs(db, {rows[n].id : n \in DOMAIN rows})
  IN  [n \in DOMAIN rows |-> AdminQuestion(rows[n],
         IF rows[n].id \in DOMAIN urls THEN urls[rows[n].id] ELSE << >>)]
AdminGetQuestion(db, q) ==
  IF GetQuestionByID(db, q) = {} THEN NotFound
  ELSE Found(AdminQuestion(RowsOf(db, q), GetImageURLsByQuestionID(db, q)))
AdminGetQuestions(db, limit, offset) ==
  Paged(limit, offset, CountQuestions(db),
        AdminQuestions(db, ListQuestionsWithChoices(db, limit, offset)))
AdminGetCategories(db, limit, offset) ==
  Paged(limit, offset, CountCategories(db), ListCategories(db, limit, offset))
AdminGetCategory(db, id) ==
  IF GetCategoryByID(db, id) = {} THEN NotFound
  ELSE Found([id |-> id, title |-> (CHOOSE c \in GetCategoryByID(db, id) : TRUE).title,
              workbooks |-> ListWorkbooksByCategory(db, id)])
AdminGetWorkbooks(db, limit, offset) ==
  Paged(limit, offset, CountWorkbooks(db), ListWorkbooks(db, limit, offset))
AdminGetWorkbook(db, id) ==
  IF GetWorkbookByID(db, id) = {} THEN NotFound
  ELSE Found([row |-> CHOOSE w \in GetWorkbookByID(db, id) : TRUE,
              questions |-> AdminQuestions(db, ListQuestionsWithChoicesByWorkbook(db, id))])
AdminGetAnnouncements(db, limit, offset) ==
  Paged(limit, offset, CountAnnouncements(db), ListAnnouncements(db, limit, offset))
AdminGetApps(db) == Found([total |-> CountApps(db), rows |-> ListApps(db)])
AdminGetApp(db, id) ==
  IF GetAppByID(db, id) = {} THEN NotFound ELSE Found(CHOOSE a \in GetAppByID(db, id) : TRUE)

------------------------------ \* administration: writes
(* The bodies of requests, decoded.                                         *)
QuestionBody(b) == /\ b.choices \in Seq([text : STRING, correct : BOOLEAN])
                   /\ b.images \in Seq(Nat)
WorkbookBody(b) == b.questions \in Seq(Nat)

Distinct(s) == \A i, j \in DOMAIN s : s[i] = s[j] => i = j
ImagesExist(db, images) == \A i \in DOMAIN images : \E m \in db.images : m.id = images[i]
QuestionsExist(db, qs) == \A i \in DOMAIN qs : QuestionExists(db, qs[i])

(* At least two choices, at least one of them correct: several may be.      *)
ValidChoices(b) == Len(b.choices) >= 2 /\ \E i \in DOMAIN b.choices : b.choices[i].correct

AdminCreateQuestion(db, b) ==
  LET q == db.seq.questions
      drawn == NextVal(db, "questions")
  IN  IF ~ValidChoices(b) THEN db
      ELSE IF QuestionExists(db, q) \/ ~(Distinct(b.images) /\ ImagesExist(db, b.images))
           THEN drawn
      ELSE CreateQuestionImage(
             CreateChoice(CreateSingleChoice(CreateQuestion(drawn, q), q, b.text), q, b.choices),
             q, b.images)
AdminUpdateQuestion(db, q, b) ==
  IF ~(ValidChoices(b) /\ QuestionExists(db, q)
       /\ Distinct(b.images) /\ ImagesExist(db, b.images)) THEN db
  ELSE CreateQuestionImage(DeleteQuestionImages(
         CreateChoice(DeleteChoicesByQuestionID(UpdateSingleChoice(db, q, b.text), q), q, b.choices),
         q), q, b.images)
AdminDeleteQuestion(db, q) == DeleteQuestion(db, q)

(* "omitted" in the request means published, in an update as in a create.   *)
IsPublished(b) == b.published # "false"
WorkbookRefsHold(db, b) ==
  /\ b.category = NoCategory \/ CategoryExists(db, b.category)
  /\ Distinct(b.questions) /\ QuestionsExist(db, b.questions)
AdminCreateWorkbook(db, b) ==
  LET id == db.seq.workbooks
      drawn == NextVal(db, "workbooks")
  IN  IF WorkbookExists(db, id) \/ ~WorkbookRefsHold(db, b) THEN drawn
      ELSE bulkInsertWorkbookQuestions(
             CreateWorkbook(drawn, id, b.title, b.category, IsPublished(b)), id, b.questions)
AdminUpdateWorkbook(db, id, b) ==
  IF ~(WorkbookExists(db, id) /\ WorkbookRefsHold(db, b)) THEN db
  ELSE bulkInsertWorkbookQuestions(DeleteWorkbookQuestions(
         UpdateWorkbook(db, id, b.title, b.category, IsPublished(b)), id), id, b.questions)
AdminDeleteWorkbook(db, id) == DeleteWorkbook(db, id)

AdminCreateCategory(db, title) ==
  LET drawn == NextVal(db, "categories")
  IN  IF CategoryExists(db, db.seq.categories) THEN drawn
      ELSE CreateCategory(drawn, db.seq.categories, title)
AdminUpdateCategory(db, id, title) ==
  IF CategoryExists(db, id) THEN UpdateCategory(db, id, title) ELSE db
AdminDeleteCategory(db, id) == DeleteCategory(db, id)

(* The slug is unique; apps.id is drawn before the index refuses it.        *)
SlugTaken(db, slug, by) == \E a \in db.apps : a.slug = slug /\ a.id # by
AdminCreateApp(db, slug) ==
  LET drawn == NextVal(db, "apps")
  IN  IF SlugTaken(db, slug, 0) THEN drawn ELSE CreateApp(drawn, db.seq.apps, slug)
AdminUpdateApp(db, id, slug) ==
  IF GetAppByID(db, id) = {} \/ SlugTaken(db, slug, id) THEN db ELSE UpdateApp(db, id, slug)
AdminDeleteApp(db, id) == DeleteApp(db, id)

(* b.publishedAt = 0: omitted; "" stands for a blank title or body.         *)
AdminCreateAnnouncement(db, b, now) ==
  IF b.title = "" THEN db
  ELSE CreateAnnouncement(NextVal(db, "announcements"), db.seq.announcements, b.title,
                          IF b.publishedAt = 0 THEN now ELSE b.publishedAt)
AdminUpdateAnnouncement(db, id, b) ==
  IF b.title = "" \/ GetAnnouncement(db, id) = {} THEN db
  ELSE LET a == CHOOSE a \in GetAnnouncement(db, id) : TRUE
       IN  UpdateAnnouncement(db, id, b.title,
                              IF b.publishedAt = 0 THEN a.publishedAt ELSE b.publishedAt)
AdminDeleteAnnouncement(db, id) == DeleteAnnouncement(db, id)

(* A create whose sequence is behind the rows draws a taken id and fails.   *)
(* The image row is stored before the URL is signed and before anything is  *)
(* uploaded, under a path (a UUID) no other image has.                      *)
NewPaths(db, paths) == paths \ {m.path : m \in db.images}
CreatePresignedUrl(db, path) ==
  LET id == db.seq.images
      drawn == NextVal(db, "images")
  IN  IF \E m \in db.images : m.id = id THEN drawn ELSE CreateImage(drawn, id, path)
=============================================================================
