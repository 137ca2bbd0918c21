------------------------------ MODULE Importer ------------------------------
(***************************************************************************)
(* The transactions of internal/importer, which empties the content tables *)
(* and fills them from a data directory (see Datasync), one file after the *)
(* other.  It validates nothing.  A transaction is the database it leaves, *)
(* in a set that is empty when a foreign key refuses one of its rows.      *)
(***************************************************************************)
EXTENDS Datasync

Committed(after) == {b \in {after} : ConstraintsHold(b)}
Times(s, Step(_, _), db) ==      \* Step for each index of s, in order
  LET after[i \in 0 .. Len(s)] == IF i = 0 THEN db ELSE Step(after[i - 1], i)
  IN  after[Len(s)]

clearData(db) ==
  DeleteAllImages(DeleteAllQuestions(DeleteAllSingleChoices(DeleteAllChoices(
    DeleteAllQuestionImages(DeleteAllCategories(DeleteAllWorkbooks(DeleteAllWorkbookQuestions(db))))))))

importImages(y, db) ==
  Committed(ForEach(DOMAIN y.images, LAMBDA b, id : ImportImage(b, id, y.images[id]), db))

ImportNthChoice(y, q, b, i) ==
  ImportChoice(b, q, [index |-> i - 1, text |-> y.questions[q].choices[i],
                      correct |-> i - 1 = y.questions[q].correct])
ImportNthImage(y, q, b, i) == ImportQuestionImage(b, q, y.questions[q].images[i], i - 1)
importQuestion(y, q, db) ==
  LET NthChoice(b, i) == ImportNthChoice(y, q, b, i)
      NthImage(b, i) == ImportNthImage(y, q, b, i)
  IN  Committed(Times(y.questions[q].images, NthImage, Times(y.questions[q].choices, NthChoice,
        ImportSingleChoice(ImportQuestion(db, q), q, y.questions[q].text))))

ImportNthQuestion(y, w, b, i) == ImportWorkbookQuestion(b, w, y.workbooks[w].questions[i], i - 1)
importWorkbook(y, w, db) ==
  LET Nth(b, i) == ImportNthQuestion(y, w, b, i)
  IN  Committed(Times(y.workbooks[w].questions, Nth,
                      ImportWorkbook(db, w, y.workbooks[w].title)))

ImportNthWorkbook(y, c, b, i) == SetWorkbookCategory(b, c, y.categories[c].workbooks[i])
importCategory(y, c, db) ==
  LET Nth(b, i) == ImportNthWorkbook(y, c, b, i)
  IN  Committed(Times(y.categories[c].workbooks, Nth,
                      ImportCategory(db, c, y.categories[c].title)))

(* Connections the proxy drops are retried, other errors are not.           *)
Attempts == 5
=============================================================================
