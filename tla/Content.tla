------------------------------ MODULE Content ------------------------------
(***************************************************************************)
(* The content database that Publisher, Learning and Seeding share with    *)
(* the administration: its tables, and the requests that change them.      *)
(***************************************************************************)
EXTENDS ContentHandlers

CONSTANTS InitDB,                        \* a seeded database
          QuestionBodies, WorkbookBodies \* requests of the administration

VARIABLE db                              \* the content tables

ASSUME ContentAssumption ==
  /\ TablesOK(InitDB) /\ SchemaOK(InitDB)
  /\ \A b \in QuestionBodies : QuestionBody(b)
  /\ \A b \in WorkbookBodies : WorkbookBody(b)

(* Content as the handlers and `datasync apply` write it: the choices of a  *)
(* question are numbered from 0 and one of them is correct, no two          *)
(* questions have the same place in a workbook.                             *)
Numbered(C) == \A c \in C : \A j \in 0 .. c.index - 1 : \E a \in C : a.question = c.question /\ a.index = j
Answerable(Q, C) == \A q \in Q : \E c \in C : c.question = q /\ c.correct
InPlace(R) == \A r, s \in R : (r.workbook = s.workbook /\ r.order = s.order) => r = s
(* The administration may also give a question several correct choices.     *)
SingleKey(C) == \A a, c \in C : (a.question = c.question /\ a.correct /\ c.correct) => a = c
Arranged(d) ==
  /\ Numbered(d.choices) /\ Answerable(d.questions, d.choices) /\ InPlace(d.workbookQuestions)
  /\ \A r \in d.appCategories : r.sort \in Nat
  /\ \A a \in d.announcements : a.publishedAt \in Nat
=============================================================================
