----------------------------- MODULE MCLearning -----------------------------
(* Two workbooks that share a question; question 1 has its key at index 1,  *)
(* question 2 was imported with a "correct" beyond its choices: no key.     *)
EXTENDS Learning

Alike == Permutations(Submissions) \cup Permutations(Users)

SeedDB ==
  [categories |-> {}, announcements |-> {}, apps |-> {}, appCategories |-> {},
   workbooks |-> {[id |-> w, title |-> "w", category |-> NoCategory, published |-> TRUE] :
                  w \in {1, 2}},
   questions |-> {1, 2},
   singleChoices |-> {[question |-> q, text |-> "q"] : q \in {1, 2}},
   choices |-> {[question |-> q, index |-> i, text |-> IF i = 0 THEN "x" ELSE "y",
                 correct |-> q = 1 /\ i = 1] : q \in {1, 2}, i \in {0, 1}},
   images |-> {[id |-> 1, path |-> "1.png"]},
   questionImages |-> {[question |-> 1, image |-> 1, order |-> 0]},
   workbookQuestions |-> {[workbook |-> 1, question |-> 1, order |-> 0],
                          [workbook |-> 1, question |-> 2, order |-> 1],
                          [workbook |-> 2, question |-> 1, order |-> 0]},
   seq |-> [questions |-> 3, workbooks |-> 3, categories |-> 1, announcements |-> 1,
            apps |-> 1, images |-> 2]]

Choice(text, correct) == [text |-> text, correct |-> correct]
OneKey == {[text |-> "r", choices |-> <<Choice("x", TRUE), Choice("y", FALSE)>>, images |-> << >>]}
Reordered == {[title |-> "w", category |-> NoCategory, published |-> "false", questions |-> <<2>>]}

Answer(q, selected) == [question |-> q, selected |-> selected]
SomeBodies == {[workbook |-> 1, answers |-> <<Answer(1, 1), Answer(2, 1)>>],
               [workbook |-> 1, answers |-> <<Answer(2, 0), Answer(1, 0)>>],
               [workbook |-> 2, answers |-> <<Answer(1, 1)>>]}
=============================================================================
