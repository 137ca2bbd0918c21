---------------------------- MODULE MCPublisher ----------------------------
(* A small seeded database, and the requests the administration API gets.   *)
EXTENDS Publisher

Twins == Permutations(Publishes)

SeedDB ==
  [categories |-> {[id |-> 1, title |-> "c"]},
   workbooks |-> {[id |-> 1, title |-> "w", category |-> 1, published |-> TRUE]},
   questions |-> {1, 2},
   singleChoices |-> {[question |-> 1, text |-> "q"], [question |-> 2, text |-> "q"]},
   choices |-> {[question |-> q, index |-> i, text |-> IF i = 0 THEN "x" ELSE "y",
                 correct |-> (i = q - 1)] : q \in {1, 2}, i \in {0, 1}},
   images |-> {[id |-> 1, path |-> "1.png"]},
   questionImages |-> {[question |-> 1, image |-> 1, order |-> 0]},
   workbookQuestions |-> {[workbook |-> 1, question |-> 1, order |-> 0],
                          [workbook |-> 1, question |-> 2, order |-> 1]},
   announcements |-> {[id |-> 1, title |-> "a", publishedAt |-> 2]},
   apps |-> {[id |-> 1, slug |-> "s"]},
   appCategories |-> {[app |-> 1, category |-> 1, sort |-> 0]},
   seq |-> [questions |-> 3, workbooks |-> 2, categories |-> 2, announcements |-> 2,
            apps |-> 2, images |-> 2]]

Choice(text, correct) == [text |-> text, correct |-> correct]
Question(cs, images) == [text |-> "r", choices |-> cs, images |-> images]
SomeQuestions ==
  {Question(<<Choice("x", FALSE), Choice("y", TRUE), Choice("z", FALSE)>>, <<2, 1>>),
   Question(<<Choice("y", TRUE), Choice("x", FALSE)>>, << >>)}

Workbook(category, published, questions) ==
  [title |-> "v", category |-> category, published |-> published, questions |-> questions]
SomeWorkbooks == {Workbook(1, "false", <<1>>), Workbook(0, "omitted", <<2, 1>>)}
SomeAnnouncements == {[title |-> "b", publishedAt |-> 0], [title |-> "b", publishedAt |-> 2]}
=============================================================================
