----------------------------- MODULE MCSeeding -----------------------------
(* A data directory, an earlier one with a question that has no key, and a  *)
(* database seeded from something else; ids stay below MaxId.               *)
EXTENDS Seeding

Question(cs, correct, images) ==
  [text |-> "q", choices |-> cs, correct |-> correct, images |-> images]
Directory ==
  [images |-> (1 :> "1.png" @@ 2 :> "2.png"),
   questions |-> (1 :> Question(<<"x", "y">>, 1, <<2, 1>>) @@ 2 :> Question(<<"x", "y">>, 0, << >>)),
   workbooks |-> (1 :> [title |-> "w", questions |-> <<2, 1>>]
               @@ 2 :> [title |-> "w", questions |-> <<1>>]),
   categories |-> (1 :> [title |-> "c", workbooks |-> <<1>>]
                @@ 2 :> [title |-> "c", workbooks |-> <<2>>])]
NoKeyDirectory ==
  [images |-> << >>, questions |-> 2 :> Question(<<"x", "y">>, 2, << >>),
   workbooks |-> << >>, categories |-> << >>]

SomeData == {Directory, NoKeyDirectory}

SeedDB ==
  [categories |-> {[id |-> 1, title |-> "old"]},
   workbooks |-> {[id |-> 1, title |-> "w", category |-> 1, published |-> FALSE]},
   questions |-> {1, 3},
   singleChoices |-> {[question |-> 1, text |-> "q"], [question |-> 3, text |-> "q"]},
   choices |-> {[question |-> q, index |-> i, text |-> IF i = 0 THEN "x" ELSE "y",
                 correct |-> i = 0] : q \in {1, 3}, i \in {0, 1}},
   images |-> {[id |-> 1, path |-> "1.png"]},
   questionImages |-> {[question |-> 1, image |-> 1, order |-> 0]},
   workbookQuestions |-> {[workbook |-> 1, question |-> 1, order |-> 0],
                          [workbook |-> 1, question |-> 3, order |-> 1]},
   announcements |-> {}, apps |-> {[id |-> 1, slug |-> "s"]},
   appCategories |-> {[app |-> 1, category |-> 1, sort |-> 0]},
   seq |-> [questions |-> 4, workbooks |-> 2, categories |-> 2, announcements |-> 1,
            apps |-> 2, images |-> 2]]

Choice(text, correct) == [text |-> text, correct |-> correct]
Body(key2) == [text |-> "r", choices |-> <<Choice("x", TRUE), Choice("y", key2)>>, images |-> << >>]
OneOrTwoKeys == {Body(FALSE), Body(TRUE)}
SomeWorkbooks == {[title |-> "w", category |-> 1, published |-> "false", questions |-> <<1, 2>>]}
=============================================================================
