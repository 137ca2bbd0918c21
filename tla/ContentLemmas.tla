--------------------------- MODULE ContentLemmas ---------------------------
(***************************************************************************)
(* The content tables, for every database that satisfies the schema and    *)
(* every request: what each administration handler leaves behind, ORDER BY *)
(* and pages, and what the endpoints show of one database.                 *)
(***************************************************************************)
EXTENDS Content, FiniteSetTheorems, SequenceTheorems, TLAPS

(* The schema in parts, each about the few tables it names.  The tools that *)
(* seed the database leave its sequences behind the rows for a while; what  *)
(* holds meanwhile is Intact(FALSE, d).                                       *)
SerialOK(rows, next, ahead) ==
  /\ IsFiniteSet(rows) /\ Keyed(rows) /\ next \in Nat \ {0}
  /\ \A r \in rows : r.id \in Nat \ {0} /\ (ahead => r.id < next)
SerialsOK(d, ahead) ==
  /\ DOMAIN d = TableNames \cup {"seq"} /\ DOMAIN d.seq = Serial \cup {"questions"}
  /\ \A t \in Serial : SerialOK(d[t], d.seq[t], ahead)
ChoicesOK(C) ==
  /\ IsFiniteSet(C)
  /\ \A c \in C : c.index \in Nat /\ c.correct \in BOOLEAN
  /\ \A a, c \in C : (a.question = c.question /\ a.index = c.index) => a = c
ShownOK(R) ==
  /\ IsFiniteSet(R)
  /\ \A r \in R : r.order \in Nat
  /\ \A r, s \in R : (r.question = s.question /\ (r.image = s.image \/ r.order = s.order)) => r = s
PlacedOK(R) ==
  /\ IsFiniteSet(R)
  /\ \A r \in R : r.order \in Nat
  /\ \A r, s \in R : (r.workbook = s.workbook /\ r.question = s.question) => r = s
LinkedOK(R) ==
  /\ IsFiniteSet(R)
  /\ \A r, s \in R : (r.app = s.app /\ r.category = s.category) => r = s
QuestionsOK(d, ahead) ==
  /\ d.seq.questions \in Nat \ {0}
  /\ IsFiniteSet(d.questions) /\ IsFiniteSet(d.singleChoices) /\ ChoicesOK(d.choices)
  /\ \A q \in d.questions : q \in Nat \ {0} /\ (ahead => q < d.seq.questions)
  /\ \A s \in d.singleChoices : DOMAIN s = {"question", "text"} /\ s.question \in d.questions
  /\ \A s, t \in d.singleChoices : s.question = t.question => s = t
  /\ \A q \in d.questions : \E s \in d.singleChoices : s.question = q
  /\ \A c \in d.choices : c.question \in d.questions
PlacesOK(d) ==
  /\ PlacedOK(d.workbookQuestions)
  /\ \A r \in d.workbookQuestions : WorkbookExists(d, r.workbook) /\ r.question \in d.questions
ImagesOK(d) ==
  /\ ShownOK(d.questionImages)
  /\ \A m, n \in d.images : m.path = n.path => m = n
  /\ \A r \in d.questionImages : /\ r.question \in d.questions
                                 /\ \E m \in d.images : m.id = r.image
CategoriesOK(d) ==
  /\ \A c \in d.categories : DOMAIN c = {"id", "title"}
  /\ \A w \in d.workbooks : /\ DOMAIN w = {"id", "title", "category", "published"}
                            /\ w.category = NoCategory \/ CategoryExists(d, w.category)
AppsOK(d) ==
  /\ LinkedOK(d.appCategories)
  /\ \A a \in d.apps : DOMAIN a = {"id", "slug"}
  /\ \A a, b \in d.apps : a.slug = b.slug => a = b
  /\ \A r \in d.appCategories : CategoryExists(d, r.category) /\ \E a \in d.apps : a.id = r.app
Intact(ahead, d) == /\ SerialsOK(d, ahead) /\ QuestionsOK(d, ahead) /\ PlacesOK(d)
                  /\ ImagesOK(d) /\ CategoriesOK(d) /\ AppsOK(d)
Sound(d) == Intact(TRUE, d)

(* A statement that writes the tables F leaves the others alone.            *)
Same(d, e, F) ==
  DOMAIN e = DOMAIN d /\ \A f \in (TableNames \cup {"seq"}) \ F : e[f] = d[f]

(* The parts together are the schema.                                       *)
LEMMA SoundIsSchema ==
  ASSUME NEW d
  PROVE  Sound(d) <=> TablesOK(d) /\ SchemaOK(d)
<1>1. ASSUME Sound(d) PROVE TablesOK(d)
  <2>1. \A t \in TableNames : IsFiniteSet(d[t])
    BY <1>1 DEF Sound, Intact, SerialsOK, SerialOK, QuestionsOK, ChoicesOK, ImagesOK, ShownOK, PlacesOK,
       PlacedOK, AppsOK, LinkedOK, TableNames
  <2>2. /\ DOMAIN d = TableNames \cup {"seq"} /\ DOMAIN d.seq = Serial \cup {"questions"}
        /\ \A t \in DOMAIN d.seq : d.seq[t] \in Nat \ {0}
        /\ \A t \in Serial : \A r \in d[t] : r.id \in Nat \ {0} /\ r.id < d.seq[t]
    BY <1>1 DEF Sound, Intact, SerialsOK, SerialOK, QuestionsOK
  <2>3. /\ \A q \in d.questions : q \in Nat \ {0}
        /\ \A s \in d.singleChoices : DOMAIN s = {"question", "text"}
        /\ \A c \in d.choices : c.index \in Nat /\ c.correct \in BOOLEAN
    BY <1>1 DEF Sound, Intact, QuestionsOK, ChoicesOK
  <2>4. \A r \in d.questionImages \cup d.workbookQuestions : r.order \in Nat
    BY <1>1 DEF Sound, Intact, ImagesOK, ShownOK, PlacesOK, PlacedOK
  <2>5. /\ \A c \in d.categories : DOMAIN c = {"id", "title"}
        /\ \A w \in d.workbooks : DOMAIN w = {"id", "title", "category", "published"}
        /\ \A a \in d.apps : DOMAIN a = {"id", "slug"}
    BY <1>1 DEF Sound, Intact, CategoriesOK, AppsOK
  <2> QED
    BY <2>1, <2>2, <2>3, <2>4, <2>5 DEF TablesOK
<1>2. ASSUME Sound(d) PROVE ConstraintsHold(d)
  <2>1. \A T \in {d.categories, d.workbooks, d.announcements, d.apps, d.images} : Keyed(T)
    BY <1>2 DEF Sound, Intact, SerialsOK, SerialOK, Serial
  <2>2. /\ \A s, t \in d.singleChoices : s.question = t.question => s = t
        /\ \A c, e \in d.choices : (c.question = e.question /\ c.index = e.index) => c = e
        /\ \A r \in d.singleChoices \cup d.choices : QuestionExists(d, r.question)
        /\ \A q \in d.questions : GetQuestionByID(d, q) # {}
    BY <1>2 DEF Sound, Intact, QuestionsOK, ChoicesOK, QuestionExists, GetQuestionByID
  <2>3. /\ \A m, n \in d.images : m.path = n.path => m = n
        /\ \A r, s \in d.questionImages :
             (r.question = s.question /\ (r.image = s.image \/ r.order = s.order)) => r = s
        /\ \A r \in d.questionImages :
             QuestionExists(d, r.question) /\ \E m \in d.images : m.id = r.image
    BY <1>2 DEF Sound, Intact, ImagesOK, ShownOK, QuestionExists
  <2>4. /\ \A r, s \in d.workbookQuestions :
             (r.workbook = s.workbook /\ r.question = s.question) => r = s
        /\ \A r \in d.workbookQuestions :
             WorkbookExists(d, r.workbook) /\ QuestionExists(d, r.question)
        /\ \A w \in d.workbooks : w.category = NoCategory \/ CategoryExists(d, w.category)
    BY <1>2 DEF Sound, Intact, PlacesOK, PlacedOK, CategoriesOK, QuestionExists
  <2>5. /\ \A a, b \in d.apps : a.slug = b.slug => a = b
        /\ \A r, s \in d.appCategories : (r.app = s.app /\ r.category = s.category) => r = s
        /\ \A r \in d.appCategories : CategoryExists(d, r.category) /\ GetAppByID(d, r.app) # {}
    BY <1>2 DEF Sound, Intact, AppsOK, LinkedOK, GetAppByID
  <2> QED
    BY <2>1, <2>2, <2>3, <2>4, <2>5 DEF ConstraintsHold
<1>3. ASSUME Sound(d) PROVE SequencesAhead(d)
  BY <1>3 DEF Sound, Intact, SerialsOK, SerialOK, QuestionsOK, SequencesAhead, Serial
<1>4. ASSUME TablesOK(d), SchemaOK(d) PROVE Sound(d)
  <2>1. SerialsOK(d, TRUE)
    <3>1. \A t \in Serial : Keyed(d[t])
      BY <1>4 DEF SchemaOK, ConstraintsHold, Serial
    <3> QED
      BY <1>4, <3>1 DEF TablesOK, SerialsOK, SerialOK, TableNames
  <2>2. QuestionsOK(d, TRUE)
    <3>1. ChoicesOK(d.choices)
      BY <1>4 DEF TablesOK, SchemaOK, ConstraintsHold, ChoicesOK, TableNames
    <3> QED
      BY <1>4, <3>1 DEF TablesOK, SchemaOK, ConstraintsHold, SequencesAhead, QuestionsOK,
         QuestionExists, GetQuestionByID, TableNames
  <2>3. PlacesOK(d)
    BY <1>4 DEF TablesOK, SchemaOK, ConstraintsHold, PlacesOK, PlacedOK, QuestionExists, TableNames
  <2>4. ImagesOK(d)
    BY <1>4 DEF TablesOK, SchemaOK, ConstraintsHold, ImagesOK, ShownOK, QuestionExists, TableNames
  <2>5. CategoriesOK(d) /\ AppsOK(d)
    BY <1>4 DEF TablesOK, SchemaOK, ConstraintsHold, CategoriesOK, AppsOK, LinkedOK, GetAppByID,
       TableNames
  <2> QED
    BY <2>1, <2>2, <2>3, <2>4, <2>5 DEF Sound, Intact
<1> QED
  BY <1>1, <1>2, <1>3, <1>4 DEF SchemaOK

(* What holds of the rows of a table holds of fewer of them.                *)
LEMMA FewerRows ==
  ASSUME NEW R, NEW T, T \subseteq R
  PROVE  /\ IsFiniteSet(R) => IsFiniteSet(T)
         /\ ChoicesOK(R) => ChoicesOK(T)
         /\ ShownOK(R) => ShownOK(T)
         /\ PlacedOK(R) => PlacedOK(T)
         /\ LinkedOK(R) => LinkedOK(T)
BY FS_Subset DEF ChoicesOK, ShownOK, PlacedOK, LinkedOK

-----------------------------------------------------------------------------
(* Tables with a serial id: what a statement may make of the rows.          *)
LEMMA SerialFewer ==
  ASSUME NEW ahead \in BOOLEAN, NEW R, NEW next, SerialOK(R, next, ahead), NEW T, T \subseteq R
  PROVE  SerialOK(T, next, ahead)
<1>1. IsFiniteSet(T)
  BY FS_Subset DEF SerialOK
<1> QED
  BY <1>1 DEF SerialOK, Keyed

(* A number that is drawn and not used leaves a gap.                        *)
LEMMA SerialDrawn ==
  ASSUME NEW ahead \in BOOLEAN, NEW R, NEW next, SerialOK(R, next, ahead)
  PROVE  SerialOK(R, next + 1, ahead)
BY DEF SerialOK

(* The next number becomes a row.                                           *)
LEMMA SerialAdded ==
  ASSUME NEW ahead \in BOOLEAN, NEW R, NEW next, SerialOK(R, next, ahead), NEW r, r.id = next,
         \A s \in R : s.id # next
  PROVE  SerialOK(R \cup {r}, next + 1, ahead)
<1>1. IsFiniteSet(R \cup {r})
  BY FS_AddElement DEF SerialOK
<1>2. \A s \in R : s.id \in Nat \ {0} /\ (ahead => s.id < next)
  BY DEF SerialOK
<1>3. Keyed(R \cup {r})
  BY DEF SerialOK, Keyed
<1> QED
  BY <1>1, <1>2, <1>3 DEF SerialOK

(* A row is rewritten under its id.                                         *)
LEMMA SerialReplaced ==
  ASSUME NEW ahead \in BOOLEAN, NEW R, NEW next, SerialOK(R, next, ahead), NEW r, \E s \in R : s.id = r.id
  PROVE  SerialOK({s \in R : s.id # r.id} \cup {r}, next, ahead)
<1> DEFINE T == {s \in R : s.id # r.id}
<1>1. IsFiniteSet(T \cup {r})
  BY FS_Subset, FS_AddElement DEF SerialOK
<1>2. Keyed(T \cup {r})
  BY DEF SerialOK, Keyed
<1> QED
  BY <1>1, <1>2 DEF SerialOK

(* All rows are rewritten under their ids.                                  *)
LEMMA SerialChanged ==
  ASSUME NEW ahead \in BOOLEAN, NEW R, NEW next, SerialOK(R, next, ahead), NEW T, NEW f \in Surjection(R, T),
         \A r \in R : f[r].id = r.id
  PROVE  SerialOK(T, next, ahead)
<1>1. IsFiniteSet(T)
  BY FS_Surjection DEF SerialOK
<1>2. \A t \in T : \E r \in R : t = f[r] /\ t.id = r.id
  BY DEF Surjection
<1>3. Keyed(T)
  BY <1>2 DEF SerialOK, Keyed
<1> QED
  BY <1>1, <1>2, <1>3 DEF SerialOK

-----------------------------------------------------------------------------
(* Drawing an id moves one sequence and touches no table.                   *)
LEMMA Drawn ==
  ASSUME NEW ahead \in BOOLEAN, NEW d, SerialsOK(d, ahead), NEW table \in Serial \cup {"questions"}
  PROVE  LET e == NextVal(d, table)
         IN  /\ Same(d, e, {"seq"}) /\ DOMAIN e.seq = DOMAIN d.seq
             /\ e.seq[table] = d.seq[table] + 1
             /\ \A t \in DOMAIN d.seq : t # table => e.seq[t] = d.seq[t]
BY DEF SerialsOK, NextVal, Same, TableNames, Serial

(* Drawing a number breaks nothing.                                         *)
LEMMA DrawnSound ==
  ASSUME NEW ahead \in BOOLEAN, NEW d, Intact(ahead, d), NEW table \in Serial \cup {"questions"}
  PROVE  Intact(ahead, NextVal(d, table))
<1> DEFINE e == NextVal(d, table)
<1>1. /\ Same(d, e, {"seq"}) /\ DOMAIN e.seq = DOMAIN d.seq
      /\ e.seq[table] = d.seq[table] + 1
      /\ \A t \in DOMAIN d.seq : t # table => e.seq[t] = d.seq[t]
  BY Drawn DEF Intact
<1> HIDE DEF e
<1>2. \A t \in Serial : e[t] = d[t]
  BY <1>1 DEF Same, TableNames, Serial
<1>3. ASSUME NEW t \in Serial PROVE SerialOK(e[t], e.seq[t], ahead)
  <2>1. t \in DOMAIN d.seq /\ SerialOK(d[t], d.seq[t], ahead)
    BY DEF Intact, SerialsOK
  <2> QED
    BY <1>1, <1>2, <2>1, SerialDrawn
<1>4. SerialsOK(e, ahead)
  BY <1>1, <1>3 DEF Intact, SerialsOK, Same
<1>5. QuestionsOK(e, ahead)
  BY <1>1 DEF Intact, SerialsOK, QuestionsOK, Same, TableNames
<1>6. PlacesOK(e) /\ ImagesOK(e) /\ CategoriesOK(e) /\ AppsOK(e)
  BY <1>1 DEF Intact, PlacesOK, ImagesOK, CategoriesOK, AppsOK, Same, TableNames, Serial,
     WorkbookExists, CategoryExists
<1> QED
  BY <1>4, <1>5, <1>6 DEF Intact, e

(* A statement that writes no serial table keeps what is known of them.     *)
LEMMA SerialsKept ==
  ASSUME NEW ahead \in BOOLEAN, NEW d, NEW e, SerialsOK(d, ahead), Same(d, e, TableNames \ Serial)
  PROVE  SerialsOK(e, ahead)
<1>1. e.seq = d.seq /\ \A t \in Serial : e[t] = d[t]
  BY DEF Same, TableNames, Serial
<1> QED
  BY <1>1 DEF SerialsOK, Same

-----------------------------------------------------------------------------
(* Questions.                                                               *)
NoneOf(R, q) == \A r \in R : r.question # q
GivesChoices(d, e, q, b) ==
  /\ Same(d, e, {"choices"}) /\ ChoicesOK(e.choices)
  /\ \A c \in e.choices :
       \/ c \in d.choices
       \/ /\ c.question = q
          /\ \E i \in DOMAIN b.choices : c.index = i - 1 /\ c.correct = b.choices[i].correct
GivesImages(d, e, q, b) ==
  /\ Same(d, e, {"questionImages"}) /\ ShownOK(e.questionImages)
  /\ \A r \in e.questionImages :
       \/ r \in d.questionImages
       \/ r.question = q /\ \E i \in DOMAIN b.images : r.image = b.images[i]

(* Naming the choices of a question that has none adds them, numbered.      *)
LEMMA WrittenChoices ==
  ASSUME NEW d, DOMAIN d = TableNames \cup {"seq"}, NEW q, NEW b, QuestionBody(b),
         ChoicesOK(d.choices), NoneOf(d.choices, q)
  PROVE  GivesChoices(d, CreateChoice(d, q, b.choices), q, b)
<1> DEFINE e == CreateChoice(d, q, b.choices)
           cs == b.choices
           n == Len(cs)
           row(i) == [question |-> q, index |-> i - 1, text |-> cs[i].text, correct |-> cs[i].correct]
           new == {row(i) : i \in 1 .. n}
<1>1. n \in Nat /\ DOMAIN cs = 1 .. n /\ \A i \in 1 .. n : cs[i].correct \in BOOLEAN
  <2> DEFINE C == [text : STRING, correct : BOOLEAN]
  <2>1. cs \in Seq(C) /\ \A c \in C : c.correct \in BOOLEAN
    BY DEF QuestionBody
  <2> HIDE DEF C
  <2>2. n \in Nat /\ DOMAIN cs = 1 .. n /\ \A i \in 1 .. n : cs[i] \in C
    BY <2>1
  <2> QED
    BY <2>1, <2>2
<1>2. Same(d, e, {"choices"}) /\ e.choices = d.choices \cup new
  BY <1>1 DEF CreateChoice, Same, TableNames
<1>3. \A i \in 1 .. n : /\ row(i).question = q /\ row(i).index = i - 1
                        /\ row(i).correct = cs[i].correct
  OBVIOUS
<1>4. IsFiniteSet(new)
  <2>1. [i \in 1 .. n |-> row(i)] \in Surjection(1 .. n, new)
    BY DEF Surjection
  <2> QED
    BY <1>1, <2>1, FS_Interval, FS_Surjection
<1> HIDE DEF e, row, cs, n
<1>5. IsFiniteSet(d.choices \cup new)
  BY <1>4, FS_Union DEF ChoicesOK
<1>6. \A c \in new : \E i \in 1 .. n :
        c = row(i) /\ c.question = q /\ c.index = i - 1 /\ c.correct = cs[i].correct
  BY <1>3
<1>7. \A c \in new : c.index \in Nat /\ c.correct \in BOOLEAN
  BY <1>1, <1>6
<1>8. \A a, c \in new : a.index = c.index => a = c
  <2> SUFFICES ASSUME NEW i \in 1 .. n, NEW j \in 1 .. n, row(i).index = row(j).index
               PROVE  row(i) = row(j)
    BY <1>6
  <2>1. i = j
    BY <1>1, <1>3
  <2> QED
    BY <2>1
<1>9. \A c \in new : c.question = q
  BY <1>6
<1> HIDE DEF new
<1>10. ChoicesOK(d.choices \cup new)
  BY <1>5, <1>7, <1>8, <1>9 DEF ChoicesOK, NoneOf
<1>11. \A c \in e.choices :
         \/ c \in d.choices
         \/ /\ c.question = q
            /\ \E i \in DOMAIN cs : c.index = i - 1 /\ c.correct = cs[i].correct
  BY <1>1, <1>2, <1>6
<1> QED
  BY <1>2, <1>10, <1>11 DEF GivesChoices, e, cs

(* Naming the images of a question adds rows about that question and images *)
(* that exist.                                                              *)
LEMMA WrittenImages ==
  ASSUME NEW d, DOMAIN d = TableNames \cup {"seq"}, NEW q, NEW b, QuestionBody(b),
         Distinct(b.images), ShownOK(d.questionImages), NoneOf(d.questionImages, q)
  PROVE  GivesImages(d, CreateQuestionImage(d, q, b.images), q, b)
<1> DEFINE e == CreateQuestionImage(d, q, b.images)
           images == b.images
           n == Len(images)
           row(i) == [question |-> q, image |-> images[i], order |-> i - 1]
           new == {row(i) : i \in 1 .. n}
<1>1. n \in Nat /\ DOMAIN images = 1 .. n
  BY DEF QuestionBody
<1>2. Same(d, e, {"questionImages"}) /\ e.questionImages = d.questionImages \cup new
  BY <1>1 DEF CreateQuestionImage, Same, TableNames
<1>3. \A i \in 1 .. n : row(i).question = q /\ row(i).image = images[i] /\ row(i).order = i - 1
  OBVIOUS
<1>4. IsFiniteSet(new)
  <2>1. [i \in 1 .. n |-> row(i)] \in Surjection(1 .. n, new)
    BY DEF Surjection
  <2> QED
    BY <1>1, <2>1, FS_Interval, FS_Surjection
<1>5. \A i, j \in 1 .. n : images[i] = images[j] => i = j
  BY <1>1 DEF Distinct
<1> HIDE DEF e, row, images, n
<1>6. IsFiniteSet(d.questionImages \cup new)
  BY <1>4, FS_Union DEF ShownOK
<1>7. \A r \in new : \E i \in 1 .. n :
        r = row(i) /\ r.question = q /\ r.image = images[i] /\ r.order = i - 1
  BY <1>3
<1>8. \A r \in new : r.order \in Nat
  BY <1>1, <1>7
<1>9. \A r, s \in new : (r.image = s.image \/ r.order = s.order) => r = s
  <2> SUFFICES ASSUME NEW i \in 1 .. n, NEW j \in 1 .. n,
                      row(i).image = row(j).image \/ row(i).order = row(j).order
               PROVE  row(i) = row(j)
    BY <1>7
  <2>1. i = j
    BY <1>1, <1>3, <1>5
  <2> QED
    BY <2>1
<1>10. \A r \in new : r.question = q
  BY <1>7
<1> HIDE DEF new
<1>11. ShownOK(d.questionImages \cup new)
  BY <1>6, <1>8, <1>9, <1>10 DEF ShownOK, NoneOf
<1>12. \A r \in e.questionImages :
         \/ r \in d.questionImages
         \/ /\ r.question = q
            /\ \E i \in DOMAIN images : r.image = images[i]
  BY <1>1, <1>2, <1>7
<1> QED
  BY <1>2, <1>11, <1>12 DEF GivesImages, e, images

(* A question comes with its row of single_choices, choices and images.     *)
LEMMA CreatedQuestion ==
  ASSUME NEW ahead \in BOOLEAN, NEW d, Intact(ahead, d), NEW b, QuestionBody(b)
  PROVE  Intact(ahead, AdminCreateQuestion(d, b))
<1> DEFINE q == d.seq.questions
           drawn == NextVal(d, "questions")
           row == [question |-> q, text |-> b.text]
           c == CreateSingleChoice(CreateQuestion(drawn, q), q, b.text)
           g == CreateChoice(c, q, b.choices)
           e == CreateQuestionImage(g, q, b.images)
<1>1. Intact(ahead, drawn)
  BY DrawnSound
<1>2. CASE ~ValidChoices(b)
  BY <1>2 DEF AdminCreateQuestion
<1>3. CASE ValidChoices(b) /\ (QuestionExists(d, q) \/ ~(Distinct(b.images) /\ ImagesExist(d, b.images)))
  BY <1>1, <1>3 DEF AdminCreateQuestion
<1>4. CASE ValidChoices(b) /\ ~QuestionExists(d, q) /\ Distinct(b.images) /\ ImagesExist(d, b.images)
  <2>1. AdminCreateQuestion(d, b) = e
    BY <1>4 DEF AdminCreateQuestion
  <2>2. /\ Same(d, drawn, {"seq"}) /\ DOMAIN drawn.seq = DOMAIN d.seq
        /\ drawn.seq.questions = q + 1 /\ \A t \in DOMAIN d.seq : t # "questions" => drawn.seq[t] = d.seq[t]
    BY Drawn DEF Intact
  <2>3. /\ DOMAIN drawn = TableNames \cup {"seq"} /\ drawn.questions = d.questions
        /\ drawn.singleChoices = d.singleChoices /\ SerialsOK(drawn, ahead)
    BY <1>1, <2>2 DEF Intact, SerialsOK, Same, TableNames
  <2> HIDE DEF drawn
  <2>4. /\ Same(drawn, c, {"questions", "singleChoices"})
        /\ c.questions = d.questions \cup {q} /\ c.singleChoices = d.singleChoices \cup {row}
    BY <2>3 DEF CreateSingleChoice, CreateQuestion, Same, TableNames
  <2>5. row.question = q /\ DOMAIN row = {"question", "text"}
    OBVIOUS
  <2> HIDE DEF c, row, q
  <2>6. /\ c.choices = d.choices /\ c.questionImages = d.questionImages
        /\ DOMAIN c = TableNames \cup {"seq"}
    BY <2>2, <2>3, <2>4 DEF Same, TableNames
  <2>7. q \notin d.questions /\ q \in Nat \ {0}
    BY <1>4 DEF QuestionExists, q, Intact, QuestionsOK
  <2>8. /\ Same(c, e, {"choices", "questionImages"})
        /\ ChoicesOK(e.choices) /\ ShownOK(e.questionImages)
        /\ \A r \in e.choices : r \in d.choices \/ r.question = q
        /\ \A r \in e.questionImages :
             \/ r \in d.questionImages
             \/ /\ r.question = q
                /\ \E i \in DOMAIN b.images : r.image = b.images[i]
    <3>1. /\ ChoicesOK(c.choices) /\ NoneOf(c.choices, q)
          /\ ShownOK(c.questionImages) /\ NoneOf(c.questionImages, q)
      BY <2>6, <2>7 DEF Intact, QuestionsOK, ImagesOK, NoneOf
    <3>2. GivesChoices(c, g, q, b)
      BY <2>6, <3>1, WrittenChoices
    <3> HIDE DEF g
    <3>3. g.questionImages = c.questionImages /\ DOMAIN g = TableNames \cup {"seq"}
      BY <2>6, <3>2 DEF GivesChoices, Same, TableNames
    <3>4. GivesImages(g, e, q, b)
      BY <1>4, <3>1, <3>3, WrittenImages
    <3> HIDE DEF e
    <3>5. Same(c, e, {"choices", "questionImages"}) /\ e.choices = g.choices
      BY <3>2, <3>4 DEF GivesChoices, GivesImages, Same, TableNames
    <3> QED
      BY <2>6, <3>2, <3>3, <3>4, <3>5 DEF GivesChoices, GivesImages
  <2> HIDE DEF e
  <2>9. /\ e.questions = d.questions \cup {q} /\ e.singleChoices = d.singleChoices \cup {row}
        /\ e.seq = drawn.seq
        /\ e.images = d.images /\ e.workbooks = d.workbooks /\ e.categories = d.categories
        /\ e.apps = d.apps /\ e.appCategories = d.appCategories
        /\ e.workbookQuestions = d.workbookQuestions
    BY <2>2, <2>4, <2>8 DEF Same, TableNames, Serial
  <2>10. SerialsOK(e, ahead)
    <3>1. Same(drawn, e, TableNames \ Serial)
      BY <2>4, <2>8 DEF Same, TableNames, Serial
    <3> QED
      BY <2>3, <3>1, SerialsKept
  <2>11. QuestionsOK(e, ahead)
    <3>1. IsFiniteSet(e.questions) /\ IsFiniteSet(e.singleChoices)
      <4>1. IsFiniteSet(d.questions) /\ IsFiniteSet(d.singleChoices)
        BY DEF Intact, QuestionsOK
      <4>2. IsFiniteSet(d.questions \cup {q}) /\ IsFiniteSet(d.singleChoices \cup {row})
        BY <4>1, FS_AddElement
      <4> QED
        BY <2>9, <4>2
    <3> QED
      BY <2>2, <2>5, <2>7, <2>8, <2>9, <3>1 DEF Intact, QuestionsOK, q
  <2>12. ImagesOK(e)
    BY <1>4, <2>8, <2>9 DEF Intact, ImagesOK, ImagesExist
  <2>13. PlacesOK(e) /\ CategoriesOK(e) /\ AppsOK(e)
    BY <2>9 DEF Intact, PlacesOK, CategoriesOK, AppsOK, WorkbookExists, CategoryExists
  <2> QED
    BY <2>1, <2>10, <2>11, <2>12, <2>13 DEF Intact
<1> QED
  BY <1>2, <1>3, <1>4

(* Choices and images are deleted and written again for a question that     *)
(* exists only.                                                             *)
LEMMA UpdatedQuestion ==
  ASSUME NEW ahead \in BOOLEAN, NEW d, Intact(ahead, d), NEW q, NEW b, QuestionBody(b)
  PROVE  Intact(ahead, AdminUpdateQuestion(d, q, b))
<1> DEFINE t == UpdateSingleChoice(d, q, b.text)
           f == DeleteChoicesByQuestionID(t, q)
           c == CreateChoice(f, q, b.choices)
           g == DeleteQuestionImages(c, q)
           e == CreateQuestionImage(g, q, b.images)
<1>1. CASE ~(ValidChoices(b) /\ QuestionExists(d, q) /\ Distinct(b.images) /\ ImagesExist(d, b.images))
  BY <1>1 DEF AdminUpdateQuestion
<1>2. CASE ValidChoices(b) /\ QuestionExists(d, q) /\ Distinct(b.images) /\ ImagesExist(d, b.images)
  <2>1. AdminUpdateQuestion(d, q, b) = e
    BY <1>2 DEF AdminUpdateQuestion
  <2>2. DOMAIN d = TableNames \cup {"seq"}
    BY DEF Intact, SerialsOK
  <2>3. Same(d, t, {"singleChoices"})
    BY <2>2 DEF UpdateSingleChoice, Same, TableNames
  <2>4. t.singleChoices = {IF s.question = q THEN [s EXCEPT !.text = b.text] ELSE s : s \in d.singleChoices}
    BY <2>2 DEF UpdateSingleChoice, TableNames
  <2> HIDE DEF t
  <2>5. Same(t, f, {"choices"}) /\ f.choices = {r \in t.choices : r.question # q}
    BY <2>2, <2>3 DEF DeleteChoicesByQuestionID, Same, TableNames
  <2> HIDE DEF f
  <2>6. GivesChoices(f, c, q, b)
    <3>1. t.choices = d.choices /\ DOMAIN f = TableNames \cup {"seq"}
      BY <2>2, <2>3, <2>5 DEF Same, TableNames
    <3>2. ChoicesOK(f.choices) /\ NoneOf(f.choices, q)
      BY <2>5, <3>1, FewerRows DEF Intact, QuestionsOK, NoneOf
    <3> QED
      BY <3>1, <3>2, WrittenChoices
  <2> HIDE DEF c
  <2>7. /\ Same(c, g, {"questionImages"})
        /\ g.questionImages = {r \in c.questionImages : r.question # q}
    BY <2>2, <2>3, <2>5, <2>6 DEF DeleteQuestionImages, GivesChoices, Same, TableNames
  <2> HIDE DEF g
  <2>8. GivesImages(g, e, q, b)
    <3>1. c.questionImages = d.questionImages /\ DOMAIN g = TableNames \cup {"seq"}
      BY <2>2, <2>3, <2>5, <2>6, <2>7 DEF GivesChoices, Same, TableNames
    <3>2. ShownOK(g.questionImages) /\ NoneOf(g.questionImages, q)
      BY <2>7, <3>1, FewerRows DEF Intact, ImagesOK, NoneOf
    <3> QED
      BY <1>2, <3>1, <3>2, WrittenImages
  <2> HIDE DEF e
  <2>9. Same(d, e, {"singleChoices", "choices", "questionImages"})
    BY <2>3, <2>5, <2>6, <2>7, <2>8 DEF GivesChoices, GivesImages, Same, TableNames
  <2>10. /\ e.singleChoices = t.singleChoices /\ ChoicesOK(e.choices)
         /\ \A r \in e.choices : r \in d.choices \/ r.question = q
         /\ \A r \in e.questionImages :
              \/ r \in d.questionImages
              \/ /\ r.question = q
                 /\ \E i \in DOMAIN b.images : r.image = b.images[i]
    BY <2>3, <2>5, <2>6, <2>7, <2>8 DEF GivesChoices, GivesImages, Same, TableNames
  <2>11. /\ e.questions = d.questions /\ e.seq = d.seq /\ e.images = d.images
         /\ e.workbooks = d.workbooks /\ e.categories = d.categories
         /\ e.apps = d.apps /\ e.appCategories = d.appCategories
         /\ e.workbookQuestions = d.workbookQuestions
    BY <2>9 DEF Same, TableNames, Serial
  <2>12. SerialsOK(e, ahead)
    <3>1. Same(d, e, TableNames \ Serial)
      BY <2>9 DEF Same, TableNames, Serial
    <3> QED
      BY <3>1, SerialsKept DEF Intact
  <2>13. q \in d.questions
    BY <1>2 DEF QuestionExists
  <2>14. /\ \A s \in e.singleChoices : \E r \in d.singleChoices :
              s.question = r.question /\ DOMAIN s = DOMAIN r
                /\ s = IF r.question = q THEN [r EXCEPT !.text = b.text] ELSE r
         /\ \A r \in d.singleChoices : \E s \in e.singleChoices : s.question = r.question
    <3>1. ASSUME NEW r \in d.singleChoices
          PROVE  /\ [r EXCEPT !.text = b.text].question = r.question
                 /\ DOMAIN [r EXCEPT !.text = b.text] = DOMAIN r
      BY DEF Intact, QuestionsOK
    <3> DEFINE New(r) == IF r.question = q THEN [r EXCEPT !.text = b.text] ELSE r
    <3>2. \A r \in d.singleChoices : New(r).question = r.question /\ DOMAIN New(r) = DOMAIN r
      BY <3>1
    <3>3. e.singleChoices = {New(r) : r \in d.singleChoices}
      BY <2>4, <2>10
    <3> HIDE DEF New
    <3>4. /\ \A s \in e.singleChoices : \E r \in d.singleChoices :
               s.question = r.question /\ DOMAIN s = DOMAIN r /\ s = New(r)
          /\ \A r \in d.singleChoices : \E s \in e.singleChoices : s.question = r.question
      BY <3>2, <3>3
    <3> QED
      BY <3>4 DEF New
  <2>15. QuestionsOK(e, ahead)
    <3>1. IsFiniteSet(e.singleChoices)
      <4> DEFINE New(s) == IF s.question = q THEN [s EXCEPT !.text = b.text] ELSE s
      <4>1. e.singleChoices = {New(s) : s \in d.singleChoices}
        BY <2>4, <2>10
      <4> HIDE DEF New
      <4>2. [s \in d.singleChoices |-> New(s)] \in Surjection(d.singleChoices, e.singleChoices)
        BY <4>1 DEF Surjection
      <4> QED
        BY <4>2, FS_Surjection DEF Intact, QuestionsOK
    <3> QED
      BY <2>10, <2>11, <2>13, <2>14, <3>1 DEF Intact, QuestionsOK
  <2>16. ImagesOK(e)
    BY <1>2, <2>8, <2>10, <2>11, <2>13 DEF GivesImages, Intact, ImagesOK, ImagesExist
  <2>17. PlacesOK(e) /\ CategoriesOK(e) /\ AppsOK(e)
    BY <2>11 DEF Intact, PlacesOK, CategoriesOK, AppsOK, WorkbookExists, CategoryExists
  <2> QED
    BY <2>1, <2>12, <2>15, <2>16, <2>17 DEF Intact
<1> QED
  BY <1>1, <1>2

(* A question takes with it whatever names it.                              *)
LEMMA DeletedQuestion ==
  ASSUME NEW ahead \in BOOLEAN, NEW d, Intact(ahead, d), NEW q
  PROVE  Intact(ahead, AdminDeleteQuestion(d, q))
<1> DEFINE e == DeleteQuestion(d, q)
           Rest(T) == {r \in T : r.question # q}
<1>1. /\ Same(d, e, {"questions", "singleChoices", "choices", "questionImages", "workbookQuestions"})
      /\ e.questions = d.questions \ {q} /\ e.singleChoices = Rest(d.singleChoices)
      /\ e.choices = Rest(d.choices) /\ e.questionImages = Rest(d.questionImages)
      /\ e.workbookQuestions = Rest(d.workbookQuestions)
  BY DEF Intact, SerialsOK, DeleteQuestion, Same, TableNames
<1> HIDE DEF e
<1>2. /\ e.seq = d.seq /\ e.images = d.images /\ e.workbooks = d.workbooks
      /\ e.categories = d.categories /\ e.apps = d.apps /\ e.appCategories = d.appCategories
  BY <1>1 DEF Same, TableNames, Serial
<1>3. SerialsOK(e, ahead)
  <2>1. Same(d, e, TableNames \ Serial)
    BY <1>1 DEF Same, TableNames, Serial
  <2> QED
    BY <2>1, SerialsKept DEF Intact
<1>4. \A T : Rest(T) \subseteq T
  OBVIOUS
<1>5. QuestionsOK(e, ahead)
  <2>1. IsFiniteSet(e.questions) /\ IsFiniteSet(e.singleChoices) /\ ChoicesOK(e.choices)
    BY <1>1, <1>4, FewerRows DEF Intact, QuestionsOK
  <2> QED
    BY <1>1, <1>2, <2>1 DEF Intact, QuestionsOK
<1>6. ShownOK(e.questionImages) /\ PlacedOK(e.workbookQuestions)
  BY <1>1, <1>4, FewerRows DEF Intact, ImagesOK, PlacesOK
<1>7. PlacesOK(e) /\ ImagesOK(e) /\ CategoriesOK(e) /\ AppsOK(e)
  BY <1>1, <1>2, <1>6 DEF Intact, PlacesOK, ImagesOK, CategoriesOK, AppsOK, WorkbookExists, CategoryExists
<1> QED
  BY <1>3, <1>5, <1>7 DEF Intact, AdminDeleteQuestion, e

-----------------------------------------------------------------------------
(* A statement that writes one serial table, and perhaps draws from its     *)
(* sequence, has to keep what is known of that one.                         *)
LEMMA SerialsWritten ==
  ASSUME NEW ahead \in BOOLEAN, NEW d, NEW e, SerialsOK(d, ahead), NEW table \in Serial,
         Same(d, e, {table, "seq"} \cup (TableNames \ Serial)), DOMAIN e.seq = DOMAIN d.seq,
         \A t \in Serial : t # table => e.seq[t] = d.seq[t],
         SerialOK(e[table], e.seq[table], ahead)
  PROVE  SerialsOK(e, ahead)
<1>1. ASSUME NEW t \in Serial, t # table PROVE e[t] = d[t]
  BY <1>1 DEF Same, TableNames, Serial
<1>2. \A t \in Serial : SerialOK(e[t], e.seq[t], ahead)
  BY <1>1 DEF SerialsOK
<1> QED
  BY <1>2 DEF SerialsOK, Same

(* Workbooks.                                                               *)
GivesPlaces(d, e, id, b) ==
  /\ Same(d, e, {"workbookQuestions"}) /\ PlacedOK(e.workbookQuestions)
  /\ \A r \in e.workbookQuestions :
       \/ r \in d.workbookQuestions
       \/ r.workbook = id /\ \E i \in DOMAIN b.questions : r.question = b.questions[i]

(* Placing questions in a workbook that has none adds them, numbered.       *)
LEMMA WrittenPlaces ==
  ASSUME NEW d, DOMAIN d = TableNames \cup {"seq"}, NEW id, NEW b, WorkbookBody(b),
         Distinct(b.questions), PlacedOK(d.workbookQuestions),
         \A r \in d.workbookQuestions : r.workbook # id
  PROVE  GivesPlaces(d, bulkInsertWorkbookQuestions(d, id, b.questions), id, b)
<1> DEFINE e == bulkInsertWorkbookQuestions(d, id, b.questions)
           qs == b.questions
           n == Len(qs)
           row(i) == [workbook |-> id, question |-> qs[i], order |-> i - 1]
           new == {row(i) : i \in 1 .. n}
<1>1. n \in Nat /\ DOMAIN qs = 1 .. n
  BY DEF WorkbookBody
<1>2. Same(d, e, {"workbookQuestions"}) /\ e.workbookQuestions = d.workbookQuestions \cup new
  BY <1>1 DEF bulkInsertWorkbookQuestions, Same, TableNames
<1>3. \A i \in 1 .. n : row(i).workbook = id /\ row(i).question = qs[i] /\ row(i).order = i - 1
  OBVIOUS
<1>4. IsFiniteSet(new)
  <2>1. [i \in 1 .. n |-> row(i)] \in Surjection(1 .. n, new)
    BY DEF Surjection
  <2> QED
    BY <1>1, <2>1, FS_Interval, FS_Surjection
<1>5. \A i, j \in 1 .. n : row(i).question = row(j).question => row(i) = row(j)
  BY <1>1, <1>3 DEF Distinct
<1> HIDE DEF e, row, qs, n
<1>6. IsFiniteSet(d.workbookQuestions \cup new)
  BY <1>4, FS_Union DEF PlacedOK
<1>7. \A r \in new : \E i \in 1 .. n :
        r = row(i) /\ r.workbook = id /\ r.question = qs[i] /\ r.order = i - 1
  BY <1>3
<1>8. \A r \in new : r.order \in Nat /\ r.workbook = id
  BY <1>1, <1>7
<1>9. \A r, s \in new : r.question = s.question => r = s
  BY <1>5, <1>7
<1> HIDE DEF new
<1>10. PlacedOK(d.workbookQuestions \cup new)
  BY <1>6, <1>8, <1>9 DEF PlacedOK
<1> QED
  <2> HIDE DEF row
  <2>1. \A r \in e.workbookQuestions :
          \/ r \in d.workbookQuestions
          \/ r.workbook = id /\ \E i \in DOMAIN qs : r.question = qs[i]
    BY <1>1, <1>2, <1>7
  <2> QED
    BY <1>2, <1>10, <2>1 DEF GivesPlaces, e, qs

(* A workbook is created with a category that exists and places for         *)
(* questions that exist.                                                    *)
LEMMA CreatedWorkbook ==
  ASSUME NEW ahead \in BOOLEAN, NEW d, Intact(ahead, d), NEW b, WorkbookBody(b)
  PROVE  Intact(ahead, AdminCreateWorkbook(d, b))
<1> DEFINE id == d.seq.workbooks
           drawn == NextVal(d, "workbooks")
           row == [id |-> id, title |-> b.title, category |-> b.category,
                   published |-> IsPublished(b)]
           c == CreateWorkbook(drawn, id, b.title, b.category, IsPublished(b))
           e == bulkInsertWorkbookQuestions(c, id, b.questions)
<1>1. Intact(ahead, drawn)
  BY DrawnSound DEF Serial
<1>2. CASE WorkbookExists(d, id) \/ ~WorkbookRefsHold(d, b)
  BY <1>1, <1>2 DEF AdminCreateWorkbook
<1>3. CASE ~WorkbookExists(d, id) /\ WorkbookRefsHold(d, b)
  <2>1. AdminCreateWorkbook(d, b) = e
    BY <1>3 DEF AdminCreateWorkbook
  <2>2. /\ Same(d, drawn, {"seq"}) /\ DOMAIN drawn.seq = DOMAIN d.seq /\ drawn.seq.workbooks = id + 1
        /\ \A t \in DOMAIN d.seq : t # "workbooks" => drawn.seq[t] = d.seq[t]
    BY Drawn DEF Intact, Serial
  <2>3. DOMAIN drawn = TableNames \cup {"seq"} /\ drawn.workbooks = d.workbooks
    BY <1>1, <2>2 DEF Intact, SerialsOK, Same, TableNames, Serial
  <2> HIDE DEF drawn
  <2>4. Same(drawn, c, {"workbooks"}) /\ c.workbooks = d.workbooks \cup {row}
    BY <2>3 DEF CreateWorkbook, Same, TableNames, Serial
  <2>5. row.id = id /\ row.category = b.category /\ DOMAIN row = {"id", "title", "category", "published"}
    OBVIOUS
  <2> HIDE DEF c, row
  <2>6. c.workbookQuestions = d.workbookQuestions /\ DOMAIN c = TableNames \cup {"seq"}
    BY <2>2, <2>3, <2>4 DEF Same, TableNames, Serial
  <2>7. GivesPlaces(c, e, id, b)
    <3>1. PlacedOK(c.workbookQuestions) /\ \A r \in c.workbookQuestions : r.workbook # id
      BY <1>3, <2>6 DEF Intact, PlacesOK, WorkbookExists
    <3> HIDE DEF id
    <3>2. Distinct(b.questions)
      BY <1>3 DEF WorkbookRefsHold
    <3> QED
      BY <2>6, <3>1, <3>2, WrittenPlaces
  <2> HIDE DEF e
  <2>8. /\ e.workbooks = d.workbooks \cup {row} /\ e.seq = drawn.seq
        /\ e.questions = d.questions /\ e.singleChoices = d.singleChoices /\ e.choices = d.choices
        /\ e.images = d.images /\ e.questionImages = d.questionImages
        /\ e.categories = d.categories /\ e.apps = d.apps /\ e.appCategories = d.appCategories
        /\ Same(d, e, {"workbooks", "workbookQuestions", "seq"})
    BY <2>2, <2>4, <2>7 DEF GivesPlaces, Same, TableNames, Serial
  <2>9. SerialsOK(e, ahead)
    <3>1. SerialOK(d.workbooks, id, ahead)
      BY DEF Intact, SerialsOK, Serial
    <3> HIDE DEF id
    <3>2. SerialOK(d.workbooks \cup {row}, id + 1, ahead)
      BY <1>3, <2>5, <3>1, SerialAdded DEF WorkbookExists
    <3>3. SerialOK(e["workbooks"], e.seq["workbooks"], ahead)
      BY <2>2, <2>8, <3>2
    <3>4. /\ Same(d, e, {"workbooks", "seq"} \cup (TableNames \ Serial)) /\ DOMAIN e.seq = DOMAIN d.seq
          /\ \A t \in Serial : t # "workbooks" => e.seq[t] = d.seq[t]
      BY <2>2, <2>8 DEF Same, Intact, SerialsOK, TableNames, Serial
    <3>5. "workbooks" \in Serial
      BY DEF Serial
    <3> QED
      BY <3>3, <3>4, <3>5, SerialsWritten DEF Intact
  <2>10. QuestionsOK(e, ahead)
    BY <2>2, <2>8 DEF Intact, SerialsOK, QuestionsOK
  <2>11. PlacesOK(e)
    <3>1. \A i \in DOMAIN b.questions : b.questions[i] \in d.questions
      BY <1>3 DEF WorkbookRefsHold, QuestionsExist, QuestionExists
    <3> QED
      BY <2>5, <2>6, <2>7, <2>8, <3>1 DEF GivesPlaces, Intact, PlacesOK, WorkbookExists
  <2>12. CategoriesOK(e)
    BY <1>3, <2>5, <2>8 DEF Intact, CategoriesOK, CategoryExists, WorkbookRefsHold
  <2>13. ImagesOK(e) /\ AppsOK(e)
    BY <2>8 DEF Intact, ImagesOK, AppsOK, CategoryExists
  <2> QED
    BY <2>1, <2>9, <2>10, <2>11, <2>12, <2>13 DEF Intact
<1> QED
  BY <1>2, <1>3

(* An update writes the row and all its places, or is refused.              *)
LEMMA UpdatedWorkbook ==
  ASSUME NEW ahead \in BOOLEAN, NEW d, Intact(ahead, d), NEW id, NEW b, WorkbookBody(b)
  PROVE  Intact(ahead, AdminUpdateWorkbook(d, id, b))
<1> DEFINE row == [id |-> id, title |-> b.title, category |-> b.category,
                   published |-> IsPublished(b)]
           u == UpdateWorkbook(d, id, b.title, b.category, IsPublished(b))
           c == DeleteWorkbookQuestions(u, id)
           e == bulkInsertWorkbookQuestions(c, id, b.questions)
           Others == {w \in d.workbooks : w.id # id}
<1>1. CASE ~(WorkbookExists(d, id) /\ WorkbookRefsHold(d, b))
  BY <1>1 DEF AdminUpdateWorkbook
<1>2. CASE WorkbookExists(d, id) /\ WorkbookRefsHold(d, b)
  <2>1. AdminUpdateWorkbook(d, id, b) = e
    BY <1>2 DEF AdminUpdateWorkbook
  <2>2. Same(d, u, {"workbooks"}) /\ u.workbooks = Others \cup {row}
    BY <1>2 DEF Intact, SerialsOK, UpdateWorkbook, Same, TableNames, Serial
  <2>3. row.id = id /\ row.category = b.category /\ DOMAIN row = {"id", "title", "category", "published"}
    OBVIOUS
  <2> HIDE DEF u, row
  <2>4. DOMAIN u = TableNames \cup {"seq"} /\ u.workbookQuestions = d.workbookQuestions
    BY <2>2 DEF Intact, SerialsOK, Same, TableNames, Serial
  <2>5. /\ Same(u, c, {"workbookQuestions"})
        /\ c.workbookQuestions = {r \in d.workbookQuestions : r.workbook # id}
    BY <2>4 DEF DeleteWorkbookQuestions, Same, TableNames
  <2> HIDE DEF c
  <2>6. GivesPlaces(c, e, id, b)
    <3>1. PlacedOK(c.workbookQuestions) /\ \A r \in c.workbookQuestions : r.workbook # id
      BY <2>5, FewerRows DEF Intact, PlacesOK
    <3>2. Distinct(b.questions) /\ DOMAIN c = TableNames \cup {"seq"}
      BY <1>2, <2>4, <2>5 DEF WorkbookRefsHold, Same
    <3> QED
      BY <3>1, <3>2, WrittenPlaces
  <2> HIDE DEF e
  <2>7. /\ e.workbooks = Others \cup {row} /\ e.seq = d.seq
        /\ e.questions = d.questions /\ e.singleChoices = d.singleChoices /\ e.choices = d.choices
        /\ e.images = d.images /\ e.questionImages = d.questionImages
        /\ e.categories = d.categories /\ e.apps = d.apps /\ e.appCategories = d.appCategories
        /\ Same(d, e, {"workbooks", "workbookQuestions"})
    BY <2>2, <2>5, <2>6 DEF GivesPlaces, Same, TableNames, Serial
  <2>8. SerialsOK(e, ahead)
    <3>1. SerialOK(d.workbooks, d.seq.workbooks, ahead)
      BY DEF Intact, SerialsOK, Serial
    <3>2. \E w \in d.workbooks : w.id = row.id
      BY <1>2, <2>3 DEF WorkbookExists
    <3>3. SerialOK({w \in d.workbooks : w.id # row.id} \cup {row}, d.seq.workbooks, ahead)
      BY <3>1, <3>2, SerialReplaced
    <3>4. SerialOK(e["workbooks"], e.seq["workbooks"], ahead)
      BY <2>3, <2>7, <3>3
    <3>5. /\ Same(d, e, {"workbooks", "seq"} \cup (TableNames \ Serial)) /\ DOMAIN e.seq = DOMAIN d.seq
          /\ \A t \in Serial : t # "workbooks" => e.seq[t] = d.seq[t]
      BY <2>7 DEF Same, TableNames, Serial
    <3>6. "workbooks" \in Serial
      BY DEF Serial
    <3> QED
      BY <3>4, <3>5, <3>6, SerialsWritten DEF Intact
  <2>9. QuestionsOK(e, ahead) /\ ImagesOK(e) /\ AppsOK(e)
    BY <2>7 DEF Intact, QuestionsOK, ImagesOK, AppsOK, CategoryExists
  <2>10. PlacesOK(e)
    <3>1. \A i \in DOMAIN b.questions : b.questions[i] \in d.questions
      BY <1>2 DEF WorkbookRefsHold, QuestionsExist, QuestionExists
    <3>2. \A x : WorkbookExists(d, x) => WorkbookExists(e, x)
      BY <2>3, <2>7 DEF WorkbookExists
    <3>3. WorkbookExists(e, id)
      BY <2>3, <2>7 DEF WorkbookExists
    <3> QED
      BY <2>5, <2>6, <2>7, <3>1, <3>2, <3>3 DEF GivesPlaces, Intact, PlacesOK
  <2>11. CategoriesOK(e)
    BY <1>2, <2>3, <2>7 DEF Intact, CategoriesOK, CategoryExists, WorkbookRefsHold
  <2> QED
    BY <2>1, <2>8, <2>9, <2>10, <2>11 DEF Intact
<1> QED
  BY <1>1, <1>2

(* A workbook takes its places with it.                                     *)
LEMMA DeletedWorkbook ==
  ASSUME NEW ahead \in BOOLEAN, NEW d, Intact(ahead, d), NEW id
  PROVE  Intact(ahead, AdminDeleteWorkbook(d, id))
<1> DEFINE e == DeleteWorkbook(d, id)
<1>1. /\ Same(d, e, {"workbooks", "workbookQuestions"})
      /\ e.workbooks = {w \in d.workbooks : w.id # id}
      /\ e.workbookQuestions = {r \in d.workbookQuestions : r.workbook # id}
  BY DEF Intact, SerialsOK, DeleteWorkbook, Same, TableNames, Serial
<1> HIDE DEF e
<1>2. /\ e.seq = d.seq /\ e.images = d.images /\ e.questions = d.questions
      /\ e.singleChoices = d.singleChoices /\ e.choices = d.choices
      /\ e.questionImages = d.questionImages
      /\ e.categories = d.categories /\ e.apps = d.apps /\ e.appCategories = d.appCategories
  BY <1>1 DEF Same, TableNames, Serial
<1>3. SerialsOK(e, ahead)
  <2>1. SerialOK(d.workbooks, d.seq.workbooks, ahead)
    BY DEF Intact, SerialsOK, Serial
  <2>2. SerialOK(e["workbooks"], e.seq["workbooks"], ahead)
    BY <1>1, <1>2, <2>1, SerialFewer
  <2>3. /\ Same(d, e, {"workbooks", "seq"} \cup (TableNames \ Serial)) /\ DOMAIN e.seq = DOMAIN d.seq
        /\ \A t \in Serial : t # "workbooks" => e.seq[t] = d.seq[t]
    BY <1>1, <1>2 DEF Same, TableNames, Serial
  <2>4. "workbooks" \in Serial
    BY DEF Serial
  <2> QED
    BY <2>2, <2>3, <2>4, SerialsWritten DEF Intact
<1>4. QuestionsOK(e, ahead) /\ ImagesOK(e) /\ AppsOK(e)
  BY <1>2 DEF Intact, QuestionsOK, ImagesOK, AppsOK, CategoryExists
<1>5. PlacesOK(e) /\ CategoriesOK(e)
  <2>1. PlacedOK(e.workbookQuestions)
    BY <1>1, FewerRows DEF Intact, PlacesOK
  <2> QED
    BY <1>1, <1>2, <2>1 DEF Intact, PlacesOK, CategoriesOK, WorkbookExists, CategoryExists
<1> QED
  BY <1>3, <1>4, <1>5 DEF Intact, AdminDeleteWorkbook, e

-----------------------------------------------------------------------------
(* Categories.                                                              *)
LEMMA CreatedCategory ==
  ASSUME NEW ahead \in BOOLEAN, NEW d, Intact(ahead, d), NEW title
  PROVE  Intact(ahead, AdminCreateCategory(d, title))
<1> DEFINE id == d.seq.categories
           drawn == NextVal(d, "categories")
           row == [id |-> id, title |-> title]
           e == CreateCategory(drawn, id, title)
<1>1. Intact(ahead, drawn)
  BY DrawnSound DEF Serial
<1>2. CASE CategoryExists(d, id)
  BY <1>1, <1>2 DEF AdminCreateCategory
<1>3. CASE ~CategoryExists(d, id)
  <2>1. AdminCreateCategory(d, title) = e
    BY <1>3 DEF AdminCreateCategory
  <2>2. /\ Same(d, drawn, {"seq"}) /\ DOMAIN drawn.seq = DOMAIN d.seq /\ drawn.seq.categories = id + 1
        /\ \A t \in DOMAIN d.seq : t # "categories" => drawn.seq[t] = d.seq[t]
    BY Drawn DEF Intact, Serial
  <2>3. DOMAIN drawn = TableNames \cup {"seq"} /\ drawn.categories = d.categories
    BY <1>1, <2>2 DEF Intact, SerialsOK, Same, TableNames, Serial
  <2> HIDE DEF drawn
  <2>4. Same(drawn, e, {"categories"}) /\ e.categories = d.categories \cup {row}
    BY <2>3 DEF CreateCategory, Same, TableNames, Serial
  <2>5. row.id = id /\ DOMAIN row = {"id", "title"}
    OBVIOUS
  <2> HIDE DEF e, row
  <2>6. /\ e.seq = drawn.seq /\ e.workbooks = d.workbooks /\ e.questions = d.questions
        /\ e.singleChoices = d.singleChoices /\ e.choices = d.choices
        /\ e.images = d.images /\ e.questionImages = d.questionImages
        /\ e.workbookQuestions = d.workbookQuestions
        /\ e.apps = d.apps /\ e.appCategories = d.appCategories
        /\ Same(d, e, {"categories", "seq"})
    BY <2>2, <2>4 DEF Same, TableNames, Serial
  <2>7. SerialsOK(e, ahead)
    <3>1. SerialOK(d.categories, id, ahead)
      BY DEF Intact, SerialsOK, Serial
    <3> HIDE DEF id
    <3>2. SerialOK(e["categories"], e.seq["categories"], ahead)
      BY <1>3, <2>2, <2>4, <2>5, <2>6, <3>1, SerialAdded DEF CategoryExists
    <3>3. /\ Same(d, e, {"categories", "seq"} \cup (TableNames \ Serial)) /\ DOMAIN e.seq = DOMAIN d.seq
          /\ \A t \in Serial : t # "categories" => e.seq[t] = d.seq[t]
      BY <2>2, <2>6 DEF Same, Intact, SerialsOK, TableNames, Serial
    <3>4. "categories" \in Serial
      BY DEF Serial
    <3> QED
      BY <3>2, <3>3, <3>4, SerialsWritten DEF Intact
  <2>8. QuestionsOK(e, ahead)
    BY <2>2, <2>6 DEF Intact, SerialsOK, QuestionsOK
  <2>9. PlacesOK(e) /\ ImagesOK(e)
    BY <2>6 DEF Intact, PlacesOK, ImagesOK, WorkbookExists
  <2>10. CategoriesOK(e) /\ AppsOK(e)
    BY <2>4, <2>5, <2>6 DEF Intact, CategoriesOK, AppsOK, CategoryExists
  <2> QED
    BY <2>1, <2>7, <2>8, <2>9, <2>10 DEF Intact
<1> QED
  BY <1>2, <1>3

(* Rows that are changed in place keep their ids.                           *)
LEMMA ChangedTable ==
  ASSUME NEW ahead \in BOOLEAN, NEW d, NEW e, SerialsOK(d, ahead), NEW table \in Serial,
         Same(d, e, {table} \cup (TableNames \ Serial)),
         NEW f \in Surjection(d[table], e[table]), \A r \in d[table] : f[r].id = r.id
  PROVE  SerialsOK(e, ahead)
<1>1. e.seq = d.seq
  BY DEF Same, TableNames, Serial
<1>2. SerialOK(d[table], d.seq[table], ahead)
  BY DEF SerialsOK
<1>3. SerialOK(e[table], e.seq[table], ahead)
  BY <1>1, <1>2, SerialChanged
<1>4. Same(d, e, {table, "seq"} \cup (TableNames \ Serial))
  BY DEF Same
<1> QED
  BY <1>1, <1>3, <1>4, SerialsWritten

(* An update touches the title only.                                        *)
LEMMA UpdatedCategory ==
  ASSUME NEW ahead \in BOOLEAN, NEW d, Intact(ahead, d), NEW id, NEW title
  PROVE  Intact(ahead, AdminUpdateCategory(d, id, title))
<1> DEFINE e == UpdateCategory(d, id, title)
           New(c) == IF c.id = id THEN [c EXCEPT !.title = title] ELSE c
           f == [c \in d.categories |-> New(c)]
<1>1. Same(d, e, {"categories"}) /\ e.categories = {New(c) : c \in d.categories}
  BY DEF Intact, SerialsOK, UpdateCategory, Same, TableNames, Serial
<1> HIDE DEF e
<1>2. \A c \in d.categories : New(c).id = c.id /\ DOMAIN New(c) = DOMAIN c
  BY DEF Intact, CategoriesOK
<1> HIDE DEF New
<1>3. SerialsOK(e, ahead)
  <2>1. f \in Surjection(d["categories"], e["categories"]) /\ \A c \in d["categories"] : f[c].id = c.id
    BY <1>1, <1>2 DEF Surjection
  <2>2. Same(d, e, {"categories"} \cup (TableNames \ Serial)) /\ "categories" \in Serial
    BY <1>1 DEF Same, Serial
  <2> HIDE DEF f
  <2> QED
    BY <2>1, <2>2, ChangedTable DEF Intact
<1>4. /\ e.seq = d.seq /\ e.workbooks = d.workbooks /\ e.questions = d.questions
      /\ e.singleChoices = d.singleChoices /\ e.choices = d.choices
      /\ e.images = d.images /\ e.questionImages = d.questionImages
      /\ e.workbookQuestions = d.workbookQuestions
      /\ e.apps = d.apps /\ e.appCategories = d.appCategories
  BY <1>1 DEF Same, TableNames, Serial
<1>5. QuestionsOK(e, ahead) /\ PlacesOK(e) /\ ImagesOK(e)
  BY <1>4 DEF Intact, QuestionsOK, PlacesOK, ImagesOK, WorkbookExists
<1>6. \A x : CategoryExists(d, x) => CategoryExists(e, x)
  BY <1>1, <1>2 DEF CategoryExists
<1>7. CategoriesOK(e) /\ AppsOK(e)
  BY <1>1, <1>2, <1>4, <1>6 DEF Intact, CategoriesOK, AppsOK
<1>8. Intact(ahead, e)
  BY <1>3, <1>5, <1>7 DEF Intact
<1> QED
  BY <1>8 DEF AdminUpdateCategory, e

(* Workbooks lose a category that is deleted, apps their link to it.        *)
LEMMA DeletedCategory ==
  ASSUME NEW ahead \in BOOLEAN, NEW d, Intact(ahead, d), NEW id
  PROVE  Intact(ahead, AdminDeleteCategory(d, id))
<1> DEFINE e == DeleteCategory(d, id)
           New(w) == IF w.category = id THEN [w EXCEPT !.category = NoCategory] ELSE w
           f == [w \in d.workbooks |-> New(w)]
<1>1. /\ Same(d, e, {"categories", "workbooks", "appCategories"})
      /\ e.categories = {c \in d.categories : c.id # id}
      /\ e.workbooks = {New(w) : w \in d.workbooks}
      /\ e.appCategories = {r \in d.appCategories : r.category # id}
  BY DEF Intact, SerialsOK, DeleteCategory, Same, TableNames, Serial
<1> HIDE DEF e
<1>2. \A w \in d.workbooks : /\ New(w).id = w.id /\ DOMAIN New(w) = DOMAIN w
                             /\ New(w).category = NoCategory \/ (New(w).category = w.category /\ w.category # id)
  BY DEF Intact, CategoriesOK
<1> HIDE DEF New
<1>3. /\ e.seq = d.seq /\ e.questions = d.questions
      /\ e.singleChoices = d.singleChoices /\ e.choices = d.choices
      /\ e.images = d.images /\ e.questionImages = d.questionImages
      /\ e.workbookQuestions = d.workbookQuestions /\ e.apps = d.apps
  BY <1>1 DEF Same, TableNames, Serial
<1>4. SerialsOK(e, ahead)
  <2>1. SerialOK(e["workbooks"], e.seq["workbooks"], ahead)
    <3>1. f \in Surjection(d.workbooks, e.workbooks) /\ \A w \in d.workbooks : f[w].id = w.id
      BY <1>1, <1>2 DEF Surjection
    <3>2. SerialOK(d.workbooks, d.seq.workbooks, ahead)
      BY DEF Intact, SerialsOK, Serial
    <3> HIDE DEF f
    <3> QED
      BY <1>3, <3>1, <3>2, SerialChanged
  <2>2. SerialOK(e["categories"], e.seq["categories"], ahead)
    <3>1. SerialOK(d.categories, d.seq.categories, ahead)
      BY DEF Intact, SerialsOK, Serial
    <3> QED
      BY <1>1, <1>3, <3>1, SerialFewer
  <2>3. \A t \in Serial : t \in {"workbooks", "categories"} \/ e[t] = d[t]
    BY <1>1 DEF Same, TableNames, Serial
  <2>4. \A t \in Serial : SerialOK(e[t], e.seq[t], ahead)
    BY <1>3, <2>1, <2>2, <2>3 DEF Intact, SerialsOK
  <2> QED
    BY <1>1, <1>3, <2>4 DEF Intact, SerialsOK, Same
<1>5. QuestionsOK(e, ahead) /\ ImagesOK(e)
  BY <1>3 DEF Intact, QuestionsOK, ImagesOK
<1>6. PlacesOK(e)
  <2>1. \A x : WorkbookExists(d, x) => WorkbookExists(e, x)
    BY <1>1, <1>2 DEF WorkbookExists
  <2> QED
    BY <1>3, <2>1 DEF Intact, PlacesOK
<1>7. \A x : CategoryExists(d, x) /\ x # id => CategoryExists(e, x)
  BY <1>1 DEF CategoryExists
<1>8. CategoriesOK(e)
  BY <1>1, <1>2, <1>7 DEF Intact, CategoriesOK
<1>9. AppsOK(e)
  <2>1. LinkedOK(e.appCategories)
    BY <1>1, FewerRows DEF Intact, AppsOK
  <2> QED
    BY <1>1, <1>3, <1>7, <2>1 DEF Intact, AppsOK
<1> QED
  BY <1>4, <1>5, <1>6, <1>8, <1>9 DEF Intact, AdminDeleteCategory, e

-----------------------------------------------------------------------------
(* Announcements, which no other table refers to.                           *)
LEMMA AnnouncementsOnly ==
  ASSUME NEW d, NEW e, Sound(d), Same(d, e, {"announcements", "seq"}), DOMAIN e.seq = DOMAIN d.seq,
         \A t \in DOMAIN d.seq : t # "announcements" => e.seq[t] = d.seq[t],
         SerialOK(e.announcements, e.seq.announcements, TRUE)
  PROVE  Sound(e)
<1>1. /\ e.workbooks = d.workbooks /\ e.questions = d.questions
      /\ e.singleChoices = d.singleChoices /\ e.choices = d.choices
      /\ e.images = d.images /\ e.questionImages = d.questionImages
      /\ e.workbookQuestions = d.workbookQuestions /\ e.categories = d.categories
      /\ e.apps = d.apps /\ e.appCategories = d.appCategories
  BY DEF Same, TableNames, Serial
<1>2. SerialsOK(e, TRUE)
  <2>1. /\ Same(d, e, {"announcements", "seq"} \cup (TableNames \ Serial))
        /\ \A t \in Serial : t # "announcements" => e.seq[t] = d.seq[t]
    BY DEF Same, Sound, Intact, SerialsOK
  <2>2. "announcements" \in Serial /\ SerialOK(e["announcements"], e.seq["announcements"], TRUE)
    BY DEF Serial
  <2> QED
    BY <2>1, <2>2, SerialsWritten DEF Sound, Intact
<1>3. QuestionsOK(e, TRUE)
  BY <1>1 DEF Sound, Intact, SerialsOK, QuestionsOK
<1>4. PlacesOK(e) /\ ImagesOK(e) /\ CategoriesOK(e) /\ AppsOK(e)
  BY <1>1 DEF Sound, Intact, PlacesOK, ImagesOK, CategoriesOK, AppsOK, WorkbookExists, CategoryExists
<1> QED
  BY <1>2, <1>3, <1>4 DEF Sound, Intact

(* An announcement takes the next id.                                       *)
LEMMA CreatedAnnouncement ==
  ASSUME NEW d, Sound(d), NEW b, NEW now
  PROVE  Sound(AdminCreateAnnouncement(d, b, now))
<1> DEFINE id == d.seq.announcements
           at == IF b.publishedAt = 0 THEN now ELSE b.publishedAt
           drawn == NextVal(d, "announcements")
           row == [id |-> id, title |-> b.title, publishedAt |-> at]
           e == CreateAnnouncement(drawn, id, b.title, at)
<1>1. CASE b.title = ""
  BY <1>1 DEF AdminCreateAnnouncement
<1>2. CASE b.title # ""
  <2>1. AdminCreateAnnouncement(d, b, now) = e
    BY <1>2 DEF AdminCreateAnnouncement
  <2> HIDE DEF at
  <2>2. /\ Same(d, drawn, {"seq"}) /\ DOMAIN drawn.seq = DOMAIN d.seq
        /\ drawn.seq.announcements = id + 1
        /\ \A t \in DOMAIN d.seq : t # "announcements" => drawn.seq[t] = d.seq[t]
    BY Drawn DEF Sound, Intact, Serial
  <2> HIDE DEF drawn
  <2>3. DOMAIN drawn = TableNames \cup {"seq"} /\ drawn.announcements = d.announcements
    BY <2>2 DEF Sound, Intact, SerialsOK, Same, TableNames, Serial
  <2>4. Same(drawn, e, {"announcements"}) /\ e.announcements = d.announcements \cup {row}
    BY <2>3 DEF CreateAnnouncement, Same, TableNames, Serial
  <2>5. row.id = id
    OBVIOUS
  <2> HIDE DEF e, row
  <2>6. Same(d, e, {"announcements", "seq"}) /\ e.seq = drawn.seq
    BY <2>2, <2>4 DEF Same, TableNames, Serial
  <2>7. SerialOK(d.announcements, id, TRUE) /\ \A a \in d.announcements : a.id # id
    BY DEF Sound, Intact, SerialsOK, SerialOK, Serial
  <2>8. SerialOK(e.announcements, e.seq.announcements, TRUE)
    <3> HIDE DEF id
    <3>1. SerialOK(d.announcements \cup {row}, id + 1, TRUE)
      BY <2>5, <2>7, SerialAdded, Zenon
    <3>2. e.announcements = d.announcements \cup {row} /\ e.seq.announcements = id + 1
      BY <2>2, <2>4, <2>6
    <3> QED
      BY <3>1, <3>2
  <2> QED
    BY <2>1, <2>2, <2>6, <2>8, AnnouncementsOnly
<1> QED
  BY <1>1, <1>2

(* An update keeps the id.                                                  *)
LEMMA UpdatedAnnouncement ==
  ASSUME NEW d, Sound(d), NEW id, NEW b
  PROVE  Sound(AdminUpdateAnnouncement(d, id, b))
<1> DEFINE a == CHOOSE a \in GetAnnouncement(d, id) : TRUE
           at == IF b.publishedAt = 0 THEN a.publishedAt ELSE b.publishedAt
           row == [id |-> id, title |-> b.title, publishedAt |-> at]
           e == UpdateAnnouncement(d, id, b.title, at)
<1>1. CASE b.title = "" \/ GetAnnouncement(d, id) = {}
  BY <1>1 DEF AdminUpdateAnnouncement
<1>2. CASE b.title # "" /\ GetAnnouncement(d, id) # {}
  <2>1. AdminUpdateAnnouncement(d, id, b) = e
    BY <1>2 DEF AdminUpdateAnnouncement
  <2> HIDE DEF at
  <2>2. \E r \in d.announcements : r.id = id
    BY <1>2 DEF GetAnnouncement
  <2>3. /\ Same(d, e, {"announcements"})
        /\ e.announcements = {r \in d.announcements : r.id # id} \cup {row}
    BY <2>2 DEF Sound, Intact, SerialsOK, UpdateAnnouncement, AnnouncementExists, Same, TableNames, Serial
  <2>4. row.id = id
    OBVIOUS
  <2> HIDE DEF e, row
  <2>5. Same(d, e, {"announcements", "seq"}) /\ e.seq = d.seq
    BY <2>3 DEF Same, TableNames, Serial
  <2>6. SerialOK(d.announcements, d.seq.announcements, TRUE)
    BY DEF Sound, Intact, SerialsOK, Serial
  <2>7. SerialOK(e.announcements, e.seq.announcements, TRUE)
    <3>1. SerialOK({r \in d.announcements : r.id # id} \cup {row}, d.seq.announcements, TRUE)
      BY <2>2, <2>4, <2>6, SerialReplaced, Zenon
    <3> QED
      BY <2>3, <2>5, <3>1
  <2> QED
    BY <2>1, <2>5, <2>7, AnnouncementsOnly
<1> QED
  BY <1>1, <1>2

(* No table names an announcement.                                          *)
LEMMA DeletedAnnouncement ==
  ASSUME NEW d, Sound(d), NEW id
  PROVE  Sound(AdminDeleteAnnouncement(d, id))
<1> DEFINE e == DeleteAnnouncement(d, id)
<1>1. /\ Same(d, e, {"announcements"})
      /\ e.announcements = {a \in d.announcements : a.id # id}
  BY DEF Sound, Intact, SerialsOK, DeleteAnnouncement, Same, TableNames, Serial
<1> HIDE DEF e
<1>2. Same(d, e, {"announcements", "seq"}) /\ e.seq = d.seq
  BY <1>1 DEF Same, TableNames, Serial
<1>3. SerialOK(d.announcements, d.seq.announcements, TRUE)
  BY DEF Sound, Intact, SerialsOK, Serial
<1>4. SerialOK(e.announcements, e.seq.announcements, TRUE)
  BY <1>1, <1>2, <1>3, SerialFewer
<1> QED
  BY <1>2, <1>4, AnnouncementsOnly DEF AdminDeleteAnnouncement, e

-----------------------------------------------------------------------------
(* Apps and images.                                                         *)
LEMMA CreatedApp ==
  ASSUME NEW d, Sound(d), NEW slug
  PROVE  Sound(AdminCreateApp(d, slug))
<1> DEFINE id == d.seq.apps
           drawn == NextVal(d, "apps")
           row == [id |-> id, slug |-> slug]
           e == CreateApp(drawn, id, slug)
<1>1. Sound(drawn)
  BY DrawnSound DEF Sound, Serial
<1>2. CASE SlugTaken(d, slug, 0)
  BY <1>1, <1>2 DEF AdminCreateApp
<1>3. CASE ~SlugTaken(d, slug, 0)
  <2>1. AdminCreateApp(d, slug) = e
    BY <1>3 DEF AdminCreateApp
  <2>2. /\ Same(d, drawn, {"seq"}) /\ DOMAIN drawn.seq = DOMAIN d.seq /\ drawn.seq.apps = id + 1
        /\ \A t \in DOMAIN d.seq : t # "apps" => drawn.seq[t] = d.seq[t]
    BY Drawn DEF Sound, Intact, Serial
  <2>3. DOMAIN drawn = TableNames \cup {"seq"} /\ drawn.apps = d.apps
    BY <1>1, <2>2 DEF Sound, Intact, SerialsOK, Same, TableNames, Serial
  <2> HIDE DEF drawn
  <2>4. Same(drawn, e, {"apps"}) /\ e.apps = d.apps \cup {row}
    BY <2>3 DEF CreateApp, Same, TableNames, Serial
  <2>5. row.id = id /\ row.slug = slug /\ DOMAIN row = {"id", "slug"}
    OBVIOUS
  <2> HIDE DEF e, row
  <2>6. /\ e.seq = drawn.seq /\ e.workbooks = d.workbooks /\ e.questions = d.questions
        /\ e.singleChoices = d.singleChoices /\ e.choices = d.choices
        /\ e.images = d.images /\ e.questionImages = d.questionImages
        /\ e.workbookQuestions = d.workbookQuestions
        /\ e.categories = d.categories /\ e.appCategories = d.appCategories
        /\ Same(d, e, {"apps", "seq"})
    BY <2>2, <2>4 DEF Same, TableNames, Serial
  <2>7. SerialOK(d.apps, id, TRUE) /\ \A a \in d.apps : a.id # id
    BY DEF Sound, Intact, SerialsOK, SerialOK, Serial
  <2>8. SerialsOK(e, TRUE)
    <3>1. SerialOK(e["apps"], e.seq["apps"], TRUE)
      <4> HIDE DEF id
      <4>1. SerialOK(d.apps \cup {row}, id + 1, TRUE)
        BY <2>5, <2>7, SerialAdded, Zenon
      <4>2. e.apps = d.apps \cup {row} /\ e.seq.apps = id + 1
        BY <2>2, <2>4, <2>6
      <4> QED
        BY <4>1, <4>2
    <3>2. /\ Same(d, e, {"apps", "seq"} \cup (TableNames \ Serial)) /\ DOMAIN e.seq = DOMAIN d.seq
          /\ \A t \in Serial : t # "apps" => e.seq[t] = d.seq[t]
      BY <2>2, <2>6 DEF Same, Sound, Intact, SerialsOK, TableNames, Serial
    <3>3. "apps" \in Serial
      BY DEF Serial
    <3> QED
      BY <3>1, <3>2, <3>3, SerialsWritten DEF Sound, Intact
  <2>9. QuestionsOK(e, TRUE)
    BY <2>2, <2>6 DEF Sound, Intact, SerialsOK, QuestionsOK
  <2>10. PlacesOK(e) /\ ImagesOK(e) /\ CategoriesOK(e)
    BY <2>6 DEF Sound, Intact, PlacesOK, ImagesOK, CategoriesOK, WorkbookExists, CategoryExists
  <2>11. AppsOK(e)
    <3>1. \A a \in d.apps : a.slug # slug
      BY <1>3, <2>7 DEF SlugTaken, SerialOK
    <3> QED
      BY <2>4, <2>5, <2>6, <3>1 DEF Sound, Intact, AppsOK, CategoryExists
  <2> QED
    BY <2>1, <2>8, <2>9, <2>10, <2>11 DEF Sound, Intact
<1> QED
  BY <1>2, <1>3

(* An update keeps slugs unique, or is refused.                             *)
LEMMA UpdatedApp ==
  ASSUME NEW d, Sound(d), NEW id, NEW slug
  PROVE  Sound(AdminUpdateApp(d, id, slug))
<1> DEFINE e == UpdateApp(d, id, slug)
           New(a) == IF a.id = id THEN [a EXCEPT !.slug = slug] ELSE a
           f == [a \in d.apps |-> New(a)]
<1>1. CASE GetAppByID(d, id) = {} \/ SlugTaken(d, slug, id)
  BY <1>1 DEF AdminUpdateApp
<1>2. CASE ~(GetAppByID(d, id) = {} \/ SlugTaken(d, slug, id))
  <2>1. AdminUpdateApp(d, id, slug) = e
    BY <1>2 DEF AdminUpdateApp
  <2>2. Same(d, e, {"apps"}) /\ e.apps = {New(a) : a \in d.apps}
    BY DEF Sound, Intact, SerialsOK, UpdateApp, Same, TableNames, Serial
  <2> HIDE DEF e
  <2>3. \A a \in d.apps : /\ New(a).id = a.id /\ DOMAIN New(a) = DOMAIN a
                          /\ New(a).slug = IF a.id = id THEN slug ELSE a.slug
    BY DEF Sound, Intact, AppsOK
  <2> HIDE DEF New
  <2>4. SerialsOK(e, TRUE)
    <3>1. f \in Surjection(d["apps"], e["apps"]) /\ \A a \in d["apps"] : f[a].id = a.id
      BY <2>2, <2>3 DEF Surjection
    <3>2. Same(d, e, {"apps"} \cup (TableNames \ Serial)) /\ "apps" \in Serial
      BY <2>2 DEF Same, Serial
    <3> HIDE DEF f
    <3> QED
      BY <3>1, <3>2, ChangedTable DEF Sound, Intact
  <2>5. /\ e.seq = d.seq /\ e.workbooks = d.workbooks /\ e.questions = d.questions
        /\ e.singleChoices = d.singleChoices /\ e.choices = d.choices
        /\ e.images = d.images /\ e.questionImages = d.questionImages
        /\ e.workbookQuestions = d.workbookQuestions
        /\ e.categories = d.categories /\ e.appCategories = d.appCategories
    BY <2>2 DEF Same, TableNames, Serial
  <2>6. QuestionsOK(e, TRUE) /\ PlacesOK(e) /\ ImagesOK(e) /\ CategoriesOK(e)
    BY <2>5 DEF Sound, Intact, QuestionsOK, PlacesOK, ImagesOK, CategoriesOK, WorkbookExists, CategoryExists
  <2>7. AppsOK(e)
    <3>1. \A a, b \in d.apps : New(a).slug = New(b).slug => a = b
      <4>1. \A a \in d.apps : a.id # id => a.slug # slug
        BY <1>2 DEF SlugTaken
      <4>2. \A a, b \in d.apps : a.id = b.id => a = b
        BY DEF Sound, Intact, SerialsOK, SerialOK, Serial, Keyed
      <4> QED
        BY <2>3, <4>1, <4>2 DEF Sound, Intact, AppsOK
    <3>2. \A a, b \in e.apps : a.slug = b.slug => a = b
      BY <2>2, <3>1
    <3>3. /\ \A a \in e.apps : DOMAIN a = {"id", "slug"}
          /\ LinkedOK(e.appCategories)
          /\ \A r \in e.appCategories : CategoryExists(e, r.category) /\ \E a \in e.apps : a.id = r.app
      BY <2>2, <2>3, <2>5 DEF Sound, Intact, AppsOK, CategoryExists
    <3> QED
      BY <3>2, <3>3 DEF AppsOK
  <2> QED
    BY <2>1, <2>4, <2>6, <2>7 DEF Sound, Intact
<1> QED
  BY <1>1, <1>2

(* An app takes its links to categories with it.                            *)
LEMMA DeletedApp ==
  ASSUME NEW d, Sound(d), NEW id
  PROVE  Sound(AdminDeleteApp(d, id))
<1> DEFINE e == DeleteApp(d, id)
<1>1. /\ Same(d, e, {"apps", "appCategories"}) /\ e.apps = {a \in d.apps : a.id # id}
      /\ e.appCategories = {r \in d.appCategories : r.app # id}
  BY DEF Sound, Intact, SerialsOK, DeleteApp, Same, TableNames, Serial
<1> HIDE DEF e
<1>2. /\ e.seq = d.seq /\ e.workbooks = d.workbooks /\ e.questions = d.questions
      /\ e.singleChoices = d.singleChoices /\ e.choices = d.choices
      /\ e.images = d.images /\ e.questionImages = d.questionImages
      /\ e.workbookQuestions = d.workbookQuestions /\ e.categories = d.categories
  BY <1>1 DEF Same, TableNames, Serial
<1>3. SerialsOK(e, TRUE)
  <2>1. SerialOK(d.apps, d.seq.apps, TRUE)
    BY DEF Sound, Intact, SerialsOK, Serial
  <2>2. SerialOK(e["apps"], e.seq["apps"], TRUE)
    BY <1>1, <1>2, <2>1, SerialFewer
  <2>3. /\ Same(d, e, {"apps", "seq"} \cup (TableNames \ Serial)) /\ DOMAIN e.seq = DOMAIN d.seq
        /\ \A t \in Serial : t # "apps" => e.seq[t] = d.seq[t]
    BY <1>1, <1>2 DEF Same, TableNames, Serial
  <2>4. "apps" \in Serial
    BY DEF Serial
  <2> QED
    BY <2>2, <2>3, <2>4, SerialsWritten DEF Sound, Intact
<1>4. QuestionsOK(e, TRUE) /\ PlacesOK(e) /\ ImagesOK(e) /\ CategoriesOK(e)
  BY <1>2 DEF Sound, Intact, QuestionsOK, PlacesOK, ImagesOK, CategoriesOK, WorkbookExists, CategoryExists
<1>5. AppsOK(e)
  <2>1. LinkedOK(e.appCategories)
    BY <1>1, FewerRows DEF Sound, Intact, AppsOK
  <2> QED
    BY <1>1, <1>2, <2>1 DEF Sound, Intact, AppsOK, CategoryExists
<1> QED
  BY <1>3, <1>4, <1>5 DEF Sound, Intact, AdminDeleteApp, e

(* An upload is a row of its own, with a path nobody else has.              *)
LEMMA CreatedImage ==
  ASSUME NEW ahead \in BOOLEAN, NEW d, Intact(ahead, d), NEW paths, NEW path \in NewPaths(d, paths)
  PROVE  Intact(ahead, CreatePresignedUrl(d, path))
<1> DEFINE id == d.seq.images
           drawn == NextVal(d, "images")
           row == [id |-> id, path |-> path]
           e == CreateImage(drawn, id, path)
<1>1. Intact(ahead, drawn)
  BY DrawnSound DEF Serial
<1>2. CASE \E m \in d.images : m.id = id
  BY <1>1, <1>2 DEF CreatePresignedUrl
<1>3. CASE ~\E m \in d.images : m.id = id
  <2>1. CreatePresignedUrl(d, path) = e
    BY <1>3 DEF CreatePresignedUrl
  <2>2. /\ Same(d, drawn, {"seq"}) /\ DOMAIN drawn.seq = DOMAIN d.seq /\ drawn.seq.images = id + 1
        /\ \A t \in DOMAIN d.seq : t # "images" => drawn.seq[t] = d.seq[t]
    BY Drawn DEF Intact, Serial
  <2>3. DOMAIN drawn = TableNames \cup {"seq"} /\ drawn.images = d.images
    BY <1>1, <2>2 DEF Intact, SerialsOK, Same, TableNames, Serial
  <2> HIDE DEF drawn
  <2>4. Same(drawn, e, {"images"}) /\ e.images = d.images \cup {row}
    BY <2>3 DEF CreateImage, Same, TableNames, Serial
  <2>5. row.id = id /\ row.path = path
    OBVIOUS
  <2> HIDE DEF e, row
  <2>6. /\ e.seq = drawn.seq /\ e.workbooks = d.workbooks /\ e.questions = d.questions
        /\ e.singleChoices = d.singleChoices /\ e.choices = d.choices
        /\ e.questionImages = d.questionImages /\ e.workbookQuestions = d.workbookQuestions
        /\ e.categories = d.categories /\ e.apps = d.apps /\ e.appCategories = d.appCategories
        /\ Same(d, e, {"images", "seq"})
    BY <2>2, <2>4 DEF Same, TableNames, Serial
  <2>7. SerialsOK(e, ahead)
    <3>1. SerialOK(d.images, id, ahead)
      BY DEF Intact, SerialsOK, Serial
    <3> HIDE DEF id
    <3>2. SerialOK(e["images"], e.seq["images"], ahead)
      BY <1>3, <2>2, <2>4, <2>5, <2>6, <3>1, SerialAdded
    <3>3. /\ Same(d, e, {"images", "seq"} \cup (TableNames \ Serial)) /\ DOMAIN e.seq = DOMAIN d.seq
          /\ \A t \in Serial : t # "images" => e.seq[t] = d.seq[t]
      BY <2>2, <2>6 DEF Same, Intact, SerialsOK, TableNames, Serial
    <3>4. "images" \in Serial
      BY DEF Serial
    <3> QED
      BY <3>2, <3>3, <3>4, SerialsWritten DEF Intact
  <2>8. QuestionsOK(e, ahead)
    BY <2>2, <2>6 DEF Intact, SerialsOK, QuestionsOK
  <2>9. PlacesOK(e) /\ CategoriesOK(e) /\ AppsOK(e)
    BY <2>6 DEF Intact, PlacesOK, CategoriesOK, AppsOK, WorkbookExists, CategoryExists
  <2>10. ImagesOK(e)
    <3>1. \A m \in d.images : m.path # path
      BY DEF NewPaths
    <3> QED
      BY <2>4, <2>5, <2>6, <3>1 DEF Intact, ImagesOK
  <2> QED
    BY <2>1, <2>7, <2>8, <2>9, <2>10 DEF Intact
<1> QED
  BY <1>2, <1>3

(* The requests of the tables with content, all together.                   *)
LEMMA RequestsAreSound ==
  ASSUME NEW d, Sound(d)
  PROVE  /\ \A b : QuestionBody(b) => /\ Sound(AdminCreateQuestion(d, b))
                                     /\ \A q : Sound(AdminUpdateQuestion(d, q, b))
         /\ \A b : WorkbookBody(b) => /\ Sound(AdminCreateWorkbook(d, b))
                                     /\ \A id : Sound(AdminUpdateWorkbook(d, id, b))
         /\ \A id : /\ Sound(AdminDeleteQuestion(d, id)) /\ Sound(AdminDeleteWorkbook(d, id))
                    /\ Sound(AdminDeleteCategory(d, id))
         /\ \A title : /\ Sound(AdminCreateCategory(d, title))
                       /\ \A id : Sound(AdminUpdateCategory(d, id, title))
         /\ \A paths : \A path \in NewPaths(d, paths) : Sound(CreatePresignedUrl(d, path))
<1>1. TRUE \in BOOLEAN /\ Intact(TRUE, d)
  BY DEF Sound
<1>2. \A b : QuestionBody(b) => /\ Intact(TRUE, AdminCreateQuestion(d, b))
                               /\ \A q : Intact(TRUE, AdminUpdateQuestion(d, q, b))
  BY ONLY <1>1, CreatedQuestion, UpdatedQuestion, Zenon
<1>3. \A b : WorkbookBody(b) => /\ Intact(TRUE, AdminCreateWorkbook(d, b))
                               /\ \A id : Intact(TRUE, AdminUpdateWorkbook(d, id, b))
  BY ONLY <1>1, CreatedWorkbook, UpdatedWorkbook, Zenon
<1>4. \A id : /\ Intact(TRUE, AdminDeleteQuestion(d, id)) /\ Intact(TRUE, AdminDeleteWorkbook(d, id))
             /\ Intact(TRUE, AdminDeleteCategory(d, id))
  BY ONLY <1>1, DeletedQuestion, DeletedWorkbook, DeletedCategory, Zenon
<1>5. \A title : /\ Intact(TRUE, AdminCreateCategory(d, title))
                /\ \A id : Intact(TRUE, AdminUpdateCategory(d, id, title))
  BY ONLY <1>1, CreatedCategory, UpdatedCategory, Zenon
<1>6. \A paths : \A path \in NewPaths(d, paths) : Intact(TRUE, CreatePresignedUrl(d, path))
  BY ONLY <1>1, CreatedImage, Zenon
<1> QED
  BY <1>2, <1>3, <1>4, <1>5, <1>6 DEF Sound

-----------------------------------------------------------------------------
(* ORDER BY.  A strict total order on finitely many rows, given by the rows *)
(* that come before each.                                                   *)
OrderOn(S, below) ==
  /\ IsFiniteSet(S) /\ below \in [S -> SUBSET S]
  /\ \A r \in S : r \notin below[r]
  /\ \A r, s \in S : r \in below[s] => below[r] \subseteq below[s]
  /\ \A r, s \in S : r = s \/ r \in below[s] \/ s \in below[r]
(* A listing shows every row once, in the order.                            *)
InOrder(f, S, below) ==
  /\ Cardinality(S) \in Nat /\ DOMAIN f = 1 .. Cardinality(S)
  /\ \A i \in DOMAIN f : f[i] \in S
  /\ \A r \in S : \E i \in DOMAIN f : f[i] = r
  /\ \A i, j \in DOMAIN f : i < j <=> f[i] \in below[f[j]]

(* The number of rows before a row is its place.                            *)
LEMMA Ranked ==
  ASSUME NEW S, NEW below, OrderOn(S, below)
  PROVE  LET n == Cardinality(S)
             rank == [r \in S |-> Cardinality(below[r])]
         IN  /\ n \in Nat
             /\ \A r \in S : rank[r] \in 0 .. n - 1
             /\ \A r, s \in S : r \in below[s] => rank[r] < rank[s]
             /\ \A i \in 0 .. n - 1 : \E r \in S : rank[r] = i
<1> DEFINE n == Cardinality(S)
           rank == [r \in S |-> Cardinality(below[r])]
<1>1. n \in Nat
  BY FS_CardinalityType DEF OrderOn
<1>2. \A r \in S : IsFiniteSet(below[r]) /\ rank[r] = Cardinality(below[r]) /\ rank[r] \in Nat
  <2> SUFFICES ASSUME NEW r \in S PROVE IsFiniteSet(below[r]) /\ Cardinality(below[r]) \in Nat
    OBVIOUS
  <2>1. below[r] \in SUBSET S
    BY DEF OrderOn
  <2> QED
    BY <2>1, FS_Subset, FS_CardinalityType DEF OrderOn
<1>3. ASSUME NEW r \in S PROVE rank[r] \in 0 .. n - 1
  <2>1. below[r] \in SUBSET S /\ below[r] # S
    BY DEF OrderOn
  <2>2. Cardinality(below[r]) <= n /\ Cardinality(below[r]) # n
    BY <2>1, FS_Subset DEF OrderOn
  <2> QED
    BY <1>1, <1>2, <2>2
<1>4. ASSUME NEW r \in S, NEW s \in S, r \in below[s] PROVE rank[r] < rank[s]
  <2>1. below[r] \in SUBSET below[s] /\ below[r] # below[s]
    BY <1>4 DEF OrderOn
  <2>2. Cardinality(below[r]) <= Cardinality(below[s]) /\ Cardinality(below[r]) # Cardinality(below[s])
    BY <1>2, <2>1, FS_Subset
  <2> QED
    BY <1>2, <2>2
<1>5. \A r, s \in S : rank[r] = rank[s] => r = s
  BY <1>2, <1>4 DEF OrderOn
<1>6. rank \in Injection(S, 0 .. n - 1)
  BY <1>3, <1>5 DEF Injection, IsInjective
<1>7. IsFiniteSet(0 .. n - 1) /\ Cardinality(0 .. n - 1) = n
  BY <1>1, FS_Interval
<1>8. rank \in Surjection(S, 0 .. n - 1)
  BY <1>6, <1>7, FS_Injection
<1>9. \A i \in 0 .. n - 1 : \E r \in S : rank[r] = i
  BY <1>8 DEF Surjection
<1> QED
  BY <1>1, <1>3, <1>4, <1>9

(* So the rows, each at the place of its rank, are a listing.               *)
LEMMA Ordered ==
  ASSUME NEW S, NEW below, OrderOn(S, below), NEW f, DOMAIN f = 1 .. Cardinality(S),
         \A i \in DOMAIN f :
           (\E r \in S : Cardinality(below[r]) = i - 1)
             => f[i] \in S /\ Cardinality(below[f[i]]) = i - 1
  PROVE  InOrder(f, S, below)
<1> DEFINE n == Cardinality(S)
           rank == [r \in S |-> Cardinality(below[r])]
<1>1. /\ n \in Nat
      /\ \A r \in S : rank[r] \in 0 .. n - 1
      /\ \A r, s \in S : r \in below[s] => rank[r] < rank[s]
      /\ \A i \in 0 .. n - 1 : \E r \in S : rank[r] = i
  BY Ranked
<1>2. \A r \in S : rank[r] = Cardinality(below[r])
  OBVIOUS
<1> HIDE DEF rank
<1>3. \A i \in 1 .. n : f[i] \in S /\ rank[f[i]] = i - 1
  <2> SUFFICES ASSUME NEW i \in 1 .. n PROVE f[i] \in S /\ rank[f[i]] = i - 1
    OBVIOUS
  <2>1. i - 1 \in 0 .. n - 1
    BY <1>1
  <2>2. \E r \in S : Cardinality(below[r]) = i - 1
    BY <1>1, <1>2, <2>1
  <2> QED
    BY <1>2, <2>2
<1>4. \A r, s \in S : rank[r] = rank[s] => r = s
  BY <1>1 DEF OrderOn
<1>5. ASSUME NEW r \in S PROVE \E i \in 1 .. n : f[i] = r
  <2>1. PICK i \in 1 .. n : i - 1 = rank[r]
    <3>1. rank[r] + 1 \in 1 .. n /\ (rank[r] + 1) - 1 = rank[r]
      BY <1>1
    <3> QED
      BY <3>1
  <2>2. f[i] \in S /\ rank[f[i]] = rank[r]
    BY <1>3, <2>1
  <2> QED
    BY <1>4, <2>2
<1>6. ASSUME NEW i \in 1 .. n, NEW j \in 1 .. n PROVE i < j <=> f[i] \in below[f[j]]
  <2>1. f[i] \in S /\ f[j] \in S /\ rank[f[i]] = i - 1 /\ rank[f[j]] = j - 1
    BY <1>3
  <2>2. f[i] \in below[f[j]] => i < j
    BY <1>1, <2>1
  <2>3. f[j] \in below[f[i]] => j < i
    BY <1>1, <2>1
  <2>4. f[i] = f[j] => i = j
    BY <1>1, <2>1
  <2>5. f[i] = f[j] \/ f[i] \in below[f[j]] \/ f[j] \in below[f[i]]
    BY <2>1 DEF OrderOn
  <2> QED
    BY <1>1, <2>2, <2>3, <2>4, <2>5
<1> QED
  BY <1>1, <1>3, <1>5, <1>6 DEF InOrder

(* The choices of a question, by their index.                               *)
ChoicesOf(d, q) == {c \in d.choices : c.question = q}
LEMMA ChoicesInOrder ==
  ASSUME NEW d, ChoicesOK(d.choices), NEW q
  PROVE  InOrder(GetChoicesByQuestionID(d, q), ChoicesOf(d, q),
                 [c \in ChoicesOf(d, q) |-> {e \in ChoicesOf(d, q) : e.index < c.index}])
<1> DEFINE S == ChoicesOf(d, q)
           below == [c \in S |-> {e \in S : e.index < c.index}]
           f == GetChoicesByQuestionID(d, q)
<1>1. /\ IsFiniteSet(S) /\ \A c \in S : c.index \in Nat
      /\ \A a, c \in S : a.index = c.index => a = c
  BY FewerRows DEF ChoicesOK, ChoicesOf
<1>2. f = [i \in 1 .. Cardinality(S) |->
             CHOOSE r \in S : Cardinality({s \in S : s.index < r.index}) = i - 1]
  BY DEF GetChoicesByQuestionID, OrderBy, ChoicesOf
<1> HIDE DEF S, f
<1>3. OrderOn(S, below)
  BY <1>1 DEF OrderOn
<1>4. \A r \in S : below[r] = {s \in S : s.index < r.index}
  OBVIOUS
<1> HIDE DEF below
<1>5. ASSUME NEW i \in 1 .. Cardinality(S), \E r \in S : Cardinality(below[r]) = i - 1
      PROVE  f[i] \in S /\ Cardinality(below[f[i]]) = i - 1
  <2>1. \E r \in S : Cardinality({s \in S : s.index < r.index}) = i - 1
    BY <1>4, <1>5
  <2>2. f[i] \in S /\ Cardinality({s \in S : s.index < f[i].index}) = i - 1
    BY <1>2, <2>1
  <2> QED
    BY <1>4, <2>2
<1>6. DOMAIN f = 1 .. Cardinality(S)
  BY <1>2
<1>7. InOrder(f, S, below)
  BY <1>3, <1>5, <1>6, Ordered
<1> QED
  BY <1>7 DEF S, f, below

(* The key of a question with at most one correct choice is that choice.    *)
LEMMA KeyOfQuestion ==
  ASSUME NEW d, ChoicesOK(d.choices), SingleKey(d.choices), NEW q, NEW default
  PROVE  LET key == LastCorrect(GetChoicesByQuestionID(d, q), default)
         IN  /\ \A c \in ChoicesOf(d, q) : c.correct => key = c.index
             /\ (\A c \in ChoicesOf(d, q) : ~c.correct) => key = default
<1> DEFINE S == ChoicesOf(d, q)
           f == GetChoicesByQuestionID(d, q)
           right == {i \in DOMAIN f : f[i].correct}
<1>1. /\ \A i \in DOMAIN f : f[i] \in S
      /\ \A r \in S : \E i \in DOMAIN f : f[i] = r
      /\ \A i, j \in DOMAIN f : f[i] = f[j] => i = j
  <2> DEFINE below == [c \in S |-> {e \in S : e.index < c.index}]
  <2>1. InOrder(f, S, below)
    BY ChoicesInOrder
  <2>2. DOMAIN f \subseteq Int
    BY <2>1 DEF InOrder
  <2> HIDE DEF f, S
  <2>3. \A c \in S : c.index \in Nat /\ c \notin below[c]
    BY DEF S, ChoicesOf, ChoicesOK
  <2> HIDE DEF below
  <2> QED
    BY <2>1, <2>2, <2>3 DEF InOrder
<1>2. LastCorrect(f, default) =
        IF right = {} THEN default ELSE f[CHOOSE i \in right : \A j \in right : j <= i].index
  BY DEF LastCorrect
<1>3. DOMAIN f \subseteq Int
  BY ChoicesInOrder DEF InOrder
<1>4. ASSUME NEW c \in S, c.correct PROVE LastCorrect(f, default) = c.index
  <2>1. PICK k \in DOMAIN f : f[k] = c
    BY <1>1
  <2>2. \A i \in right : f[i] = c
    BY <1>1, <1>4 DEF SingleKey, ChoicesOf
  <2>3. right = {k}
    BY <1>1, <1>4, <2>1, <2>2
  <2>4. (CHOOSE i \in right : \A j \in right : j <= i) = k
    BY <1>3, <2>1, <2>3
  <2> QED
    BY <1>2, <2>1, <2>3, <2>4
<1>5. ASSUME \A c \in S : ~c.correct PROVE LastCorrect(f, default) = default
  BY <1>1, <1>2, <1>5
<1> QED
  BY <1>4, <1>5

(* What the requests that concern questions make of the choices.            *)
OneCorrect(b) == \A i, j \in DOMAIN b.choices : b.choices[i].correct /\ b.choices[j].correct => i = j
LEMMA KeysStaySingle ==
  ASSUME NEW d, Sound(d), SingleKey(d.choices), NEW q, NEW b, QuestionBody(b), OneCorrect(b)
  PROVE  SingleKey(AdminUpdateQuestion(d, q, b).choices)
<1> DEFINE t == UpdateSingleChoice(d, q, b.text)
           f == DeleteChoicesByQuestionID(t, q)
           c == CreateChoice(f, q, b.choices)
           e == CreateQuestionImage(DeleteQuestionImages(c, q), q, b.images)
<1>1. AdminUpdateQuestion(d, q, b) \in {d, e}
  BY DEF AdminUpdateQuestion
<1>2. DOMAIN d = TableNames \cup {"seq"} /\ DOMAIN t = DOMAIN d /\ t.choices = d.choices
  BY DEF Sound, Intact, SerialsOK, UpdateSingleChoice, TableNames
<1> HIDE DEF t
<1>3. DOMAIN f = DOMAIN d /\ f.choices = {r \in d.choices : r.question # q}
  BY <1>2 DEF DeleteChoicesByQuestionID, TableNames
<1> HIDE DEF f
<1>4. GivesChoices(f, c, q, b)
  <2>1. ChoicesOK(f.choices) /\ NoneOf(f.choices, q)
    BY <1>3, FewerRows DEF Sound, Intact, QuestionsOK, NoneOf
  <2> QED
    BY <1>2, <1>3, <2>1, WrittenChoices
<1>5. e.choices = c.choices
  <2>1. DOMAIN c = TableNames \cup {"seq"}
    BY <1>2, <1>3, <1>4 DEF GivesChoices, Same
  <2> HIDE DEF c
  <2> QED
    BY <2>1 DEF CreateQuestionImage, DeleteQuestionImages, TableNames
<1> HIDE DEF c, e
<1>6. ASSUME NEW r \in c.choices, NEW s \in c.choices,
             r.question = s.question, r.correct, s.correct
      PROVE  r = s
  <2>1. CASE r.question = q
    <3>1. r \notin f.choices /\ s \notin f.choices
      BY <1>3, <1>6, <2>1
    <3>2. PICK i \in DOMAIN b.choices : r.index = i - 1 /\ b.choices[i].correct
      BY <1>4, <1>6, <3>1 DEF GivesChoices
    <3>3. PICK j \in DOMAIN b.choices : s.index = j - 1 /\ b.choices[j].correct
      BY <1>4, <1>6, <3>1 DEF GivesChoices
    <3>4. r.index = s.index
      BY <3>2, <3>3 DEF OneCorrect
    <3> QED
      BY <1>4, <1>6, <3>4 DEF GivesChoices, ChoicesOK
  <2>2. CASE r.question # q
    BY <1>3, <1>4, <1>6, <2>2 DEF GivesChoices, SingleKey
  <2> QED
    BY <2>1, <2>2
<1>7. SingleKey(c.choices)
  BY <1>6 DEF SingleKey
<1> QED
  BY <1>1, <1>5, <1>7

-----------------------------------------------------------------------------
(* Sequences, whatever is in them.                                         *)
IsSequence(s) == s \in Seq({s[i] : i \in DOMAIN s})
LEMMA FunctionIsSequence ==
  ASSUME NEW n \in Nat, NEW s, s = [i \in 1 .. n |-> s[i]]
  PROVE  IsSequence(s) /\ DOMAIN s = 1 .. n
<1>1. DOMAIN s = 1 .. n
  OBVIOUS
<1>2. s \in [1 .. n -> {s[i] : i \in DOMAIN s}]
  BY <1>1
<1> QED
  BY <1>1, <1>2 DEF IsSequence

(* What is left when the first of a sequence is taken off.                  *)
LEMMA TailOfSequence ==
  ASSUME NEW s, IsSequence(s), s # << >>
  PROVE  /\ IsSequence(Tail(s)) /\ (Len(s) # 1 => Tail(s) # << >>)
         /\ \A i \in DOMAIN s : \/ s[i] = Head(s)
                                \/ /\ Len(s) # 1
                                   /\ \E j \in DOMAIN Tail(s) : Tail(s)[j] = s[i]
<1> DEFINE T == {s[i] : i \in DOMAIN s}
           t == Tail(s)
           n == Len(s)
<1>1. s \in Seq(T) /\ n \in Nat /\ DOMAIN s = 1 .. n /\ n > 0 /\ Head(s) = s[1]
  BY DEF IsSequence
<1>2. t \in Seq(T) /\ Len(t) = n - 1 /\ DOMAIN t = 1 .. n - 1 /\ \A j \in 1 .. n - 1 : t[j] = s[j + 1]
  BY <1>1, HeadTailProperties
<1> HIDE DEF T, t, n
<1>3. IsSequence(t)
  <2>1. t = [i \in 1 .. n - 1 |-> t[i]] /\ n - 1 \in Nat
    BY <1>1, <1>2
  <2> QED
    BY <2>1, FunctionIsSequence
<1>4. n # 1 => t # << >>
  BY <1>1, <1>2
<1>5. ASSUME NEW i \in DOMAIN s, i # 1 PROVE n # 1 /\ \E j \in DOMAIN t : t[j] = s[i]
  <2>1. n # 1 /\ i - 1 \in 1 .. n - 1 /\ (i - 1) + 1 = i
    BY <1>1, <1>5
  <2> QED
    BY <1>2, <2>1
<1> QED
  BY <1>1, <1>3, <1>4, <1>5 DEF t, n

(* Ids in their order, and a page that holds all rows.                      *)
LEMMA OrderedIds ==
  ASSUME NEW W, IsFiniteSet(W), W \subseteq Nat
  PROVE  LET ids == OrderBy(W, LAMBDA p, q : p < q)
         IN  /\ ids \in Seq(W) /\ Len(ids) = Cardinality(W)
             /\ {ids[i] : i \in DOMAIN ids} = W
             /\ \A i, j \in DOMAIN ids : i < j <=> ids[i] < ids[j]
<1> DEFINE below == [q \in W |-> {p \in W : p < q}]
           ids == OrderBy(W, LAMBDA p, q : p < q)
<1>1. ids = [i \in 1 .. Cardinality(W) |->
               CHOOSE r \in W : Cardinality({s \in W : s < r}) = i - 1]
  BY DEF OrderBy
<1>3. DOMAIN below = W /\ \A r \in W : below[r] = {s \in W : s < r}
  OBVIOUS
<1>2. OrderOn(W, below)
  <2>1. below \in [W -> SUBSET W]
    OBVIOUS
  <2>2. \A r \in W : r \in Nat
    OBVIOUS
  <2> HIDE DEF below
  <2>3. \A r, s \in W : r \in below[s] <=> r < s
    BY <1>3
  <2>4. ASSUME NEW r \in W, NEW s \in W, r \in below[s] PROVE below[r] \subseteq below[s]
    <3>1. \A x \in W : (x < r /\ r < s) => x < s
      BY <2>2
    <3> QED
      BY <1>3, <2>4, <3>1
  <2>5. \A r, s \in W : r = s \/ r < s \/ s < r
    BY <2>2
  <2>6. \A r \in W : ~(r < r)
    BY <2>2
  <2> QED
    BY <2>1, <2>3, <2>4, <2>5, <2>6 DEF OrderOn
<1> HIDE DEF ids, below
<1>4. ASSUME NEW i \in 1 .. Cardinality(W), \E r \in W : Cardinality(below[r]) = i - 1
      PROVE  ids[i] \in W /\ Cardinality(below[ids[i]]) = i - 1
  <2>1. \E r \in W : Cardinality({s \in W : s < r}) = i - 1
    BY <1>3, <1>4
  <2>2. ids[i] \in W /\ Cardinality({s \in W : s < ids[i]}) = i - 1
    BY <1>1, <2>1
  <2> QED
    BY <1>3, <2>2
<1>5. DOMAIN ids = 1 .. Cardinality(W)
  BY <1>1
<1>6. InOrder(ids, W, below)
  BY <1>2, <1>4, <1>5, Ordered
<1>7. ids \in Seq(W) /\ Len(ids) = Cardinality(W)
  <2> DEFINE n == Cardinality(W)
  <2>1. n \in Nat /\ \A i \in 1 .. n : ids[i] \in W
    BY <1>5, <1>6 DEF InOrder
  <2>2. ids = [i \in 1 .. n |-> ids[i]]
    <3> DEFINE at(i) == CHOOSE r \in W : Cardinality({s \in W : s < r}) = i - 1
    <3>1. ids = [i \in 1 .. n |-> at(i)]
      BY <1>1
    <3> HIDE DEF at, n
    <3> QED
      BY <3>1
  <2> HIDE DEF n
  <2>3. ids \in [1 .. n -> W]
    BY <2>1, <2>2
  <2> QED
    BY <1>5, <2>1, <2>3 DEF n
<1>8. {ids[i] : i \in DOMAIN ids} = W
  BY <1>6 DEF InOrder
<1>9. \A i, j \in DOMAIN ids : i < j <=> ids[i] < ids[j]
  BY <1>3, <1>6 DEF InOrder
<1> QED
  BY <1>7, <1>8, <1>9 DEF ids

LEMMA WholePage ==
  ASSUME NEW T, NEW rows \in Seq(T), NEW limit \in Nat, Len(rows) <= limit
  PROVE  Page(rows, limit, 0) = rows
<1>1. (IF 0 + limit < Len(rows) THEN 0 + limit ELSE Len(rows)) = Len(rows) /\ 0 + 1 = 1
  OBVIOUS
<1>2. SubSeq(rows, 1, Len(rows)) = rows
  BY SubSeqFull
<1> QED
  BY <1>1, <1>2 DEF Page

-----------------------------------------------------------------------------
(***************************************************************************)
(* What the endpoints say of one database.                                 *)
(***************************************************************************)
(* The choices of one question are replaced by those of a request.          *)
Replaced(C, q, b) ==
  {c \in C : c.question # q} \cup
  {[question |-> q, index |-> i - 1, text |-> b.choices[i].text,
    correct |-> b.choices[i].correct] : i \in DOMAIN b.choices}
LEMMA ChoicesArranged ==
  ASSUME NEW C, \A c \in C : c.index \in Nat, NEW q, NEW b, QuestionBody(b), ValidChoices(b),
         NEW Q, Numbered(C), Answerable(Q \ {q}, C)
  PROVE  Numbered(Replaced(C, q, b)) /\ Answerable(Q, Replaced(C, q, b))
<1> DEFINE cs == b.choices
           row(i) == [question |-> q, index |-> i - 1, text |-> cs[i].text, correct |-> cs[i].correct]
           old == {c \in C : c.question # q}
           new == {row(i) : i \in DOMAIN cs}
<1>1. DOMAIN cs = 1 .. Len(cs) /\ Len(cs) \in Nat /\ \E i \in DOMAIN cs : cs[i].correct
  BY DEF QuestionBody, ValidChoices
<1>2. \A i \in DOMAIN cs : /\ row(i) \in new /\ row(i).question = q /\ row(i).index = i - 1
                           /\ row(i).correct = cs[i].correct
  OBVIOUS
<1>3. \A c \in new : \E i \in DOMAIN cs : c = row(i)
  OBVIOUS
<1>10. Replaced(C, q, b) = old \cup new
  BY DEF Replaced
<1>11. \A c \in C : c \in old <=> c.question # q
  OBVIOUS
<1> HIDE DEF row, cs, new
<1>4. ASSUME NEW c \in new, NEW j \in 0 .. c.index - 1
      PROVE  \E a \in new : a.question = c.question /\ a.index = j
  <2>1. PICK i \in DOMAIN cs : c = row(i)
    BY <1>3
  <2>2. j + 1 \in DOMAIN cs /\ (j + 1) - 1 = j
    BY <1>1, <1>2, <1>4, <2>1
  <2>3. row(j + 1) \in new /\ row(j + 1).question = q /\ row(j + 1).index = j
    BY <1>2, <2>2
  <2> QED
    BY <1>2, <2>1, <2>3
<1>5. ASSUME NEW c \in old, NEW j \in 0 .. c.index - 1
      PROVE  \E a \in old : a.question = c.question /\ a.index = j
  BY <1>5 DEF Numbered
<1>6. \E c \in new : c.question = q /\ c.correct
  BY <1>1, <1>2
<1>7. ASSUME NEW p \in Q, p # q PROVE \E c \in old : c.question = p /\ c.correct
  BY <1>7 DEF Answerable
<1>8. Numbered(old \cup new)
  BY <1>4, <1>5 DEF Numbered
<1>9. Answerable(Q, old \cup new)
  BY <1>6, <1>7 DEF Answerable
<1> QED
  BY <1>8, <1>9, <1>10

(* The questions of one workbook are replaced by a list.                    *)
Placed(R, id, qs) ==
  {r \in R : r.workbook # id} \cup
  {[workbook |-> id, question |-> qs[i], order |-> i - 1] : i \in DOMAIN qs}
LEMMA PlacesArranged ==
  ASSUME NEW R, InPlace(R), NEW id, NEW qs, qs \in Seq(Nat)
  PROVE  InPlace(Placed(R, id, qs))
<1> DEFINE row(i) == [workbook |-> id, question |-> qs[i], order |-> i - 1]
           new == {row(i) : i \in DOMAIN qs}
           old == {r \in R : r.workbook # id}
<1>1. \A i \in DOMAIN qs : i \in Nat /\ row(i).workbook = id /\ row(i).order = i - 1
  OBVIOUS
<1>2. \A r \in new : \E i \in DOMAIN qs : r = row(i)
  OBVIOUS
<1> HIDE DEF row, new
<1>3. ASSUME NEW r \in new, NEW s \in new, r.order = s.order PROVE r = s
  <2>1. PICK i \in DOMAIN qs : r = row(i)
    BY <1>2
  <2>2. PICK j \in DOMAIN qs : s = row(j)
    BY <1>2
  <2>3. i = j
    BY <1>1, <1>3, <2>1, <2>2
  <2> QED
    BY <2>1, <2>2, <2>3
<1>4. \A r \in new : r.workbook = id
  BY <1>1, <1>2
<1>5. InPlace(old \cup new)
  BY <1>3, <1>4 DEF InPlace
<1> QED
  BY <1>5 DEF Placed, new, row

(* An edit that writes none of the tables concerned.                        *)
LEMMA ArrangementKept ==
  ASSUME NEW d, NEW e, Arranged(d), e.questions = d.questions, e.choices = d.choices,
         e.workbookQuestions \subseteq d.workbookQuestions,
         e.appCategories \subseteq d.appCategories,
         \A a \in e.announcements : a \in d.announcements \/ a.publishedAt \in Nat
  PROVE  Arranged(e)
BY DEF Arranged, InPlace

LEMMA QuestionsArranged ==
  ASSUME NEW d, Sound(d), Arranged(d)
  PROVE  /\ \A b : QuestionBody(b) => Arranged(AdminCreateQuestion(d, b))
         /\ \A b, q : QuestionBody(b) => Arranged(AdminUpdateQuestion(d, q, b))
         /\ \A q : Arranged(AdminDeleteQuestion(d, q))
<1>1. /\ DOMAIN d = TableNames \cup {"seq"} /\ DOMAIN d.seq = Serial \cup {"questions"}
      /\ \A c \in d.choices : c.index \in Nat /\ c.question \in d.questions
  BY DEF Sound, Intact, SerialsOK, QuestionsOK, ChoicesOK
<1>2. ASSUME NEW b, QuestionBody(b) PROVE Arranged(AdminCreateQuestion(d, b))
  <2> DEFINE q == d.seq.questions
             drawn == NextVal(d, "questions")
             e == AdminCreateQuestion(d, b)
  <2>1. \A t \in TableNames : drawn[t] = d[t]
    <3>1. SerialsOK(d, TRUE) /\ "questions" \in Serial \cup {"questions"}
      BY DEF Sound, Intact
    <3>2. Same(d, drawn, {"seq"})
      BY <3>1, Drawn
    <3> QED
      BY <3>2 DEF Same, TableNames, Serial
  <2>2. Arranged(drawn)
    <3> HIDE DEF drawn
    <3>1. /\ drawn.questions = d.questions /\ drawn.choices = d.choices
          /\ drawn.workbookQuestions = d.workbookQuestions /\ drawn.appCategories = d.appCategories
          /\ drawn.announcements = d.announcements
      BY <2>1 DEF TableNames, Serial
    <3> QED
      BY <3>1, ArrangementKept
  <2>3. CASE e \in {d, drawn}
    BY <2>2, <2>3
  <2>4. CASE e \notin {d, drawn}
    <3>1. /\ ValidChoices(b) /\ q \notin d.questions
          /\ e = CreateQuestionImage(
                   CreateChoice(CreateSingleChoice(CreateQuestion(drawn, q), q, b.text), q, b.choices),
                   q, b.images)
      BY <2>4 DEF AdminCreateQuestion, QuestionExists
    <3>2. DOMAIN drawn = DOMAIN d
      BY <1>1 DEF NextVal
    <3> HIDE DEF drawn, e
    <3>4. d.choices = {c \in d.choices : c.question # q}
      BY <1>1, <3>1
    <3>3. /\ e.questions = d.questions \cup {q} /\ e.choices = Replaced(d.choices, q, b)
          /\ e.workbookQuestions = d.workbookQuestions /\ e.appCategories = d.appCategories
          /\ e.announcements = d.announcements
      BY <1>1, <2>1, <3>1, <3>2, <3>4 DEF CreateQuestionImage, CreateChoice, CreateSingleChoice,
         CreateQuestion, Replaced, TableNames, Serial
    <3>5. Numbered(d.choices) /\ Answerable((d.questions \cup {q}) \ {q}, d.choices)
      BY DEF Arranged, Answerable
    <3> HIDE DEF q
    <3>6. Numbered(e.choices) /\ Answerable(e.questions, e.choices)
      BY <1>1, <1>2, <3>1, <3>3, <3>5, ChoicesArranged
    <3>7. Arranged(e)
      BY <3>3, <3>6 DEF Arranged
    <3> QED
      BY <3>7 DEF e
  <2> QED
    BY <2>3, <2>4
<1>3. ASSUME NEW b, NEW q, QuestionBody(b) PROVE Arranged(AdminUpdateQuestion(d, q, b))
  <2> DEFINE e == AdminUpdateQuestion(d, q, b)
  <2>1. CASE e = d
    BY <2>1
  <2>2. CASE e # d
    <3>1. /\ ValidChoices(b)
          /\ e = CreateQuestionImage(DeleteQuestionImages(
                   CreateChoice(DeleteChoicesByQuestionID(UpdateSingleChoice(d, q, b.text), q), q, b.choices),
                   q), q, b.images)
      BY <2>2 DEF AdminUpdateQuestion
    <3> HIDE DEF e
    <3>3. /\ e.questions = d.questions
          /\ e.choices = Replaced(d.choices, q, b)
          /\ e.workbookQuestions = d.workbookQuestions /\ e.appCategories = d.appCategories
          /\ e.announcements = d.announcements
      BY <1>1, <3>1 DEF CreateQuestionImage, DeleteQuestionImages, CreateChoice,
         DeleteChoicesByQuestionID, UpdateSingleChoice, Replaced, TableNames, Serial
    <3>5. Numbered(d.choices) /\ Answerable(d.questions \ {q}, d.choices)
      BY DEF Arranged, Answerable
    <3>6. Numbered(e.choices) /\ Answerable(e.questions, e.choices)
      BY <1>1, <1>3, <3>1, <3>3, <3>5, ChoicesArranged
    <3>7. Arranged(e)
      BY <3>3, <3>6 DEF Arranged
    <3> QED
      BY <3>7 DEF e
  <2> QED
    BY <2>1, <2>2
<1>4. ASSUME NEW q PROVE Arranged(AdminDeleteQuestion(d, q))
  <2> DEFINE e == AdminDeleteQuestion(d, q)
  <2>1. /\ e.questions = d.questions \ {q} /\ e.choices = {c \in d.choices : c.question # q}
        /\ e.workbookQuestions \subseteq d.workbookQuestions /\ e.appCategories = d.appCategories
        /\ e.announcements = d.announcements
    BY <1>1 DEF AdminDeleteQuestion, DeleteQuestion, TableNames, Serial
  <2> HIDE DEF e
  <2>2. Numbered(e.choices) /\ Answerable(e.questions, e.choices)
    BY <2>1 DEF Arranged, Numbered, Answerable
  <2>3. InPlace(e.workbookQuestions)
    BY <2>1 DEF Arranged, InPlace
  <2>4. Arranged(e)
    BY <2>1, <2>2, <2>3 DEF Arranged
  <2> QED
    BY <2>4 DEF e
<1> QED
  BY <1>2, <1>3, <1>4

LEMMA WorkbooksArranged ==
  ASSUME NEW d, Sound(d), Arranged(d)
  PROVE  /\ \A b : WorkbookBody(b) => Arranged(AdminCreateWorkbook(d, b))
         /\ \A b, id : WorkbookBody(b) => Arranged(AdminUpdateWorkbook(d, id, b))
         /\ \A id : Arranged(AdminDeleteWorkbook(d, id))
<1>1. /\ DOMAIN d = TableNames \cup {"seq"} /\ DOMAIN d.seq = Serial \cup {"questions"}
      /\ \A r \in d.workbookQuestions : WorkbookExists(d, r.workbook)
  BY DEF Sound, Intact, SerialsOK, PlacesOK
<1>2. ASSUME NEW b, WorkbookBody(b) PROVE Arranged(AdminCreateWorkbook(d, b))
  <2> DEFINE id == d.seq.workbooks
             drawn == NextVal(d, "workbooks")
             e == AdminCreateWorkbook(d, b)
  <2>1. DOMAIN drawn = DOMAIN d /\ \A t \in TableNames : drawn[t] = d[t]
    <3>1. SerialsOK(d, TRUE) /\ "workbooks" \in Serial \cup {"questions"}
      BY DEF Sound, Intact, Serial
    <3>2. Same(d, drawn, {"seq"})
      BY <3>1, Drawn
    <3> QED
      BY <3>2 DEF Same, TableNames, Serial
  <2>2. Arranged(drawn)
    <3> HIDE DEF drawn
    <3>1. /\ drawn.questions = d.questions /\ drawn.choices = d.choices
          /\ drawn.workbookQuestions = d.workbookQuestions /\ drawn.appCategories = d.appCategories
          /\ drawn.announcements = d.announcements
      BY <2>1 DEF TableNames, Serial
    <3> QED
      BY <3>1, ArrangementKept
  <2>3. CASE e = drawn
    BY <2>2, <2>3
  <2>4. CASE e # drawn
    <3>1. /\ ~WorkbookExists(d, id)
          /\ e = bulkInsertWorkbookQuestions(
                   CreateWorkbook(drawn, id, b.title, b.category, IsPublished(b)), id, b.questions)
      BY <2>4 DEF AdminCreateWorkbook
    <3>2. d.workbookQuestions = {r \in d.workbookQuestions : r.workbook # id}
      BY <1>1, <3>1
    <3> HIDE DEF drawn, e, id
    <3>3. /\ e.questions = d.questions /\ e.choices = d.choices
          /\ e.workbookQuestions = Placed(d.workbookQuestions, id, b.questions)
          /\ e.appCategories = d.appCategories /\ e.announcements = d.announcements
      BY <1>1, <2>1, <3>1, <3>2 DEF bulkInsertWorkbookQuestions, CreateWorkbook, Placed,
         TableNames, Serial
    <3>4. InPlace(e.workbookQuestions)
      BY <1>2, <3>3, PlacesArranged DEF Arranged, WorkbookBody
    <3>5. Arranged(e)
      BY <3>3, <3>4 DEF Arranged
    <3> QED
      BY <3>5 DEF e
  <2> QED
    BY <2>3, <2>4
<1>3. ASSUME NEW b, NEW id, WorkbookBody(b) PROVE Arranged(AdminUpdateWorkbook(d, id, b))
  <2> DEFINE e == AdminUpdateWorkbook(d, id, b)
  <2>1. CASE e = d
    BY <2>1
  <2>2. CASE e # d
    <3>1. /\ WorkbookExists(d, id)
          /\ e = bulkInsertWorkbookQuestions(DeleteWorkbookQuestions(
                   UpdateWorkbook(d, id, b.title, b.category, IsPublished(b)), id), id, b.questions)
      BY <2>2 DEF AdminUpdateWorkbook
    <3> HIDE DEF e
    <3>3. /\ e.questions = d.questions /\ e.choices = d.choices
          /\ e.workbookQuestions = Placed(d.workbookQuestions, id, b.questions)
          /\ e.appCategories = d.appCategories /\ e.announcements = d.announcements
      BY <1>1, <3>1 DEF bulkInsertWorkbookQuestions, DeleteWorkbookQuestions, UpdateWorkbook,
         Placed, TableNames, Serial
    <3>4. InPlace(e.workbookQuestions)
      BY <1>3, <3>3, PlacesArranged DEF Arranged, WorkbookBody
    <3>5. Arranged(e)
      BY <3>3, <3>4 DEF Arranged
    <3> QED
      BY <3>5 DEF e
  <2> QED
    BY <2>1, <2>2
<1>4. ASSUME NEW id PROVE Arranged(AdminDeleteWorkbook(d, id))
  <2> DEFINE e == AdminDeleteWorkbook(d, id)
  <2>1. /\ e.questions = d.questions /\ e.choices = d.choices
        /\ e.workbookQuestions \subseteq d.workbookQuestions /\ e.appCategories = d.appCategories
        /\ e.announcements = d.announcements
    BY <1>1 DEF AdminDeleteWorkbook, DeleteWorkbook, TableNames, Serial
  <2> HIDE DEF e
  <2>2. Arranged(e)
    BY <2>1, ArrangementKept
  <2> QED
    BY <2>2 DEF e
<1> QED
  BY <1>2, <1>3, <1>4

(* The other requests write none of these tables, or delete from them.      *)
Undisturbed(d, e) ==
  /\ e.questions = d.questions /\ e.choices = d.choices
  /\ e.workbookQuestions = d.workbookQuestions /\ e.appCategories \subseteq d.appCategories
  /\ \A a \in e.announcements : a \in d.announcements \/ a.publishedAt \in Nat
LEMMA OthersUndisturbed ==
  ASSUME NEW d, Sound(d), Arranged(d)
  PROVE  /\ \A t : Undisturbed(d, AdminCreateCategory(d, t))
         /\ \A id, t : Undisturbed(d, AdminUpdateCategory(d, id, t))
         /\ \A id : Undisturbed(d, AdminDeleteCategory(d, id))
         /\ \A s : Undisturbed(d, AdminCreateApp(d, s))
         /\ \A id, s : Undisturbed(d, AdminUpdateApp(d, id, s))
         /\ \A id : Undisturbed(d, AdminDeleteApp(d, id))
         /\ \A p : Undisturbed(d, CreatePresignedUrl(d, p))
         /\ \A b : \A now \in Nat : b.publishedAt \in Nat =>
                       Undisturbed(d, AdminCreateAnnouncement(d, b, now))
         /\ \A id, b : b.publishedAt \in Nat => Undisturbed(d, AdminUpdateAnnouncement(d, id, b))
         /\ \A id : Undisturbed(d, AdminDeleteAnnouncement(d, id))
<1>1. DOMAIN d = TableNames \cup {"seq"} /\ SerialsOK(d, TRUE)
  BY DEF Sound, Intact, SerialsOK
<1>2. ASSUME NEW table \in Serial
      PROVE  LET e == NextVal(d, table)
             IN  /\ DOMAIN e = DOMAIN d /\ Undisturbed(d, e)
                 /\ e.announcements = d.announcements
  <2> DEFINE e == NextVal(d, table)
  <2>1. Same(d, e, {"seq"})
    BY <1>1, Drawn
  <2> HIDE DEF e
  <2>2. DOMAIN e = DOMAIN d /\ \A t \in TableNames : e[t] = d[t]
    BY <2>1 DEF Same, TableNames, Serial
  <2>3. DOMAIN e = DOMAIN d /\ Undisturbed(d, e) /\ e.announcements = d.announcements
    BY <2>2 DEF Undisturbed, TableNames, Serial
  <2> QED
    BY <2>3 DEF e
<1>3. Undisturbed(d, d)
  BY DEF Undisturbed
<1>4. ASSUME NEW t PROVE Undisturbed(d, AdminCreateCategory(d, t))
  <2> DEFINE drawn == NextVal(d, "categories")
  <2>1. DOMAIN drawn = DOMAIN d /\ Undisturbed(d, drawn) /\ drawn.announcements = d.announcements
    BY <1>2 DEF Serial
  <2>2. AdminCreateCategory(d, t) \in {drawn, CreateCategory(drawn, d.seq.categories, t)}
    BY DEF AdminCreateCategory
  <2> HIDE DEF drawn
  <2>3. Undisturbed(d, CreateCategory(drawn, d.seq.categories, t))
    BY <1>1, <2>1 DEF CreateCategory, Undisturbed, TableNames, Serial
  <2> QED
    BY <2>1, <2>2, <2>3
<1>5. ASSUME NEW t, NEW id PROVE Undisturbed(d, AdminUpdateCategory(d, id, t))
  <2>1. Undisturbed(d, UpdateCategory(d, id, t))
    BY <1>1 DEF UpdateCategory, Undisturbed, TableNames, Serial
  <2> QED
    BY <1>3, <2>1 DEF AdminUpdateCategory
<1>6. ASSUME NEW id PROVE Undisturbed(d, AdminDeleteCategory(d, id))
  BY <1>1 DEF AdminDeleteCategory, DeleteCategory, Undisturbed, TableNames, Serial
<1>7. ASSUME NEW s PROVE Undisturbed(d, AdminCreateApp(d, s))
  <2> DEFINE drawn == NextVal(d, "apps")
  <2>1. DOMAIN drawn = DOMAIN d /\ Undisturbed(d, drawn) /\ drawn.announcements = d.announcements
    BY <1>2 DEF Serial
  <2>2. AdminCreateApp(d, s) \in {drawn, CreateApp(drawn, d.seq.apps, s)}
    BY DEF AdminCreateApp
  <2> HIDE DEF drawn
  <2>3. Undisturbed(d, CreateApp(drawn, d.seq.apps, s))
    BY <1>1, <2>1 DEF CreateApp, Undisturbed, TableNames, Serial
  <2> QED
    BY <2>1, <2>2, <2>3
<1>8. ASSUME NEW s, NEW id PROVE Undisturbed(d, AdminUpdateApp(d, id, s))
  <2>1. Undisturbed(d, UpdateApp(d, id, s))
    BY <1>1 DEF UpdateApp, Undisturbed, TableNames, Serial
  <2> QED
    BY <1>3, <2>1 DEF AdminUpdateApp
<1>9. ASSUME NEW id PROVE Undisturbed(d, AdminDeleteApp(d, id))
  BY <1>1 DEF AdminDeleteApp, DeleteApp, Undisturbed, TableNames, Serial
<1>10. ASSUME NEW p PROVE Undisturbed(d, CreatePresignedUrl(d, p))
  <2> DEFINE drawn == NextVal(d, "images")
  <2>1. DOMAIN drawn = DOMAIN d /\ Undisturbed(d, drawn) /\ drawn.announcements = d.announcements
    BY <1>2 DEF Serial
  <2>2. CreatePresignedUrl(d, p) \in {drawn, CreateImage(drawn, d.seq.images, p)}
    BY DEF CreatePresignedUrl
  <2> HIDE DEF drawn
  <2>3. Undisturbed(d, CreateImage(drawn, d.seq.images, p))
    BY <1>1, <2>1 DEF CreateImage, Undisturbed, TableNames, Serial
  <2> QED
    BY <2>1, <2>2, <2>3
<1>11. ASSUME NEW b, NEW now \in Nat, b.publishedAt \in Nat
       PROVE  Undisturbed(d, AdminCreateAnnouncement(d, b, now))
  <2> DEFINE drawn == NextVal(d, "announcements")
             at == IF b.publishedAt = 0 THEN now ELSE b.publishedAt
  <2>1. DOMAIN drawn = DOMAIN d /\ Undisturbed(d, drawn) /\ drawn.announcements = d.announcements
    BY <1>2 DEF Serial
  <2>2. AdminCreateAnnouncement(d, b, now)
          \in {d, CreateAnnouncement(drawn, d.seq.announcements, b.title, at)}
    BY DEF AdminCreateAnnouncement
  <2>3. at \in Nat
    BY <1>11
  <2> HIDE DEF drawn, at
  <2>4. Undisturbed(d, CreateAnnouncement(drawn, d.seq.announcements, b.title, at))
    BY <1>1, <2>1, <2>3 DEF CreateAnnouncement, Undisturbed, TableNames, Serial
  <2> QED
    BY <1>3, <2>2, <2>4
<1>12. ASSUME NEW id, NEW b, b.publishedAt \in Nat
       PROVE  Undisturbed(d, AdminUpdateAnnouncement(d, id, b))
  <2> DEFINE a == CHOOSE a \in GetAnnouncement(d, id) : TRUE
             at == IF b.publishedAt = 0 THEN a.publishedAt ELSE b.publishedAt
  <2>1. CASE b.title = "" \/ GetAnnouncement(d, id) = {}
    BY <1>3, <2>1 DEF AdminUpdateAnnouncement
  <2>2. CASE ~(b.title = "" \/ GetAnnouncement(d, id) = {})
    <3>1. a \in d.announcements
      BY <2>2 DEF GetAnnouncement
    <3>2. at \in Nat
      BY <1>12, <3>1 DEF Arranged
    <3>3. AdminUpdateAnnouncement(d, id, b) = UpdateAnnouncement(d, id, b.title, at)
      BY <2>2 DEF AdminUpdateAnnouncement
    <3> HIDE DEF at
    <3>4. Undisturbed(d, UpdateAnnouncement(d, id, b.title, at))
      BY <1>1, <1>3, <3>2 DEF UpdateAnnouncement, Undisturbed, TableNames, Serial
    <3> QED
      BY <3>3, <3>4
  <2> QED
    BY <2>1, <2>2
<1>13. ASSUME NEW id PROVE Undisturbed(d, AdminDeleteAnnouncement(d, id))
  BY <1>1 DEF AdminDeleteAnnouncement, DeleteAnnouncement, Undisturbed, TableNames, Serial
<1> QED
  BY <1>4, <1>5, <1>6, <1>7, <1>8, <1>9, <1>10, <1>11, <1>12, <1>13

(* A list of all rows, each once.                                           *)
Listing(f, S) ==
  /\ Cardinality(S) \in Nat /\ DOMAIN f = 1 .. Cardinality(S)
  /\ \A i \in DOMAIN f : f[i] \in S
  /\ \A r \in S : \E i \in DOMAIN f : f[i] = r

(* ORDER BY a column in which no two rows agree.                            *)
SortedBy(S, k) ==
  [i \in 1 .. Cardinality(S) |-> CHOOSE r \in S : Cardinality({s \in S : s[k] < r[k]}) = i - 1]
LEMMA ByColumn ==
  ASSUME NEW S, IsFiniteSet(S), NEW k, \A r \in S : r[k] \in Nat,
         \A r, s \in S : r[k] = s[k] => r = s
  PROVE  Listing(SortedBy(S, k), S)
<1> DEFINE f == SortedBy(S, k)
           below == [r \in S |-> {s \in S : s[k] < r[k]}]
<1>1. OrderOn(S, below)
  BY DEF OrderOn
<1>2. \A r \in S : below[r] = {s \in S : s[k] < r[k]}
  OBVIOUS
<1> HIDE DEF below
<1>3. ASSUME NEW i \in 1 .. Cardinality(S), \E r \in S : Cardinality(below[r]) = i - 1
      PROVE  f[i] \in S /\ Cardinality(below[f[i]]) = i - 1
  <2>1. \E r \in S : Cardinality({s \in S : s[k] < r[k]}) = i - 1
    BY <1>2, <1>3
  <2>2. f[i] \in S /\ Cardinality({s \in S : s[k] < f[i][k]}) = i - 1
    BY <2>1 DEF SortedBy
  <2> QED
    BY <1>2, <2>2
<1>4. DOMAIN f = 1 .. Cardinality(S)
  BY DEF SortedBy
<1> HIDE DEF f
<1>5. InOrder(f, S, below)
  BY <1>1, <1>3, <1>4, Ordered
<1> QED
  BY <1>5 DEF InOrder, Listing, f

LEMMA RowsById ==
  ASSUME NEW S, NEW next, SerialOK(S, next, TRUE)
  PROVE  Listing(ById(S), S)
<1>1. ById(S) = SortedBy(S, "id")
  BY DEF ById, OrderBy, SortedBy
<1>2. /\ IsFiniteSet(S) /\ \A r \in S : r["id"] \in Nat
      /\ \A r, s \in S : r["id"] = s["id"] => r = s
  BY DEF SerialOK, Keyed
<1> QED
  BY <1>1, <1>2, ByColumn

LEMMA RowsOfWorkbook ==
  ASSUME NEW d, Sound(d), Arranged(d), NEW w
  PROVE  LET S == {r \in d.workbookQuestions : r.workbook = w}
         IN  Listing(OrderBy(S, LAMBDA r, s : r.order < s.order), S)
<1> DEFINE S == {r \in d.workbookQuestions : r.workbook = w}
<1>1. OrderBy(S, LAMBDA r, s : r.order < s.order) = SortedBy(S, "order")
  BY DEF OrderBy, SortedBy
<1>2. /\ IsFiniteSet(S) /\ \A r \in S : r["order"] \in Nat
      /\ \A r, s \in S : r["order"] = s["order"] => r = s
  BY FewerRows DEF Sound, Intact, PlacesOK, PlacedOK, Arranged, InPlace
<1> HIDE DEF S
<1>3. Listing(SortedBy(S, "order"), S)
  BY <1>2, ByColumn
<1> QED
  BY <1>1, <1>3 DEF S

(* The categories of an app, by their place and then their id.              *)
LinkBefore(r, s) == r.sort < s.sort \/ (r.sort = s.sort /\ r.category < s.category)
LEMMA LinksInOrder ==
  ASSUME NEW S, IsFiniteSet(S), \A r \in S : r.sort \in Nat /\ r.category \in Nat,
         \A r, s \in S : r.category = s.category => r = s
  PROVE  Listing(OrderBy(S, LinkBefore), S)
<1> DEFINE below == [r \in S |-> {s \in S : LinkBefore(s, r)}]
           f == OrderBy(S, LinkBefore)
<1>1. f = [i \in 1 .. Cardinality(S) |-> CHOOSE r \in S : Cardinality({s \in S : LinkBefore(s, r)}) = i - 1]
  BY DEF OrderBy
<1>2. \A r \in S : below[r] = {s \in S : LinkBefore(s, r)}
  OBVIOUS
<1>3. OrderOn(S, below)
  <2>1. below \in [S -> SUBSET S]
    OBVIOUS
  <2>2. ASSUME NEW r \in S, NEW s \in S, NEW t \in S, LinkBefore(t, r), LinkBefore(r, s) PROVE LinkBefore(t, s)
    BY <2>2 DEF LinkBefore
  <2>3. \A r, s \in S : r = s \/ LinkBefore(r, s) \/ LinkBefore(s, r)
    BY DEF LinkBefore
  <2>4. \A r \in S : ~LinkBefore(r, r)
    BY DEF LinkBefore
  <2> HIDE DEF below
  <2>5. ASSUME NEW r \in S, NEW s \in S, r \in below[s] PROVE below[r] \subseteq below[s]
    BY <1>2, <2>2, <2>5
  <2> QED
    BY <1>2, <2>1, <2>3, <2>4, <2>5 DEF OrderOn
<1> HIDE DEF below, f
<1>4. ASSUME NEW i \in 1 .. Cardinality(S), \E r \in S : Cardinality(below[r]) = i - 1
      PROVE  f[i] \in S /\ Cardinality(below[f[i]]) = i - 1
  <2>1. \E r \in S : Cardinality({s \in S : LinkBefore(s, r)}) = i - 1
    BY <1>2, <1>4
  <2>2. f[i] \in S /\ Cardinality({s \in S : LinkBefore(s, f[i])}) = i - 1
    BY <1>1, <2>1
  <2> QED
    BY <1>2, <2>2
<1>5. DOMAIN f = 1 .. Cardinality(S)
  BY <1>1
<1>6. InOrder(f, S, below)
  BY <1>3, <1>4, <1>5, Ordered
<1> QED
  BY <1>6 DEF InOrder, Listing, f

(* The announcements, newest first.                                         *)
NewerThan(a, b) == a.publishedAt > b.publishedAt \/ (a.publishedAt = b.publishedAt /\ a.id > b.id)
LEMMA NewestInOrder ==
  ASSUME NEW S, IsFiniteSet(S), Keyed(S), \A r \in S : r.publishedAt \in Nat /\ r.id \in Nat
  PROVE  Listing(NewestFirst(S), S)
<1> DEFINE below == [r \in S |-> {s \in S : NewerThan(s, r)}]
           f == NewestFirst(S)
<1>1. f = [i \in 1 .. Cardinality(S) |-> CHOOSE r \in S : Cardinality({s \in S : NewerThan(s, r)}) = i - 1]
  BY DEF NewestFirst, OrderBy, NewerThan
<1>2. \A r \in S : below[r] = {s \in S : NewerThan(s, r)}
  OBVIOUS
<1>3. OrderOn(S, below)
  <2>1. below \in [S -> SUBSET S]
    OBVIOUS
  <2>2. ASSUME NEW r \in S, NEW s \in S, NEW t \in S, NewerThan(t, r), NewerThan(r, s) PROVE NewerThan(t, s)
    BY <2>2 DEF NewerThan
  <2>3. \A r, s \in S : r = s \/ NewerThan(r, s) \/ NewerThan(s, r)
    BY DEF NewerThan, Keyed
  <2>4. \A r \in S : ~NewerThan(r, r)
    BY DEF NewerThan
  <2> HIDE DEF below
  <2>5. ASSUME NEW r \in S, NEW s \in S, r \in below[s] PROVE below[r] \subseteq below[s]
    BY <1>2, <2>2, <2>5
  <2> QED
    BY <1>2, <2>1, <2>3, <2>4, <2>5 DEF OrderOn
<1> HIDE DEF below, f
<1>4. ASSUME NEW i \in 1 .. Cardinality(S), \E r \in S : Cardinality(below[r]) = i - 1
      PROVE  f[i] \in S /\ Cardinality(below[f[i]]) = i - 1
  <2>1. \E r \in S : Cardinality({s \in S : NewerThan(s, r)}) = i - 1
    BY <1>2, <1>4
  <2>2. f[i] \in S /\ Cardinality({s \in S : NewerThan(s, f[i])}) = i - 1
    BY <1>1, <2>1
  <2> QED
    BY <1>2, <2>2
<1>5. DOMAIN f = 1 .. Cardinality(S)
  BY <1>1
<1>6. InOrder(f, S, below)
  BY <1>3, <1>4, <1>5, Ordered
<1> QED
  BY <1>6 DEF InOrder, Listing, f

(* The choices of a question whose choices are numbered stand at their      *)
(* index.                                                                   *)
LEMMA ChoicesNumbered ==
  ASSUME NEW d, Sound(d), Arranged(d), NEW q
  PROVE  LET cs == GetChoicesByQuestionID(d, q)
             n == Cardinality(ChoicesOf(d, q))
         IN  /\ n \in Nat /\ DOMAIN cs = 1 .. n
             /\ \A i \in 1 .. n : cs[i] \in ChoicesOf(d, q) /\ cs[i].index = i - 1
             /\ \A c \in ChoicesOf(d, q) : \E i \in 1 .. n : cs[i] = c
<1> DEFINE cs == GetChoicesByQuestionID(d, q)
           S == ChoicesOf(d, q)
           n == Cardinality(S)
           below == [c \in S |-> {e \in S : e.index < c.index}]
<1>1. InOrder(cs, S, below)
  BY ChoicesInOrder DEF Sound, Intact, QuestionsOK
<1>2. \A c \in S : /\ c.index \in Nat /\ below[c] = {e \in S : e.index < c.index}
                   /\ \A j \in 0 .. c.index - 1 : \E a \in S : a.index = j
  BY DEF Sound, Intact, QuestionsOK, ChoicesOK, ChoicesOf, Arranged, Numbered
<1>8. \A a, c \in S : a.index = c.index => a = c
  BY DEF Sound, Intact, QuestionsOK, ChoicesOK, ChoicesOf
<1> HIDE DEF cs, S, below
<1>3. /\ n \in Nat /\ DOMAIN cs = 1 .. n /\ \A i \in 1 .. n : cs[i] \in S
      /\ \A c \in S : \E i \in 1 .. n : cs[i] = c
  BY <1>1 DEF InOrder
<1> HIDE DEF n
<1>4. \A i, j \in 1 .. n : i < j <=> cs[i].index < cs[j].index
  <2> SUFFICES ASSUME NEW i \in 1 .. n, NEW j \in 1 .. n
               PROVE  i < j <=> cs[i].index < cs[j].index
    OBVIOUS
  <2>1. i < j <=> cs[i] \in below[cs[j]]
    BY <1>1, <1>3 DEF InOrder
  <2>2. cs[i] \in S /\ below[cs[j]] = {e \in S : e.index < cs[j].index}
    BY <1>2, <1>3
  <2> QED
    BY <2>1, <2>2
<1>5. ASSUME NEW i \in 1 .. n PROVE cs[i].index = i - 1
  <2> DEFINE m == cs[i].index
             g == [j \in 1 .. i - 1 |-> cs[j].index]
  <2>1. m \in Nat
    BY <1>2, <1>3
  <2>2. g \in [1 .. i - 1 -> 0 .. m - 1]
    <3> SUFFICES ASSUME NEW j \in 1 .. i - 1 PROVE cs[j].index \in 0 .. m - 1
      OBVIOUS
    <3>1. j \in 1 .. n /\ j < i
      BY <1>3
    <3>2. cs[j].index \in Nat /\ cs[j].index < m
      BY <1>2, <1>3, <1>4, <3>1
    <3> QED
      BY <2>1, <3>2
  <2>3. ASSUME NEW j \in 1 .. i - 1, NEW k \in 1 .. i - 1, g[j] = g[k] PROVE j = k
    <3>1. j \in 1 .. n /\ k \in 1 .. n /\ cs[j].index = cs[k].index /\ cs[j].index \in Nat
      BY <1>2, <1>3, <2>3
    <3>2. ~(j < k) /\ ~(k < j)
      BY <1>4, <3>1
    <3> QED
      BY <3>2
  <2>4. ASSUME NEW x \in 0 .. m - 1 PROVE \E j \in 1 .. i - 1 : g[j] = x
    <3>1. PICK a \in S : a.index = x
      BY <1>2, <1>3
    <3>2. PICK j \in 1 .. n : cs[j] = a
      BY <1>3, <3>1
    <3>3. cs[j].index < cs[i].index
      BY <2>1, <3>1, <3>2
    <3>4. j \in 1 .. i - 1
      BY <1>3, <1>4, <3>3
    <3> QED
      BY <3>1, <3>2, <3>4
  <2> HIDE DEF g
  <2>5. g \in Bijection(1 .. i - 1, 0 .. m - 1)
    <3>1. g \in Injection(1 .. i - 1, 0 .. m - 1)
      BY <2>2, <2>3 DEF Injection, IsInjective
    <3>2. g \in Surjection(1 .. i - 1, 0 .. m - 1)
      BY <2>2, <2>4 DEF Surjection
    <3> QED
      BY <3>1, <3>2 DEF Bijection
  <2>6. /\ IsFiniteSet(1 .. i - 1) /\ Cardinality(1 .. i - 1) = i - 1
        /\ Cardinality(0 .. m - 1) = m
    <3>1. i - 1 \in Nat /\ m - 1 \in Int
      BY <1>3, <2>1
    <3> HIDE DEF m
    <3> QED
      BY <2>1, <3>1, FS_Interval
  <2>7. Cardinality(0 .. m - 1) = Cardinality(1 .. i - 1)
    <3> DEFINE A == 1 .. i - 1
               B == 0 .. m - 1
    <3>1. g \in Bijection(A, B) /\ IsFiniteSet(A)
      BY <2>5, <2>6
    <3> HIDE DEF A, B
    <3>2. Cardinality(B) = Cardinality(A)
      BY <3>1, FS_Bijection DEF ExistsBijection
    <3> QED
      BY <3>2 DEF A, B
  <2> QED
    BY <2>6, <2>7
<1> QED
  BY <1>3, <1>5 DEF cs, S, n

LEMMA LargestExists ==
  ASSUME NEW W, IsFiniteSet(W), W \subseteq Nat, W # {}
  PROVE  \E m \in W : \A j \in W : j <= m
<1> DEFINE ids == OrderBy(W, LAMBDA p, q : p < q)
           n == Len(ids)
<1>1. /\ ids \in Seq(W) /\ {ids[i] : i \in DOMAIN ids} = W
      /\ \A i, j \in DOMAIN ids : i < j <=> ids[i] < ids[j]
  BY OrderedIds
<1> HIDE DEF ids
<1>2. n \in Nat /\ DOMAIN ids = 1 .. n
  BY <1>1
<1>3. n # 0
  BY <1>1, <1>2
<1>4. n \in 1 .. n /\ ids[n] \in W
  BY <1>1, <1>2, <1>3
<1>5. ASSUME NEW j \in W PROVE j <= ids[n]
  <2>1. PICK i \in 1 .. n : ids[i] = j
    BY <1>1, <1>2
  <2>2. ~(n < i)
    BY <1>2, <2>1
  <2>3. ~(ids[n] < ids[i])
    BY <1>1, <1>2, <1>4, <2>2
  <2>4. j \in Nat /\ ids[n] \in Nat
    BY <1>4
  <2> QED
    BY <2>1, <2>3, <2>4
<1> QED
  BY <1>4, <1>5

(* The key of a question that has one, whatever stands for none.            *)
LEMMA KeyShown ==
  ASSUME NEW d, Sound(d), Arranged(d), NEW q \in d.questions
  PROVE  LET cs == GetChoicesByQuestionID(d, q)
             n == Cardinality(ChoicesOf(d, q))
         IN  n > 0 /\ \E k \in 1 .. n : /\ cs[k].correct
                                        /\ \A default : LastCorrect(cs, default) = k - 1
<1> DEFINE cs == GetChoicesByQuestionID(d, q)
           n == Cardinality(ChoicesOf(d, q))
           right == {i \in DOMAIN cs : cs[i].correct}
<1>1. /\ n \in Nat /\ DOMAIN cs = 1 .. n
      /\ \A i \in 1 .. n : cs[i].index = i - 1
      /\ \A c \in ChoicesOf(d, q) : \E i \in 1 .. n : cs[i] = c
  BY ChoicesNumbered
<1>2. \E c \in ChoicesOf(d, q) : c.correct
  BY DEF Arranged, Answerable, ChoicesOf
<1> HIDE DEF cs, n
<1>3. right # {} /\ right \subseteq 1 .. n
  BY <1>1, <1>2
<1>4. IsFiniteSet(right) /\ right \subseteq Nat
  <2>1. IsFiniteSet(1 .. n)
    BY <1>1, FS_Interval
  <2> QED
    BY <1>1, <1>3, <2>1, FS_Subset
<1>5. \E m \in right : \A j \in right : j <= m
  BY <1>3, <1>4, LargestExists
<1> DEFINE k == CHOOSE i \in right : \A j \in right : j <= i
<1>6. k \in right
  BY <1>5
<1>7. \A default : LastCorrect(cs, default) = cs[k].index
  BY <1>3 DEF LastCorrect
<1> HIDE DEF k
<1>8. k \in 1 .. n /\ cs[k].correct /\ cs[k].index = k - 1
  BY <1>1, <1>6
<1>9. n > 0
  BY <1>1, <1>8
<1> QED
  BY <1>7, <1>8, <1>9 DEF cs, n

LEMMA ImagesShown ==
  ASSUME NEW d, NEW qs, NEW q \in qs
  PROVE  LET urls == GetImageURLsByQuestionIDs(d, qs)
         IN  (IF q \in DOMAIN urls THEN urls[q] ELSE << >>) = GetImageURLsByQuestionID(d, q)
<1> DEFINE urls == GetImageURLsByQuestionIDs(d, qs)
           rows == {r \in d.questionImages : r.question = q}
           listed == OrderBy(rows, LAMBDA r, s : r.order < s.order)
<1>1. /\ DOMAIN urls = {r.question : r \in {s \in d.questionImages : s.question \in qs}}
      /\ \A p \in DOMAIN urls : urls[p] = GetImageURLsByQuestionID(d, p)
  BY DEF GetImageURLsByQuestionIDs
<1>2. CASE q \in DOMAIN urls
  BY <1>1, <1>2
<1>3. CASE q \notin DOMAIN urls
  <2>1. rows = {}
    BY <1>1, <1>3
  <2>2. Cardinality(rows) = 0
    BY <2>1, FS_EmptySet
  <2>3. DOMAIN listed = 1 .. 0
    BY <2>2 DEF OrderBy
  <2>4. GetImageURLsByQuestionID(d, q)
          = [i \in DOMAIN listed |-> (CHOOSE m \in d.images : m.id = listed[i].image).path]
    BY DEF GetImageURLsByQuestionID
  <2> HIDE DEF listed
  <2>5. GetImageURLsByQuestionID(d, q) = << >>
    BY <2>3, <2>4
  <2> QED
    BY <1>3, <2>5
<1> QED
  BY <1>2, <1>3

(* A list shows every question as the endpoint for it alone does.           *)
Shown(d, q) == ApiGetQuestion(d, q).body
AdminShown(d, q) == AdminGetQuestion(d, q).body
LEMMA QuestionShown ==
  ASSUME NEW d, Sound(d), Arranged(d), NEW rows, NEW i \in DOMAIN rows, NEW q \in d.questions,
         rows[i] = RowsOf(d, q)
  PROVE  /\ attachImages(d, buildQuestionsFromRows(rows))[i] = Shown(d, q)
         /\ AdminQuestions(d, rows)[i] = AdminShown(d, q)
         /\ DOMAIN attachImages(d, buildQuestionsFromRows(rows)) = DOMAIN rows
         /\ DOMAIN AdminQuestions(d, rows) = DOMAIN rows
<1> DEFINE cs == GetChoicesByQuestionID(d, q)
           n == Cardinality(ChoicesOf(d, q))
           text == (CHOOSE s \in GetQuestionByID(d, q) : TRUE).text
           images == GetImageURLsByQuestionID(d, q)
           one == [id |-> q, text |-> text, choices |-> [j \in DOMAIN cs |-> cs[j].text],
                   correct |-> LastCorrect(cs, 0), images |-> images]
           admin == [id |-> q, text |-> text, images |-> images,
                     choices |-> [j \in DOMAIN cs |-> [text |-> cs[j].text, correct |-> cs[j].correct]]]
           built == buildQuestionsFromRows(rows)
           attached == attachImages(d, built)
           At(x, j) == {c \in {x[k] : k \in DOMAIN x} : c.index = j}
           Width(x) == IF x = << >> THEN 0 ELSE x[Len(x)].index + 1
           Texts(x) == [j \in 1 .. Width(x) |-> IF At(x, j - 1) = {} THEN ""
                                                ELSE (CHOOSE c \in At(x, j - 1) : TRUE).text]
<1>1. GetQuestionByID(d, q) # {}
  BY DEF Sound, Intact, QuestionsOK, GetQuestionByID
<1>2. /\ rows[i].id = q /\ rows[i].text = text /\ rows[i].choices = cs
  BY DEF RowsOf
<1>3. Shown(d, q) = one
  BY <1>1 DEF Shown, ApiGetQuestion, Found, buildQuestion
<1>4. AdminShown(d, q) = admin
  BY <1>1, <1>2 DEF AdminShown, AdminGetQuestion, Found, AdminQuestion, RowsOf
<1>5. /\ n \in Nat /\ DOMAIN cs = 1 .. n /\ n > 0
      /\ \A j \in 1 .. n : cs[j].index = j - 1
  BY ChoicesNumbered, KeyShown
<1>6. Texts(cs) = [j \in DOMAIN cs |-> cs[j].text]
  <2> HIDE DEF cs, n
  <2>1. cs # << >> /\ Len(cs) = n
    <3> DEFINE S == {c \in d.choices : c.question = q}
               at(j) == CHOOSE r \in S : Cardinality({s \in S : s.index < r.index}) = j - 1
    <3>3. cs = [j \in 1 .. Cardinality(S) |-> at(j)]
      BY DEF cs, GetChoicesByQuestionID, OrderBy
    <3> HIDE DEF at, S
    <3>1. cs = [j \in DOMAIN cs |-> cs[j]]
      BY <3>3
    <3>2. cs = [j \in 1 .. n |-> cs[j]]
      BY <1>5, <3>1
    <3> QED
      BY <1>5, <3>2
  <2>2. Width(cs) = n
    BY <1>5, <2>1
  <2>3. ASSUME NEW j \in 1 .. n PROVE At(cs, j - 1) = {cs[j]}
    BY <1>5
  <2> HIDE DEF At, Width
  <2>4. ASSUME NEW j \in 1 .. n
        PROVE  (IF At(cs, j - 1) = {} THEN "" ELSE (CHOOSE c \in At(cs, j - 1) : TRUE).text) = cs[j].text
    BY <2>3
  <2> QED
    BY <1>5, <2>2, <2>4
<1>7. /\ DOMAIN built = DOMAIN rows
      /\ built[i] = [id |-> q, text |-> text, choices |-> [j \in DOMAIN cs |-> cs[j].text],
                     correct |-> LastCorrect(cs, 0)]
  <2>1. /\ DOMAIN built = DOMAIN rows
        /\ built[i] = [id |-> rows[i].id, text |-> rows[i].text, choices |-> Texts(rows[i].choices),
                       correct |-> LastCorrect(rows[i].choices, 0)]
    BY DEF buildQuestionsFromRows
  <2> HIDE DEF built, Texts, cs, text
  <2> QED
    BY <1>2, <1>6, <2>1
<1> HIDE DEF cs, n, text, built
<1>8. attached[i] = one
  <2> DEFINE qs == {built[m].id : m \in DOMAIN built}
             urls == GetImageURLsByQuestionIDs(d, qs)
  <2>1. q \in qs /\ built[i].id = q
    BY <1>7
  <2>2. (IF built[i].id \in DOMAIN urls THEN urls[built[i].id] ELSE << >>) = images
    <3> HIDE DEF qs
    <3> QED
      BY <2>1, ImagesShown
  <2>3. attached[i] = With(built[i], "images", images)
    BY <1>7, <2>2 DEF attachImages
  <2> QED
    BY <1>7, <2>3 DEF With
<1>9. AdminQuestions(d, rows)[i] = admin
  <2> DEFINE qs == {rows[m].id : m \in DOMAIN rows}
             urls == GetImageURLsByQuestionIDs(d, qs)
  <2>1. q \in qs
    BY <1>2
  <2>2. (IF rows[i].id \in DOMAIN urls THEN urls[rows[i].id] ELSE << >>) = images
    <3> HIDE DEF qs
    <3> QED
      BY <1>2, <2>1, ImagesShown
  <2>3. AdminQuestions(d, rows)[i] = AdminQuestion(rows[i], images)
    BY <2>2 DEF AdminQuestions
  <2> QED
    BY <1>2, <2>3 DEF AdminQuestion
<1>10. DOMAIN attached = DOMAIN rows /\ DOMAIN AdminQuestions(d, rows) = DOMAIN rows
  BY <1>7 DEF attachImages, AdminQuestions
<1> HIDE DEF one, admin
<1> QED
  BY <1>3, <1>4, <1>8, <1>9, <1>10 DEF attached, built

(* The administration sees the choices, images and key that a player sees.  *)
LEMMA ShownAlike ==
  ASSUME NEW d, Sound(d), Arranged(d), NEW q \in d.questions
  PROVE  LET one == Shown(d, q)
             admin == AdminShown(d, q)
         IN  /\ one.id = q /\ admin.id = q
             /\ one.choices = [i \in DOMAIN admin.choices |-> admin.choices[i].text]
             /\ one.images = admin.images
             /\ admin.choices[one.correct + 1].correct
<1> DEFINE cs == GetChoicesByQuestionID(d, q)
           n == Cardinality(ChoicesOf(d, q))
           one == Shown(d, q)
           admin == AdminShown(d, q)
<1>1. GetQuestionByID(d, q) # {}
  BY DEF Sound, Intact, QuestionsOK, GetQuestionByID
<1>2. /\ one.id = q /\ one.choices = [i \in DOMAIN cs |-> cs[i].text]
      /\ one.correct = LastCorrect(cs, 0) /\ one.images = GetImageURLsByQuestionID(d, q)
  BY <1>1 DEF Shown, ApiGetQuestion, Found, buildQuestion
<1>3. /\ admin.id = q /\ admin.images = GetImageURLsByQuestionID(d, q)
      /\ admin.choices = [i \in DOMAIN cs |-> [text |-> cs[i].text, correct |-> cs[i].correct]]
  BY <1>1 DEF AdminShown, AdminGetQuestion, Found, AdminQuestion, RowsOf
<1>4. DOMAIN cs = 1 .. n /\ n \in Nat
  BY ChoicesNumbered
<1>5. PICK k \in 1 .. n : cs[k].correct /\ LastCorrect(cs, 0) = k - 1
  BY KeyShown
<1> HIDE DEF cs, n, one, admin
<1>6. admin.choices[k].correct /\ one.correct + 1 = k
  BY <1>2, <1>3, <1>4, <1>5
<1>7. one.choices = [i \in DOMAIN admin.choices |-> admin.choices[i].text]
  BY <1>2, <1>3
<1> QED
  BY <1>2, <1>3, <1>6, <1>7 DEF one, admin

(* All questions fit on one page of their list.                             *)
LEMMA QuestionsListed ==
  ASSUME NEW d, Sound(d), Arranged(d), Cardinality(d.questions) <= MaxLimit, NEW q \in d.questions
  PROVE  /\ \E i \in DOMAIN ApiGetQuestions(d, MaxLimit, 0).body.rows :
              ApiGetQuestions(d, MaxLimit, 0).body.rows[i] = Shown(d, q)
         /\ \E i \in DOMAIN AdminGetQuestions(d, MaxLimit, 0).body.rows :
              AdminGetQuestions(d, MaxLimit, 0).body.rows[i] = AdminShown(d, q)
<1> DEFINE W == d.questions
           ids == OrderBy(W, LAMBDA p, r : p < r)
           rows == ListQuestionsWithChoices(d, MaxLimit, 0)
<1>1. IsFiniteSet(W) /\ W \subseteq Nat
  BY DEF Sound, Intact, QuestionsOK
<1>2. /\ ids \in Seq(W) /\ Len(ids) = Cardinality(W) /\ {ids[i] : i \in DOMAIN ids} = W
  <2> HIDE DEF W
  <2> QED
    BY <1>1, OrderedIds
<1>3. Page(ids, MaxLimit, 0) = ids
  <2>1. Len(ids) <= MaxLimit /\ MaxLimit \in Nat
    BY <1>2 DEF MaxLimit
  <2> HIDE DEF ids
  <2> QED
    BY <1>2, <2>1, WholePage
<1>4. rows = [i \in DOMAIN ids |-> RowsOf(d, ids[i])]
  BY <1>3 DEF ListQuestionsWithChoices
<1> HIDE DEF ids, rows
<1>5. PICK i \in DOMAIN ids : ids[i] = q
  BY <1>2
<1>6. i \in DOMAIN rows /\ rows[i] = RowsOf(d, q)
  BY <1>4, <1>5
<1>7. /\ ApiGetQuestions(d, MaxLimit, 0).body.rows = attachImages(d, buildQuestionsFromRows(rows))
      /\ AdminGetQuestions(d, MaxLimit, 0).body.rows = AdminQuestions(d, rows)
  <2>1. validatePagination(MaxLimit, 0)
    BY DEF validatePagination, MaxLimit
  <2> QED
    BY <2>1 DEF ApiGetQuestions, AdminGetQuestions, Paged, Found, rows
<1> QED
  BY <1>6, <1>7, QuestionShown

(* The questions of a workbook, in both its forms.                          *)
LEMMA WorkbookShown ==
  ASSUME NEW d, Sound(d), Arranged(d), NEW w \in d.workbooks
  PROVE  LET rows == ListQuestionsWithChoicesByWorkbook(d, w.id)
             shown == attachImages(d, buildQuestionsFromRows(rows))
             admin == AdminGetWorkbook(d, w.id).body.questions
         IN  /\ DOMAIN shown = DOMAIN rows /\ DOMAIN admin = DOMAIN rows
             /\ \A i \in DOMAIN rows :
                  \E q \in d.questions : /\ rows[i] = RowsOf(d, q)
                                         /\ shown[i] = Shown(d, q) /\ admin[i] = AdminShown(d, q)
             /\ IF w.published THEN ApiGetWorkbook(d, w.id)
                                      = Found([id |-> w.id, title |-> w.title, category |-> w.category,
                                               questions |-> shown])
                ELSE ApiGetWorkbook(d, w.id) = NotFound
<1> DEFINE S == {r \in d.workbookQuestions : r.workbook = w.id}
           listed == OrderBy(S, LAMBDA r, s : r.order < s.order)
           rows == ListQuestionsWithChoicesByWorkbook(d, w.id)
           shown == attachImages(d, buildQuestionsFromRows(rows))
           admin == AdminGetWorkbook(d, w.id).body.questions
<1>1. GetWorkbookByID(d, w.id) = {w}
  BY DEF GetWorkbookByID, Sound, Intact, SerialsOK, SerialOK, Keyed, Serial
<1>2. admin = AdminQuestions(d, rows)
  BY <1>1 DEF AdminGetWorkbook, Found
<1>3. \A i \in DOMAIN listed : listed[i].question \in d.questions
  <2>1. Listing(listed, S)
    BY RowsOfWorkbook
  <2> HIDE DEF listed
  <2> QED
    BY <2>1 DEF Listing, Sound, Intact, PlacesOK
<1>4. rows = [i \in DOMAIN listed |-> RowsOf(d, listed[i].question)]
  BY DEF ListQuestionsWithChoicesByWorkbook
<1> HIDE DEF listed, rows
<1>5. /\ DOMAIN rows = DOMAIN listed
      /\ \A i \in DOMAIN rows : \E q \in d.questions : rows[i] = RowsOf(d, q)
  BY <1>3, <1>4
<1>6. DOMAIN shown = DOMAIN rows /\ DOMAIN admin = DOMAIN rows
  BY <1>2 DEF attachImages, buildQuestionsFromRows, AdminQuestions
<1>7. ASSUME NEW i \in DOMAIN rows
      PROVE  \E q \in d.questions : /\ rows[i] = RowsOf(d, q)
                                    /\ shown[i] = Shown(d, q) /\ admin[i] = AdminShown(d, q)
  <2>1. PICK q \in d.questions : rows[i] = RowsOf(d, q)
    BY <1>5
  <2>2. shown[i] = Shown(d, q) /\ AdminQuestions(d, rows)[i] = AdminShown(d, q)
    BY <2>1, QuestionShown
  <2> QED
    BY <1>2, <2>1, <2>2
<1>8. IF w.published THEN ApiGetWorkbook(d, w.id)
                            = Found([id |-> w.id, title |-> w.title, category |-> w.category,
                                     questions |-> shown])
      ELSE ApiGetWorkbook(d, w.id) = NotFound
  <2>1. (\A v \in GetWorkbookByID(d, w.id) : ~v.published) <=> ~w.published
    BY <1>1
  <2>2. (CHOOSE v \in GetWorkbookByID(d, w.id) : TRUE) = w
    BY <1>1
  <2> QED
    BY <2>1, <2>2 DEF ApiGetWorkbook, rows
<1> QED
  BY <1>6, <1>7, <1>8 DEF rows

LEMMA CategoriesOpen ==
  ASSUME NEW d, Sound(d), NEW id, CategoryExists(d, id)
  PROVE  ApiGetCategory(d, id) = Found([id |-> id, title |-> (CHOOSE c \in GetCategoryByID(d, id) : TRUE).title,
                                        workbooks |-> ListPublishedWorkbooksByCategory(d, id)])
<1>1. GetCategoryByID(d, id) # {}
  BY DEF GetCategoryByID, CategoryExists
<1> QED
  BY <1>1 DEF ApiGetCategory

LEMMA RowsListed ==
  ASSUME NEW d, Sound(d), NEW W, W \subseteq d.workbooks
  PROVE  /\ \A i \in DOMAIN Listed(d, W) : \E w \in W : Listed(d, W)[i] = WorkbookRow(d, w)
         /\ \A w \in W : \E i \in DOMAIN Listed(d, W) : Listed(d, W)[i] = WorkbookRow(d, w)
<1>1. SerialOK(W, d.seq.workbooks, TRUE)
  <2>1. SerialOK(d.workbooks, d.seq.workbooks, TRUE)
    BY DEF Sound, Intact, SerialsOK, Serial
  <2> QED
    BY <2>1, FS_Subset DEF SerialOK, Keyed
<1>2. Listing(ById(W), W)
  BY <1>1, RowsById
<1>3. /\ DOMAIN Listed(d, W) = DOMAIN ById(W)
      /\ \A i \in DOMAIN ById(W) : Listed(d, W)[i] = WorkbookRow(d, ById(W)[i])
  BY DEF Listed
<1> QED
  BY <1>2, <1>3 DEF Listing

LEMMA AppsOpen ==
  ASSUME NEW d, Sound(d), Arranged(d), NEW a \in d.apps
  PROVE  LET got == ApiGetApp(d, a.slug)
         IN  /\ got.status = 200 /\ got.body.app = a /\ AdminGetApp(d, a.id) = Found(a)
             /\ \A i \in DOMAIN got.body.categories : CategoryExists(d, got.body.categories[i].id)
<1> DEFINE R == {r \in d.appCategories : \E b \in GetAppBySlug(d, a.slug) : r.app = b.id}
           rows == OrderBy(R, LinkBefore)
           listed == ListAppCategoriesBySlug(d, a.slug)
<1>1. GetAppBySlug(d, a.slug) = {a} /\ GetAppByID(d, a.id) = {a}
  BY DEF GetAppBySlug, GetAppByID, Sound, Intact, AppsOK, SerialsOK, SerialOK, Keyed, Serial
<1>2. R = {r \in d.appCategories : r.app = a.id}
  BY <1>1
<1>3. \A r \in d.appCategories : CategoryExists(d, r.category)
  BY DEF Sound, Intact, AppsOK
<1>4. Listing(rows, R)
  <2>1. IsFiniteSet(R)
    BY <1>2, FewerRows DEF Sound, Intact, AppsOK, LinkedOK
  <2>2. \A c \in d.categories : c.id \in Nat
    BY DEF Sound, Intact, SerialsOK, SerialOK, Serial
  <2>3. /\ \A r \in R : r.sort \in Nat /\ r.category \in Nat
        /\ \A r, s \in R : r.category = s.category => r = s
    BY <1>2, <1>3, <2>2 DEF Arranged, CategoryExists, Sound, Intact, AppsOK, LinkedOK
  <2> HIDE DEF R
  <2> QED
    BY <2>1, <2>3, LinksInOrder
<1>5. listed = [i \in DOMAIN rows |-> CHOOSE c \in d.categories : c.id = rows[i].category]
  BY DEF ListAppCategoriesBySlug, LinkBefore
<1> HIDE DEF rows, listed
<1>6. \A i \in DOMAIN listed : CategoryExists(d, listed[i].id)
  <2> SUFFICES ASSUME NEW i \in DOMAIN listed PROVE CategoryExists(d, listed[i].id)
    OBVIOUS
  <2>1. i \in DOMAIN rows /\ listed[i] = CHOOSE c \in d.categories : c.id = rows[i].category
    BY <1>5
  <2>2. \E c \in d.categories : c.id = rows[i].category
    BY <1>3, <1>4, <2>1 DEF Listing, CategoryExists
  <2> QED
    BY <2>1, <2>2 DEF CategoryExists
<1>7. ApiGetApp(d, a.slug) = Found([app |-> a, categories |-> listed]) /\ AdminGetApp(d, a.id) = Found(a)
  BY <1>1 DEF ApiGetApp, AdminGetApp, listed
<1> QED
  BY <1>6, <1>7 DEF Found
=============================================================================
