------------------------------ MODULE Learning ------------------------------
(***************************************************************************)
(* Answers of users who have been resolved (Accounts models how), stored   *)
(* and aggregated while the administration edits the questions they are    *)
(* about: SubmitAnswers and the handlers of internal/handler/answers.go    *)
(* that read user_answers, over the queries of db/answers.sql.go.          *)
(*                                                                         *)
(* Time is counted in units of which DayLength make a day and JstOffset    *)
(* the distance of Japan from UTC; unit 0 begins a Monday in UTC.          *)
(***************************************************************************)
EXTENDS Content, Integers

CONSTANTS Submissions,      \* POST /answers requests
          Users,
          Bodies,           \* [workbook, answers: sequence of [question, selected]]
          Start,            \* the time the database is at
          DayLength, JstOffset, Ticks,
          MaxClock, MaxEdits        \* bounds

VARIABLES answers,          \* user_answers
          nextId, clock, edits,
          sub               \* submission -> where it is

learningVars == <<db, answers, nextId, clock, edits, sub>>

ASSUME LearningAssumption ==
  /\ DayLength \in Nat \ {0} /\ JstOffset \in 0 .. DayLength - 1
  /\ Start \in 0 .. MaxClock /\ MaxClock \in Nat /\ MaxEdits \in Nat /\ Ticks \subseteq Nat \ {0}
  /\ \A b \in Bodies : b.answers \in Seq([question : Nat, selected : Int]) /\ Len(b.answers) > 0

LearningInit ==
  /\ db = InitDB /\ answers = {} /\ nextId = 1 /\ clock = Start /\ edits = 0
  /\ sub = [s \in Submissions |-> [stage |-> "idle"]]

-----------------------------------------------------------------------------
(* The queries.  DISTINCT ON (question_id) .. ORDER BY answered_at DESC     *)
(* keeps one of the newest rows of each question, whichever comes first:    *)
(* such a query has a set of possible results, as has the unordered list of *)
(* correct choices and a page of rows whose order is not total.             *)
Of(user) == {a \in answers : a.user = user}
\* Fault: ORDER BY answered_at without DESC.
DistinctOnOldest(S) ==
  LET Oldest(q) == {a \in S : a.question = q /\ \A b \in S : b.question = q => a.at <= b.at}
      Qs == {a.question : a \in S}
  IN  {f \in [Qs -> S] : \A q \in Qs : f[q] \in Oldest(q)}

DistinctOn(S) ==
  LET Newest(q) == {a \in S : a.question = q /\ \A b \in S : b.question = q => b.at <= a.at}
      Qs == {a.question : a \in S}
  IN  {f \in [Qs -> S] : \A q \in Qs : f[q] \in Newest(q)}

(* ORDER BY: at each position the rows that may stand there.                *)
MayStand(S, Before(_, _)) ==
  [i \in 1 .. Cardinality(S) |->
     {r \in S : /\ Cardinality({s \in S : Before(s, r)}) < i
                /\ i <= Cardinality(S) - Cardinality({s \in S : Before(r, s)})}]
\* Fault: the log is ordered by answered_at alone.
NewestAnswerFirst(a, b) == a.at > b.at
LogOrder(a, b) == a.at > b.at \/ (a.at = b.at /\ a.id > b.id)

(* Possible contents of correctMap: the last row of a question wins, no row *)
(* leaves it out.                                                           *)
\* Fault: the query for the keys without AND is_correct.
GetChoicesByQuestionIDs(qs) == {c \in db.choices : c.question \in qs}

GetCorrectChoicesByQuestionIDs(qs) ==
  {c \in db.choices : c.question \in qs /\ c.correct}
CorrectMaps(rows) ==
  LET Qs == {c.question : c \in rows}
  IN  {f \in [Qs -> {c.index : c \in rows}] :
         \A q \in Qs : \E c \in rows : c.question = q /\ c.index = f[q]}

CreateUserAnswers(user, w, picks, graded) ==
  answers \cup {[id |-> nextId + i - 1, user |-> user, workbook |-> w, at |-> clock,
                 question |-> picks[i].question, selected |-> picks[i].selected,
                 correct |-> graded[i]] : i \in DOMAIN picks}

CountUserAnswerLogs(user) == Cardinality(Of(user))
ListUserAnswerLogs(user, limit, offset) ==
  Page(MayStand(Of(user), LogOrder), limit, offset)
ListWorkbookProgress(user, w) ==
  {[q \in DOMAIN f |-> f[q].correct] : f \in DistinctOn({a \in Of(user) : a.workbook = w})}
Wrong(f) == {q \in DOMAIN f : ~f[q].correct}
CountWrongAnswers(user) == {Cardinality(Wrong(f)) : f \in DistinctOn(Of(user))}
ListWrongAnswersWithChoices(user, limit, offset) ==
  {LET ids == Page(OrderBy(Wrong(f), LAMBDA p, q : p < q), limit, offset)
   IN  [i \in DOMAIN ids |-> [row |-> RowsOf(db, ids[i]), workbook |-> f[ids[i]].workbook]] :
   f \in DistinctOn(Of(user))}

Stats(S) == [answered |-> Cardinality(S), correct |-> Cardinality({a \in S : a.correct})]
JstDay(t) == (t + JstOffset) \div DayLength
GetUserTotalStats(user) == Stats(Of(user))
GetUserWeeklyStats(user, since) == Stats({a \in Of(user) : a.at >= since})
(* LIMIT 365: the latest days only.                                         *)
ListStudyDates(user) ==
  LET days == {JstDay(a.at) : a \in Of(user)}
  IN  {d \in days : Cardinality({e \in days : e > d}) < 365}
ListWeeklyWorkbookIDs(user, since) == {a.workbook : a \in {b \in Of(user) : b.at >= since}}

\* Fault: Go's Sunday, weekday 0, is not moved behind Saturday.
WeekStartOnSunday(t) ==
  LET weekday == (JstDay(t) + 1) % 7
  IN  (JstDay(t) - weekday + 1) * DayLength - JstOffset

(* Monday 00:00 in Japan of the week of t; weekdays count from Sunday = 0.  *)
isoWeekStart(t) ==
  LET weekday == IF (JstDay(t) + 1) % 7 = 0 THEN 7 ELSE (JstDay(t) + 1) % 7
  IN  (JstDay(t) - weekday + 1) * DayLength - JstOffset

-----------------------------------------------------------------------------
(* SubmitAnswers.                                                           *)
Receive(s, user, b) ==
  /\ sub[s].stage = "idle"
  /\ sub' = [sub EXCEPT ![s] = [stage |-> IF WorkbookExists(db, b.workbook) THEN "keys" ELSE "done",
                                user |-> user, body |-> b]]
  /\ UNCHANGED <<db, answers, nextId, clock, edits>>

(* isCorrect compares with correctMap's zero value when there is no row.    *)
ReadKeys(s) ==
  /\ sub[s].stage = "keys"
  /\ LET picks == sub[s].body.answers
         rows == GetCorrectChoicesByQuestionIDs({picks[i].question : i \in DOMAIN picks})
     IN  \E correctMap \in CorrectMaps(rows) :
           LET Key(q) == IF q \in DOMAIN correctMap THEN correctMap[q] ELSE 0
           IN  sub' = [sub EXCEPT ![s] =
                 [stage  |-> "insert", user |-> sub[s].user, body |-> sub[s].body,
                  graded |-> [i \in DOMAIN picks |-> Key(picks[i].question) = picks[i].selected],
                  \* history: the keys the content API showed at this moment
                  shown  |-> [i \in DOMAIN picks |->
                                IF QuestionExists(db, picks[i].question)
                                THEN ApiGetQuestion(db, picks[i].question).body.correct ELSE NoKey]]]
  /\ UNCHANGED <<db, answers, nextId, clock, edits>>

(* One INSERT: every row or, when a question or the workbook is gone, none. *)
Insert(s) ==
  /\ sub[s].stage = "insert"
  /\ LET b == sub[s].body
     IN  IF WorkbookExists(db, b.workbook)
            /\ \A i \in DOMAIN b.answers : QuestionExists(db, b.answers[i].question)
         THEN /\ answers' = CreateUserAnswers(sub[s].user, b.workbook, b.answers, sub[s].graded)
              /\ nextId' = nextId + Len(b.answers)
              \* no two statements share a timestamp
              /\ \E d \in Ticks : clock + d <= MaxClock /\ clock' = clock + d
              /\ sub' = [sub EXCEPT ![s].stage = "stored"]
         ELSE /\ sub' = [sub EXCEPT ![s].stage = "done"]
              /\ UNCHANGED <<answers, nextId, clock>>
  /\ UNCHANGED <<db, edits>>

(* Administration; user_answers has foreign keys with ON DELETE CASCADE.    *)
EditAnswered(after) ==
  /\ edits < MaxEdits
  /\ db' = after /\ edits' = edits + 1
  /\ answers' = {a \in answers : QuestionExists(after, a.question)
                                 /\ WorkbookExists(after, a.workbook)}
  /\ UNCHANGED <<nextId, clock, sub>>
EditContent ==
  \/ \E q \in db.questions, b \in QuestionBodies : EditAnswered(AdminUpdateQuestion(db, q, b))
  \/ \E q \in db.questions : EditAnswered(AdminDeleteQuestion(db, q))
  \/ \E w \in db.workbooks, b \in WorkbookBodies : EditAnswered(AdminUpdateWorkbook(db, w.id, b))
  \/ \E w \in db.workbooks : EditAnswered(AdminDeleteWorkbook(db, w.id))

LearningNext ==
  \/ \E s \in Submissions : \/ \E u \in Users, b \in Bodies : Receive(s, u, b)
                            \/ ReadKeys(s) \/ Insert(s)
  \/ EditContent

LearningSpec == LearningInit /\ [][LearningNext]_learningVars

-----------------------------------------------------------------------------
(* GET /answers/logs, /users/me/wrong-answers, progress and summary:         *)
(* where the queries leave a choice, every outcome they may have.           *)
GetAnswerLogs(user, limit, offset) ==
  Paged(limit, offset, CountUserAnswerLogs(user), ListUserAnswerLogs(user, limit, offset))
GetWrongAnswers(user, limit, offset) ==
  {Paged(limit, offset, total,
         LET questions == attachImages(db, buildQuestionsFromRows([i \in DOMAIN l |-> l[i].row]))
         IN  [i \in DOMAIN l |-> With(questions[i], "workbook", l[i].workbook)]) :
     total \in CountWrongAnswers(user), l \in ListWrongAnswersWithChoices(user, limit, offset)}
GetWorkbookProgress(user, w) == ListWorkbookProgress(user, w)
GetUserSummary(user) ==
  LET weekStart == isoWeekStart(clock)
  IN  [total |-> GetUserTotalStats(user), weekly |-> GetUserWeeklyStats(user, weekStart),
       studyDates |-> ListStudyDates(user),
       weeklyWorkbooks |-> ListWeeklyWorkbookIDs(user, weekStart)]

(* An answer is graded against the key the content API showed at the moment *)
(* the keys were read: the handler and the endpoints find the key by        *)
(* different queries, each with a default of its own for a question that    *)
(* has none (the zero value of a map and of a variable).                    *)
GradedAsShown ==
  \A s \in Submissions : sub[s].stage \in {"insert", "stored"} =>
     \A i \in DOMAIN sub[s].graded :
        sub[s].shown[i] # NoKey =>
          (sub[s].graded[i] <=> sub[s].body.answers[i].selected = sub[s].shown[i])

(* Whatever order the database gives rows that the ORDER BY leaves open,    *)
(* the pages of the log show every answer exactly once.                     *)
LogPagesComplete ==
  \A u \in Users : \A limit \in 1 .. 2 :
    LET pages == [k \in 0 .. CountUserAnswerLogs(u) |-> GetAnswerLogs(u, limit, limit * k).body]
        Places(a) == {p \in (DOMAIN pages) \X (1 .. limit) :
                        /\ p[2] \in DOMAIN pages[p[1]].rows
                        /\ a \in pages[p[1]].rows[p[2]]}
    IN  \A a \in Of(u) : /\ Cardinality(Places(a)) = 1
                         /\ \A p \in Places(a) : pages[p[1]].total = Cardinality(Of(u))

(* The questions to repeat are those whose last submitted answer is wrong:  *)
(* the count and the list, each a DISTINCT ON of its own, agree, and the    *)
(* progress of a workbook agrees with both about questions answered in no   *)
(* other workbook.                                                          *)
LastAnswer(user, q) ==
  CHOOSE a \in Of(user) : a.question = q /\ \A b \in Of(user) : b.question = q => b.id <= a.id
RepeatsAreLatest ==
  \A u \in Users :
    /\ \A got \in GetWrongAnswers(u, MaxLimit, 0) :
         LET listed == {got.body.rows[i].id : i \in DOMAIN got.body.rows}
         IN  /\ got.body.total = Cardinality(listed)
             /\ listed = {q \in {a.question : a \in Of(u)} : ~LastAnswer(u, q).correct}
             /\ \A i \in DOMAIN got.body.rows :
                  got.body.rows[i].correct = ApiGetQuestion(db, got.body.rows[i].id).body.correct
    /\ \A w \in db.workbooks : \A progress \in GetWorkbookProgress(u, w.id) :
         \A q \in DOMAIN progress :
           (\A a \in Of(u) : a.question = q => a.workbook = w.id) =>
              (progress[q] <=> LastAnswer(u, q).correct)

(* The weekly figures are those of the study dates from Monday to Sunday in *)
(* Japan, also for a clock around midnight there and here.                  *)
WeekIsMondayToSunday ==
  \A u \in Users :
    LET s == GetUserSummary(u)
        monday == 7 * (JstDay(clock) \div 7)
        week == {a \in Of(u) : JstDay(a.at) \in monday .. monday + 6}
    IN  /\ s.weekly.answered = Cardinality(week)
        /\ s.weekly.correct <= s.total.correct
        /\ s.weeklyWorkbooks = {a.workbook : a \in week}
        /\ s.weekly.answered > 0 <=> s.studyDates \cap (monday .. monday + 6) # {}
=============================================================================
