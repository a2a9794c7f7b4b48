---------------------------- MODULE ReadSurvey ----------------------------
(***************************************************************************)
(* readSurvey on a file that was cut between two lines, or whose last line *)
(* lost its newline.  A line is a number or a text; cutting never puts a   *)
(* text where a number is read.  The stream has failed (failbit) or has    *)
(* met its end (eofbit), after which no read succeeds.                     *)
(***************************************************************************)
EXTENDS Integers, Sequences, SequencesExt

CONSTANTS
    Texts,        \* the texts that a line can have
    Surveys       \* surveys that may have been written: sequences of questions

Question == [qText : Texts, rList : Seq(Texts)]

ASSUME TextsAssumption == "" \in Texts
ASSUME SurveysAssumption == \A s \in Surveys : s \in Seq(Question)

VARIABLES
    survey,       \* the survey that was written
    cut,          \* lines that are missing at its end
    newline,      \* does the last line that is there end in a newline?
    rest,         \* lines left to read
    ok, eof,      \* neither failbit nor eofbit; eofbit
    qList,        \* the questions so far, as many as were announced
    q, r          \* the question and the response to be read next

fileVars == <<survey, cut, newline, rest, ok, eof, qList, q, r>>

Parts(s) == [i \in DOMAIN s |-> <<s[i].qText, Len(s[i].rList)>> \o s[i].rList]
Lines(s) == <<Len(s)>> \o FlattenSeq(Parts(s))

\* The state of the stream as a record, and the results of reading from it.
Stream == [rest |-> rest, ok |-> ok, eof |-> eof]
Failed(s) == [s EXCEPT !.ok = FALSE, !.eof = TRUE]
CanRead(s) == s.ok /\ ~s.eof /\ s.rest # << >>
NothingLeft(s) == Len(s.rest) = 1 /\ ~newline /\ Head(s.rest) = ""
Behind(s) == [rest |-> Tail(s.rest), ok |-> TRUE, eof |-> Len(s.rest) = 1 /\ ~newline]

\* Fault: nobody hears of a line that is missing.
getlineQuiet(s) ==
    IF CanRead(s) THEN [val |-> Head(s.rest), next |-> Behind(s)]
    ELSE [val |-> "", next |-> s]

\* getline leaves an empty string when it fails, as it does when there is no
\* character before the end of the stream.
getline(s) ==
    IF CanRead(s) /\ ~NothingLeft(s) THEN [val |-> Head(s.rest), next |-> Behind(s)]
    ELSE [val |-> "", next |-> Failed(s)]

\* >> and ignore.  At the end of the stream ignore fails when there is no
\* newline to skip, although the number has been read.
getCount(s) ==
    IF CanRead(s)
    THEN [val |-> Head(s.rest),
          next |-> IF Behind(s).eof THEN Failed(Behind(s)) ELSE Behind(s)]
    ELSE [val |-> 0, next |-> Failed(s)]

Goes(s) == rest' = s.rest /\ ok' = s.ok /\ eof' = s.eof
Empty(n, x) == [i \in 1 .. n |-> x]

-----------------------------------------------------------------------------
\* How many questions there are.
Start ==
    /\ q = 0
    /\ LET c == getCount(Stream)
       IN Goes(c.next) /\ qList' = Empty(c.val, [qText |-> "", rList |-> << >>])
    /\ q' = 1 /\ r' = 0
    /\ UNCHANGED <<survey, cut, newline>>

\* The text of a question and the number of its responses.
ReadQuestion ==
    /\ q \in DOMAIN qList /\ r = 0
    /\ LET t == getline(Stream)
           c == getCount(t.next)
       IN /\ Goes(c.next)
          /\ qList' = [qList EXCEPT ![q] = [qText |-> t.val, rList |-> Empty(c.val, "")]]
    /\ r' = 1
    /\ UNCHANGED <<survey, cut, newline, q>>

ReadResponse ==
    /\ q \in DOMAIN qList /\ r \in DOMAIN qList[q].rList
    /\ LET t == getline(Stream)
       IN Goes(t.next) /\ qList' = [qList EXCEPT ![q].rList[r] = t.val]
    /\ r' = r + 1
    /\ UNCHANGED <<survey, cut, newline, q>>

NextQuestion ==
    /\ q \in DOMAIN qList /\ r > Len(qList[q].rList)
    /\ q' = q + 1 /\ r' = 0
    /\ UNCHANGED <<survey, cut, newline, rest, ok, eof, qList>>

-----------------------------------------------------------------------------
FileInit ==
    /\ survey \in Surveys /\ newline \in BOOLEAN
    /\ cut \in 0 .. Len(Lines(survey))
    /\ rest = SubSeq(Lines(survey), 1, Len(Lines(survey)) - cut)
    /\ ok = TRUE /\ eof = FALSE /\ qList = << >> /\ q = 0 /\ r = 0

FileNext == Start \/ ReadQuestion \/ ReadResponse \/ NextQuestion

FileSpec == FileInit /\ [][FileNext]_fileVars

-----------------------------------------------------------------------------
Returned == q > Len(qList) /\ q > 0

\* The last line is a text that is not empty.
EndsInText(s) ==
    s # << >> /\ Last(s).rList # << >> /\ Last(Last(s).rList) # ""

\* readSurvey returns true with the survey that was written and with no other:
\* a file that is cut anywhere is noticed, also where what is left looks like
\* a survey.  A whole file is refused only when its last line lacks its newline
\* and is an empty response or the number of no responses (or no questions).
TrueIfWhole ==
    Returned =>
        /\ ok => cut = 0 /\ qList = survey
        /\ cut = 0 /\ (newline \/ EndsInText(survey)) => ok
=============================================================================
