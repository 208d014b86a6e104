------------------------------- MODULE Database -------------------------------
(***************************************************************************)
(* CPGDatabase and a caller of it: one connection to PostgreSQL, the       *)
(* statements executed on it and the result and error kept between calls.  *)
(* A caller writes a value, a text or a time, as a literal into a          *)
(* statement, executes that any number of times, and reads back what it    *)
(* has stored.  What libpq answers is external: a result of any status, or *)
(* none.                                                                   *)
(***************************************************************************)
EXTENDS SqlText, TimeStamp

CONSTANTS
    Texts,              \* the texts callers store
    MaxSizes,           \* the limits they give to FixMultibyte
    Endings,            \* what they write behind the literal
    Times,              \* the times they store
    MaxCalls            \* bound: statements

ASSUME CallerAssumption ==
    /\ Texts \subseteq Seq(CharClass) /\ Endings \subseteq Seq(CharClass)
    /\ MaxSizes \subseteq Nat /\ Times \subseteq Nat /\ MaxCalls \in Nat

VARIABLES
    (* the caller *)
    value,                  \* a Text or a Time
    statement,
    readTime,               \* the time read back, or Unread
    (* the object *)
    m_dbConnection,         \* Null, CONNECTION_OK, CONNECTION_BAD
    m_lastResult,           \* [call, status] of the result kept, or Null
    m_errorMsg,             \* the call whose error text it holds, or 0
    process,                \* "running", "exited", or "destroyed"
    results,                \* results allocated and not deleted
    calls,
    (* what the last call of ExecTuplesOk or ExecCommandOk was told *)
    last                    \* [exec, rejected, answer, ok]

callerVars == <<value, statement, readTime>>
vars == <<callerVars, m_dbConnection, m_lastResult, m_errorMsg, process, results,
          calls, last>>

Text == [text : Texts, maxSize : MaxSizes, ending : Endings]
Time == [time : Times]
IsText == "text" \in DOMAIN value
Unread == -1
Null == [call |-> 0, status |-> "none"]

ExecStatusType == {"PGRES_EMPTY_QUERY", "PGRES_COMMAND_OK", "PGRES_TUPLES_OK",
                   "PGRES_BAD_RESPONSE", "PGRES_FATAL_ERROR"}

-----------------------------------------------------------------------------
\* The caller's literal in its statement.  A timestamp's characters are classes
\* that neither function looks at, but for the blank.
Opening == <<"letter", "quote">>
Statement(v) ==
    IF "text" \in DOMAIN v
      THEN Opening \o FixMultibyte(v.text, v.maxSize) \o <<"quote">> \o v.ending
      ELSE Opening \o <<"letter", "space", "letter", "quote">>

Init ==
    /\ value \in Text \cup Time
    /\ statement = Statement(value) /\ readTime = Unread
    /\ m_dbConnection = "Null" /\ m_lastResult = Null /\ m_errorMsg = 0
    /\ process = "running" /\ results = {} /\ calls = 0
    /\ last = [exec |-> "none", rejected |-> FALSE, answer |-> Null, ok |-> FALSE]

\* The constructor; it exits the process when it cannot connect.
CPGDatabase ==
    /\ process = "running" /\ m_dbConnection = "Null"
    /\ \/ m_dbConnection' = "CONNECTION_OK" /\ UNCHANGED process
       \/ process' = "exited" /\ UNCHANGED m_dbConnection
    /\ UNCHANGED <<callerVars, m_lastResult, m_errorMsg, results, calls, last>>

ConnectionOk  == m_dbConnection = "CONNECTION_OK"

\* The server goes away.
ConnectionLost ==
    /\ process = "running" /\ ConnectionOk
    /\ m_dbConnection' = "CONNECTION_BAD"
    /\ UNCHANGED <<callerVars, m_lastResult, m_errorMsg, process, results, calls,
                   last>>

\* What PQexec may return: nothing, or, over a lost connection, a fatal error.
PQexec ==
    {Null} \cup [call : {calls + 1},
                 status : IF ConnectionOk THEN ExecStatusType
                                          ELSE {"PGRES_FATAL_ERROR"}]

Failed(answer) == answer = Null \/ answer.status = "PGRES_FATAL_ERROR"

\* Mutant: the previous result is not deleted.
KeepUndeleted(answer) ==
    IF answer = Null
      THEN UNCHANGED <<m_lastResult, results>>
      ELSE /\ m_lastResult' = answer
           /\ results' = results \cup {answer}

\* Replaces the result kept, if there is an answer.
Keep(answer) ==
    IF answer = Null
      THEN UNCHANGED <<m_lastResult, results>>
      ELSE /\ m_lastResult' = answer
           /\ results' = (results \ {m_lastResult}) \cup {answer}

\* The guard refuses the statement: false, and nothing else changes.
Reject(exec) ==
    /\ last' = [exec |-> exec, rejected |-> TRUE, answer |-> Null, ok |-> FALSE]
    /\ UNCHANGED <<m_lastResult, m_errorMsg, results>>

\* Mutant: only an error without a result is recorded.
ErrorMsgIfNone(answer) ==
    IF answer = Null THEN m_errorMsg' = calls + 1 ELSE UNCHANGED m_errorMsg

SetErrorMsg(answer) ==
    IF Failed(answer) THEN m_errorMsg' = calls + 1 ELSE UNCHANGED m_errorMsg

Execute(exec) ==
    \E answer \in PQexec :
      /\ Keep(answer)
      /\ SetErrorMsg(answer)
      /\ last' = [exec |-> exec, rejected |-> FALSE, answer |-> answer,
                  ok |-> ~Failed(answer)]

Called == /\ process = "running" /\ m_dbConnection # "Null" /\ calls < MaxCalls
          /\ calls' = calls + 1
          /\ UNCHANGED <<callerVars, m_dbConnection, process>>

ExecTuplesOk ==
    /\ Called
    /\ IF TestInjection(statement) THEN Reject("ExecTuplesOk")
                                   ELSE Execute("ExecTuplesOk")

ExecCommandOk ==
    /\ Called
    /\ \E check \in BOOLEAN :
         IF check /\ TestInjection(statement) THEN Reject("ExecCommandOk")
                                              ELSE Execute("ExecCommandOk")

\* The caller finds its time in a row of the result.
ReadTime ==
    /\ process = "running" /\ ~IsText /\ last.exec = "ExecTuplesOk" /\ last.ok
    /\ m_lastResult.status = "PGRES_TUPLES_OK"
    /\ readTime' = TimeStamp2Long(Long2TimeStamp(value.time))
    /\ UNCHANGED <<value, statement, m_dbConnection, m_lastResult, m_errorMsg,
                   process, results, calls, last>>

\* Mutant: the pointer is not cleared.
DestroyDangles ==
    /\ process = "running" /\ m_dbConnection # "Null"
    /\ process' = "destroyed"
    /\ m_dbConnection' = "Null" /\ m_errorMsg' = 0
    /\ results' = results \ {m_lastResult}
    /\ UNCHANGED <<callerVars, m_lastResult, calls, last>>

\* The destructor.
Destroy ==
    /\ process = "running" /\ m_dbConnection # "Null"
    /\ process' = "destroyed"
    /\ m_dbConnection' = "Null" /\ m_errorMsg' = 0
    /\ m_lastResult' = Null /\ results' = results \ {m_lastResult}
    /\ UNCHANGED <<callerVars, calls, last>>

Next == \/ CPGDatabase \/ ConnectionLost \/ Destroy
        \/ ExecTuplesOk \/ ExecCommandOk \/ ReadTime

Spec == Init /\ [][Next]_vars

-----------------------------------------------------------------------------
(* Properties *)

TypeOK ==
    /\ value \in Text \cup Time /\ readTime \in Int
    /\ m_dbConnection \in {"Null", "CONNECTION_OK", "CONNECTION_BAD"}
    /\ results \subseteq [call : 1 .. MaxCalls, status : ExecStatusType]
    /\ m_lastResult \in {Null} \cup results
    /\ m_errorMsg \in 0 .. MaxCalls /\ calls \in 0 .. MaxCalls
    /\ process \in {"running", "exited", "destroyed"}

(* A row read after a call that returned true comes from the statement of  *)
(* that call, never from an older result; and a false return that is no    *)
(* rejection leaves its own error text, so that GetErrorMsg never explains *)
(* an earlier failure.                                                     *)
AnswerIsOwn ==
    process = "running" =>
      /\ last.ok => m_lastResult.call = calls /\ m_lastResult = last.answer
      /\ last.exec # "none" /\ ~last.ok /\ ~last.rejected => m_errorMsg = calls

(* No result is lost or deleted twice, whatever sequence of rejections,    *)
(* unanswered and failed statements replaces it: exactly the one kept is   *)
(* allocated, and none is after the destructor.                            *)
OneResult == results = {m_lastResult} \ {Null}

(* "Escapes single quotes and backslashes": whatever the text, the server  *)
(* reads the literal back as that text, cut behind maxSize characters and  *)
(* one, and resumes with the ending the caller wrote: no cut ever falls    *)
(* between an escape and what it escapes.                                  *)
LiteralReadsBack ==
    IsText =>
      LET read == ServerReads(SubSeq(statement, Len(Opening) + 1, Len(statement)))
          kept == SubSeq(value.text, 1, value.maxSize + 1)
      IN /\ read.text = IF Len(value.text) > value.maxSize + 1 THEN kept \o Dots
                                                              ELSE value.text
         /\ IF value.ending = << >> THEN read.pending = "quote" /\ ~read.closed
                                    ELSE read.closed /\ read.rest = value.ending

WhiteSpace == {"space", "newline"}

(* The guard judges what the caller wrote and never the value: semicolons, *)
(* quotes and backslashes inside an escaped literal neither raise an alarm *)
(* nor hide what follows the caller's own semicolon.  (Behind it a letter  *)
(* must raise one and spaces must not.)                                    *)
GuardSeesOnlyTheEnding ==
    last.exec = "ExecTuplesOk" =>
      /\ IsText /\ SecondStatement(value.ending, LAMBDA c : c \notin WhiteSpace)
           => last.rejected
      /\ last.rejected =>
           IsText /\ SecondStatement(value.ending, LAMBDA c : c # "space")

(* "Detects semicolons outside quoted strings followed by non-whitespace": *)
(* those, and no others.                                                   *)
DetectsNonWhitespace ==
    last.exec = "ExecTuplesOk" =>
      (last.rejected <=>
         IsText /\ SecondStatement(value.ending, LAMBDA c : c \notin WhiteSpace))

(* An instant of standard time survives the way through the database, and  *)
(* none strays by more than the hour that summer time adds, whichever      *)
(* hour, day or end of summer time the two conversions fall on.            *)
StandardTimeKept ==
    readTime # Unread =>
      /\ ~IsSummer(value.time) => readTime = value.time
      /\ readTime - value.time \in 0 .. OneHour

(* "Parses PostgreSQL timestamp string back to Unix epoch": a time written *)
(* by Long2TimeStamp is read back as itself.                               *)
TimeReadsBack == readTime # Unread => readTime = value.time
=============================================================================
