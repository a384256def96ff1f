----------------------------- MODULE FileStore ------------------------------
(***************************************************************************)
(* What file_read, file_write and file_edit promise together about one     *)
(* file: a call that overlaps no other writer finds and leaves whole       *)
(* texts, in one step.  A call that overlaps one may do anything.          *)
(*                                                                         *)
(* A text is a sequence of bytes.  The operators say by position what the  *)
(* tools compute by scanning.                                              *)
(***************************************************************************)
EXTENDS Integers, Sequences, FiniteSets

CONSTANTS
    Calls,          \* calls of the three tools
    Absent,         \* no file
    NL, CR,         \* two bytes: newline and carriage return
    MaxLine,        \* the size of a bufio.Scanner's buffer
    DefaultLimit    \* the lines file_read returns when it is given no limit

VARIABLES
    content,        \* the text of the file, or Absent
    job,            \* the input of each call
    state,          \* "idle", "called", "changed" (its text is in), "done"
    answer,         \* what a call returned
    raced           \* the calls that overlapped a writer of the file

vars == <<content, job, state, answer, raced>>

Error == [ok |-> FALSE, lines |-> <<>>]
Success(lines) == [ok |-> TRUE, lines |-> lines]

----------------------------------------------------------------------------
\* What the tools accept.
Valid(j) ==
    /\ j.path # ""
    /\ j.tool = "file_edit" => j.old # <<>> /\ j.old # j.new

Matches(s, old, i) == SubSeq(s, i, i + Len(old) - 1) = old
Occurrences(s, old) == {i \in 1 .. Len(s) - Len(old) + 1 : Matches(s, old, i)}

\* old occurs, and no two of its occurrences are apart.
Editable(s, old) ==
    /\ s # Absent
    /\ Occurrences(s, old) # {}
    /\ \A i, k \in Occurrences(s, old) : i - k < Len(old)

Edited(s, old, new) ==
    LET first == CHOOSE i \in Occurrences(s, old) :
                     \A k \in Occurrences(s, old) : i <= k
    IN  SubSeq(s, 1, first - 1) \o new \o SubSeq(s, first + Len(old), Len(s))

\* A line begins with the text or behind a newline; its number counts those.
Starts(s) == {i \in 1 .. Len(s) : i = 1 \/ s[i - 1] = NL}
Number(s, i) == Cardinality({k \in Starts(s) : k <= i})
LineCount(s) == Cardinality(Starts(s))

\* It ends before the next newline, or with the text.
LineEnd(s, i) ==
    CHOOSE e \in i - 1 .. Len(s) :
        /\ e = Len(s) \/ s[e + 1] = NL
        /\ \A k \in i .. e : s[k] # NL

Line(s, n) ==
    LET i == CHOOSE i \in Starts(s) : Number(s, i) = n
    IN  SubSeq(s, i, LineEnd(s, i))

\* A carriage return at the end of a line is not shown.
Shown(line) ==
    IF line # <<>> /\ line[Len(line)] = CR THEN SubSeq(line, 1, Len(line) - 1) ELSE line

\* Lines first + 1 to first + wanted.  The one after them is looked at too.
Window(s, offset, limit) ==
    LET first == IF offset > 0 THEN offset ELSE 0
        wanted == IF limit = 0 THEN DefaultLimit
                  ELSE IF limit > 0 THEN limit ELSE 0
        count == LineCount(s)
        last == IF first + wanted < count THEN first + wanted ELSE count
    IN  IF s = Absent \/ \E n \in 1 .. count :
                           n <= first + wanted + 1 /\ Len(Line(s, n)) >= MaxLine
        THEN Error
        ELSE Success([k \in 1 .. last - first |-> <<first + k, Shown(Line(s, first + k))>>])

----------------------------------------------------------------------------
Writes(j) == j.tool \in {"file_write", "file_edit"}

Active == {c \in Calls : state[c] \in {"called", "changed"}}
Writers == {c \in Active : Writes(job[c])}

Overlapping(c, j) ==
    (IF Writers # {} THEN {c} ELSE {}) \cup (IF Writes(j) THEN Active ELSE {})

Finish(c, result) ==
    /\ state' = [state EXCEPT ![c] = "done"]
    /\ answer' = [answer EXCEPT ![c] = result]
    /\ UNCHANGED <<job, raced>>

Init ==
    /\ state = [c \in Calls |-> "idle"]
    /\ answer = [c \in Calls |-> Error]
    /\ raced = {}

\* Once two writers meet, the text is no longer a promise.
Start(c) ==
    /\ state[c] = "idle" /\ state' = [state EXCEPT ![c] = "called"]
    /\ job' = [job EXCEPT ![c] = job'[c]] /\ Valid(job'[c])
    /\ raced' = raced \cup Overlapping(c, job'[c])
    /\ Writers \cap raced' = {} => UNCHANGED content
    /\ UNCHANGED answer

Reject(c) ==
    /\ state[c] = "idle" /\ state' = [state EXCEPT ![c] = "done"]
    /\ job' = [job EXCEPT ![c] = job'[c]] /\ ~Valid(job'[c])
    /\ UNCHANGED <<content, answer, raced>>

Read(c) ==
    /\ state[c] = "called" /\ job[c].tool = "file_read" /\ c \notin raced
    /\ Finish(c, Window(content, job[c].offset, job[c].limit))
    /\ UNCHANGED content

Change(c) ==
    /\ state[c] = "called" /\ Writes(job[c]) /\ c \notin raced
    /\ job[c].tool = "file_edit" => Editable(content, job[c].old)
    /\ content' = IF job[c].tool = "file_write" THEN job[c].content
                  ELSE Edited(content, job[c].old, job[c].new)
    /\ state' = [state EXCEPT ![c] = "changed"]
    /\ UNCHANGED <<job, answer, raced>>

Confirm(c) ==
    /\ state[c] = "changed" /\ c \notin raced
    /\ Finish(c, Success(<<>>))
    /\ UNCHANGED content

\* An error before the file is opened for writing leaves it alone, one after
\* that leaves a beginning of the text, or all of it.
Fail(c) ==
    /\ state[c] \in {"called", "changed"} /\ c \notin raced
    /\ Finish(c, Error)
    /\ IF state[c] = "called" THEN UNCHANGED content
       ELSE \E n \in 0 .. Len(content) : content' = SubSeq(content, 1, n)

Race(c) ==
    /\ state[c] \in {"called", "changed"} /\ c \in raced
    /\ \E s \in {"called", "changed", "done"} : state' = [state EXCEPT ![c] = s]
    /\ \A d \in Calls \ {c} : answer'[d] = answer[d]
    /\ Writes(job[c]) \/ UNCHANGED content
    /\ UNCHANGED <<job, raced>>

Next ==
    \E c \in Calls :
        \/ Start(c) \/ Reject(c) \/ Read(c) \/ Change(c)
        \/ Confirm(c) \/ Fail(c) \/ Race(c)

Spec == Init /\ [][Next]_vars
=============================================================================
