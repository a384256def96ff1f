------------------------------ MODULE FileTools -----------------------------
(***************************************************************************)
(* file_read, file_write and file_edit as they run: no lock is taken, so   *)
(* calls interleave at their system calls.  os.WriteFile truncates the     *)
(* file when it opens it and then writes from its beginning.  Any of these *)
(* calls may fail for a reason the tools do not know (permissions,         *)
(* descriptors, the disk).  All calls are for one file; the tools know     *)
(* nothing that would relate two of them.                                  *)
(*                                                                         *)
(* A text is a sequence of bytes.  file_read reads a line at a time, where *)
(* the scanner fills a buffer that may hold many.                          *)
(***************************************************************************)
EXTENDS Integers, Sequences

CONSTANTS
    Calls, Absent, NL, CR, MaxLine, DefaultLimit,  \* as in FileStore
    Jobs,           \* the inputs a call may be given
    Originals       \* what the file may hold before the first call

BytesOf(s) == {s[i] : i \in DOMAIN s}
IsText(s) == s \in Seq(BytesOf(s))

\* What the file may hold is made of these.
Bytes == UNION {BytesOf(s) :
                    s \in (Originals \ {Absent})
                            \cup {j.content : j \in {k \in Jobs : k.tool = "file_write"}}
                            \cup {j.new : j \in {k \in Jobs : k.tool = "file_edit"}}}

\* The inputs have the types of the structs they are decoded into, and a file
\* that is there is told from one that is not.
ASSUME FileAssumption ==
    /\ DefaultLimit \in Nat \ {0} /\ MaxLine \in Nat
    /\ \A s \in Originals \ {Absent} : IsText(s)
    /\ Absent \notin Seq(Bytes)
    /\ \A j \in Jobs :
        \/ j.tool = "file_read" /\ j.offset \in Int /\ j.limit \in Int
        \/ j.tool = "file_write" /\ IsText(j.content)
        \/ j.tool = "file_edit" /\ IsText(j.old) /\ IsText(j.new)

VARIABLES
    original,       \* what the file held before the first call
    file,           \* what it holds
    job,            \* the input of each call
    pc,             \* "idle", "called", "scan", "open", "put", "done"
    text,           \* newText or in.Content: what a writer is to put
    pos,            \* the bytes a read has scanned
    lineNum, lines, \* the loop of file_read
    answer,         \* what a call returned
    raced           \* the calls that overlapped a writer

vars == <<original, file, job, pc, text, pos, lineNum, lines, answer, raced>>
loop == <<pos, lineNum, lines>>
locals == <<text, loop>>

NoJob == [tool |-> "none"]
Error == [ok |-> FALSE, lines |-> <<>>]
Success(result) == [ok |-> TRUE, lines |-> result]

----------------------------------------------------------------------------
\* parseInput, requireField and the checks of the inputs: a call without a
\* path stands for every input that is malformed.
Valid(j) ==
    /\ j.path # ""
    /\ j.tool = "file_edit" => j.old # <<>> /\ j.old # j.new

Matches(s, old, i) == SubSeq(s, i, i + Len(old) - 1) = old

BadCount(s, old) ==
    IF \E i \in 1 .. Len(s) - Len(old) + 1 : Matches(s, old, i) THEN 1 ELSE 0

\* strings.Count: after a match the search goes on behind it.
Count(s, old) ==
    LET from[i \in 1 .. Len(s) + 1] ==
            IF i + Len(old) > Len(s) + 1 THEN 0
            ELSE IF Matches(s, old, i) THEN 1 + from[i + Len(old)]
            ELSE from[i + 1]
    IN  from[1]

\* strings.Replace with n = 1.
Replace(s, old, new) ==
    LET from[i \in 1 .. Len(s) + 1] ==
            IF i > Len(s) THEN <<>>
            ELSE IF i + Len(old) <= Len(s) + 1 /\ Matches(s, old, i)
            THEN new \o SubSeq(s, i + Len(old), Len(s))
            ELSE <<s[i]>> \o from[i + 1]
    IN  from[1]

\* What open(2) with O_CREATE|O_TRUNC makes of a file.
BadOpened(s) == s
Opened(s) == <<>>

\* A write(2) at offset 0 of what is there.
BadOverwrite(s, data) == s \o data
Overwrite(s, data) == data \o SubSeq(s, Len(data) + 1, Len(s))

\* bufio.ScanLines: the line that begins at i, and what is dropped of it.
LineEnd(s, i) ==
    CHOOSE e \in i - 1 .. Len(s) :
        /\ e = Len(s) \/ s[e + 1] = NL
        /\ \A k \in i .. e : s[k] # NL
Shown(line) ==
    IF line # <<>> /\ line[Len(line)] = CR THEN SubSeq(line, 1, Len(line) - 1) ELSE line

Limit(c) == IF job[c].limit = 0 THEN DefaultLimit ELSE job[c].limit

Writes(j) == j.tool \in {"file_write", "file_edit"}
Active == {c \in Calls : pc[c] \notin {"idle", "done"}}
Writers == {c \in Active : Writes(job[c])}

----------------------------------------------------------------------------
Init ==
    /\ original \in Originals
    /\ file = original
    /\ job = [c \in Calls |-> NoJob]
    /\ pc = [c \in Calls |-> "idle"]
    /\ text = [c \in Calls |-> <<>>]
    /\ pos = [c \in Calls |-> 0]
    /\ lineNum = [c \in Calls |-> 0]
    /\ lines = [c \in Calls |-> <<>>]
    /\ answer = [c \in Calls |-> Error]
    /\ raced = {}

Return(c, result) ==
    /\ pc' = [pc EXCEPT ![c] = "done"]
    /\ answer' = [answer EXCEPT ![c] = result]

\* Execute is entered; `raced` only records who overlaps whom.
Begin(c, j) ==
    /\ pc[c] = "idle"
    /\ job' = [job EXCEPT ![c] = j]
    /\ pc' = [pc EXCEPT ![c] = IF Valid(j) THEN "called" ELSE "done"]
    /\ raced' = IF ~Valid(j) THEN raced
                ELSE raced \cup (IF Writers # {} THEN {c} ELSE {})
                           \cup (IF Writes(j) THEN Active ELSE {})
    /\ UNCHANGED <<original, file, answer, locals>>

\* file_read: os.Open
OpenRead(c) ==
    /\ pc[c] = "called" /\ job[c].tool = "file_read"
    /\ \/ /\ file # Absent
          /\ pc' = [pc EXCEPT ![c] = "scan"]
          /\ UNCHANGED answer
       \/ Return(c, Error)
    /\ UNCHANGED <<original, file, job, raced, locals>>

\* One turn of `for scanner.Scan()`.  It ends at the end of the file, with the
\* window, or with an error, which a line that does not fit is.
Scan(c) ==
    LET n == lineNum[c] + 1
        end == LineEnd(file, pos[c] + 1)
        line == SubSeq(file, pos[c] + 1, end) IN
    /\ pc[c] = "scan"
    /\ \/ Return(c, Error) /\ UNCHANGED loop
       \/ pos[c] >= Len(file) /\ Return(c, Success(lines[c])) /\ UNCHANGED loop
       \/ /\ pos[c] < Len(file) /\ Len(line) < MaxLine
          /\ pos' = [pos EXCEPT ![c] = IF end < Len(file) THEN end + 1 ELSE end]
          /\ lineNum' = [lineNum EXCEPT ![c] = n]
          /\ \/ /\ n <= job[c].offset
                /\ UNCHANGED <<pc, answer, lines>>
             \/ /\ n > job[c].offset /\ Len(lines[c]) >= Limit(c)
                /\ Return(c, Success(lines[c])) /\ UNCHANGED lines
             \/ /\ n > job[c].offset /\ Len(lines[c]) < Limit(c)
                /\ lines' = [lines EXCEPT ![c] = Append(@, <<n, Shown(line)>>)]
                /\ UNCHANGED <<pc, answer>>
    /\ UNCHANGED <<original, file, job, text, raced>>

\* file_edit: os.ReadFile, strings.Count, strings.Replace.  What is computed
\* from is what the file held here.
ReadFile(c) ==
    LET old == job[c].old IN
    /\ pc[c] = "called" /\ job[c].tool = "file_edit"
    /\ \/ /\ file # Absent /\ Count(file, old) = 1
          /\ text' = [text EXCEPT ![c] = Replace(file, old, job[c].new)]
          /\ pc' = [pc EXCEPT ![c] = "open"]
          /\ UNCHANGED answer
       \/ Return(c, Error) /\ UNCHANGED text
    /\ UNCHANGED <<original, file, job, loop, raced>>

\* file_write: os.MkdirAll
MakeDir(c) ==
    /\ pc[c] = "called" /\ job[c].tool = "file_write"
    /\ \/ /\ pc' = [pc EXCEPT ![c] = "open"]
          /\ text' = [text EXCEPT ![c] = job[c].content]
          /\ UNCHANGED answer
       \/ Return(c, Error) /\ UNCHANGED text
    /\ UNCHANGED <<original, file, job, loop, raced>>

\* os.WriteFile: OpenFile with O_CREATE|O_TRUNC
Truncate(c) ==
    /\ pc[c] = "open"
    /\ \/ /\ file' = Opened(file)
          /\ pc' = [pc EXCEPT ![c] = "put"]
          /\ UNCHANGED answer
       \/ Return(c, Error) /\ UNCHANGED file
    /\ UNCHANGED <<original, job, raced, locals>>

\* os.WriteFile: Write and Close, which may fail with all or less of the text in
\* the file.
Put(c) ==
    /\ pc[c] = "put"
    /\ \/ /\ file' = Overwrite(file, text[c])
          /\ Return(c, Success(<<>>))
       \/ /\ \E n \in 0 .. Len(text[c]) :
                 file' = Overwrite(file, SubSeq(text[c], 1, n))
          /\ Return(c, Error)
    /\ UNCHANGED <<original, job, raced, locals>>

Step(c) ==
    \/ OpenRead(c) \/ Scan(c) \/ ReadFile(c) \/ MakeDir(c)
    \/ Truncate(c) \/ Put(c)

Next == \E c \in Calls : Step(c) \/ \E j \in Jobs : Begin(c, j)

Spec == Init /\ [][Next]_vars

----------------------------------------------------------------------------
\* Types; a file some call has open exists, and a reader has no more lines than
\* it has scanned.
TypeOK ==
    /\ original \in Originals
    /\ file \in Seq(Bytes) \cup {Absent}
    /\ job \in [Calls -> Jobs \cup {NoJob}]
    /\ pc \in [Calls -> {"idle", "called", "scan", "open", "put", "done"}]
    /\ text \in [Calls -> Seq(Bytes)]
    /\ pos \in [Calls -> Nat]
    /\ lineNum \in [Calls -> Nat]
    /\ lines \in [Calls -> Seq(Nat \X Seq(Bytes))]
    /\ answer \in [Calls -> [ok : BOOLEAN, lines : Seq(Nat \X Seq(Bytes))]]
    /\ raced \subseteq Calls
    /\ \A c \in Calls :
        /\ pc[c] \in {"scan", "put"} => file # Absent
        /\ Len(lines[c]) <= lineNum[c]

\* Whatever calls overlap and whichever of them fail, the file holds at each
\* position a byte that one of the writers, or the original file, had there:
\* os.WriteFile never appends and never writes behind a hole.  (Its lines may
\* be lines nobody wrote, and an update may be lost.)
NothingInvented ==
    file # Absent =>
        \A i \in DOMAIN file :
            \/ original # Absent /\ i \in DOMAIN original /\ file[i] = original[i]
            \/ \E c \in Calls : i \in DOMAIN text[c] /\ file[i] = text[c][i]

\* The promise of file_write: "Execute creates or overwrites a file with the
\* given content."  When every call was a file_write and succeeded, the file
\* holds the content of one of them.
WrittenWhole ==
    (\A c \in Calls : pc[c] = "done" /\ answer[c].ok /\ job[c].tool = "file_write")
        => \E c \in Calls : file = job[c].content

----------------------------------------------------------------------------
\* While a writer that met no other is between its two system calls, the file
\* of the specification holds its text already.
Putting == {c \in Calls \ raced : pc[c] = "put"}
Content == IF Putting = {} THEN file ELSE text[CHOOSE c \in Putting : TRUE]

State == [c \in Calls |->
            CASE pc[c] = "idle" -> "idle"
              [] pc[c] \in {"called", "scan", "open"} -> "called"
              [] pc[c] = "put" -> "changed"
              [] OTHER -> "done"]

Store == INSTANCE FileStore WITH content <- Content, state <- State

\* The promise in file_edit's refusal, "provide more context to make it unique":
\* an edit that nobody disturbs is made only if its old_string is at a single
\* place of the file.
EditOnlyUnique ==
    \A c \in Calls \ raced :
        pc[c] = "open" /\ job[c].tool = "file_edit"
            => \E i \in DOMAIN file : Store!Occurrences(file, job[c].old) = {i}

\* A call that overlaps no other writer of its file is atomic and exact: a
\* read that succeeds returns precisely the window asked for, an edit is made
\* only if old_string occurs and no two occurrences are apart, and then replaces
\* the first one alone, an answer of success means the whole text is in, and an
\* error leaves the file as it was or with a beginning of the new text.
KeepsFileStore == Store!Spec
=============================================================================
