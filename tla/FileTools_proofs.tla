--------------------------- MODULE FileTools_proofs ---------------------------
(***************************************************************************)
(* Proofs about FileTools, for any number of calls, any inputs and texts   *)
(* of any length.                                                          *)
(***************************************************************************)
EXTENDS FileTexts_proofs

\* The window a read is asked for: the lines before it, and how many of it.
First(j) == IF j.offset > 0 THEN j.offset ELSE 0
Wanted(j) == IF j.limit = 0 THEN DefaultLimit ELSE IF j.limit > 0 THEN j.limit ELSE 0

\* What the position of a call says of its input and locals.
Shape(c) ==
    /\ c \in Active => job[c] \in Jobs /\ Valid(job[c])
    /\ pc[c] \in {"idle", "called"} => pos[c] = 0 /\ lineNum[c] = 0 /\ lines[c] = <<>>
    /\ pc[c] \in {"idle", "called", "scan"} => text[c] = <<>>
    /\ pc[c] = "scan" => job[c].tool = "file_read"
    /\ pc[c] \in {"open", "put"} => Writes(job[c])

\* Who overlaps a writer has a mark.
WritersRace ==
    \A c \in Writers, d \in Active : c # d => d \in raced

\* An undisturbed read has gathered what it has scanned of its window, from the
\* file as it still is.
Reading(c) ==
    c \notin raced /\ pc[c] = "scan" =>
        /\ pos[c] <= Len(file)
        /\ pos[c] = 0 \/ pos[c] = Len(file) \/ file[pos[c]] = NL
        /\ lineNum[c] = Store!Number(file, pos[c])
        /\ \A n \in 1 .. lineNum[c] : ~ (Len(Store!Line(file, n)) >= MaxLine)
        /\ Len(lines[c]) = IF lineNum[c] > First(job[c])
                           THEN lineNum[c] - First(job[c]) ELSE 0
        /\ Len(lines[c]) <= Wanted(job[c])
        /\ \A k \in 1 .. Len(lines[c]) :
              lines[c][k] = <<First(job[c]) + k, Shown(Store!Line(file, First(job[c]) + k))>>

\* An undisturbed writer is to put what its input makes of the file as it still
\* is; once it has opened the file, nothing is in it.
Writing(c) ==
    c \notin raced =>
        /\ pc[c] = "open" /\ job[c].tool = "file_write" => text[c] = job[c].content
        /\ pc[c] = "open" /\ job[c].tool = "file_edit" =>
              /\ Store!Editable(file, job[c].old)
              /\ text[c] = Store!Edited(file, job[c].old, job[c].new)
        /\ pc[c] = "put" => file = <<>>

Inv ==
    /\ TypeOK
    /\ WritersRace
    /\ \A c \in Calls : Shape(c) /\ Reading(c) /\ Writing(c)

----------------------------------------------------------------------------
\* What the assumption says of each input.
LEMMA Inputs ==
    /\ \A s \in Originals \ {Absent} : s \in Seq(Bytes)
    /\ \A j \in Jobs :
        /\ j.tool \in {"file_read", "file_write", "file_edit"}
        /\ j.tool = "file_read" => j.offset \in Int /\ j.limit \in Int
        /\ j.tool = "file_write" => j.content \in Seq(Bytes)
        /\ j.tool = "file_edit" => j.new \in Seq(Bytes) /\ j.old \in Seq(BytesOf(j.old))
    /\ DefaultLimit \in Nat \ {0} /\ MaxLine \in Nat
    /\ Absent \notin Seq(Bytes)
<1> DEFINE Sources == (Originals \ {Absent})
                            \cup {j.content : j \in {k \in Jobs : k.tool = "file_write"}}
                            \cup {j.new : j \in {k \in Jobs : k.tool = "file_edit"}}
<1>1. Bytes = UNION {BytesOf(s) : s \in Sources}
  BY DEF Bytes
<1>2. ASSUME NEW s \in Sources, IsText(s) PROVE s \in Seq(Bytes)
  <2>1. BytesOf(s) \subseteq Bytes
    <3> HIDE DEF Sources
    <3> QED BY <1>1
  <2>2. s \in Seq(BytesOf(s))
    BY <1>2 DEF IsText
  <2> QED BY <2>1, <2>2, SeqMonotonic
<1>3. ASSUME NEW s \in Originals \ {Absent} PROVE s \in Seq(Bytes)
  BY <1>2, FileAssumption
<1>4. ASSUME NEW j \in Jobs, j.tool = "file_write" PROVE j.content \in Seq(Bytes)
  <2>1. j.content \in Sources /\ IsText(j.content)
    BY <1>4, FileAssumption
  <2> QED BY <1>2, <2>1
<1>5. ASSUME NEW j \in Jobs, j.tool = "file_edit"
      PROVE  j.new \in Seq(Bytes) /\ j.old \in Seq(BytesOf(j.old))
  <2>1. j.new \in Sources /\ IsText(j.new) /\ IsText(j.old)
    BY <1>5, FileAssumption
  <2> QED BY <1>2, <2>1 DEF IsText
<1> QED BY <1>3, <1>4, <1>5, FileAssumption

\* A step of one call leaves the others as they are.
Elsewhere(c) ==
    \A d \in Calls : d # c =>
        /\ job'[d] = job[d] /\ pc'[d] = pc[d] /\ text'[d] = text[d]
        /\ pos'[d] = pos[d] /\ lineNum'[d] = lineNum[d] /\ lines'[d] = lines[d] /\ answer'[d] = answer[d]

\* Both kinds of step are of one call.
LEMMA Frame ==
    ASSUME TypeOK, NEW c \in Calls, Step(c) \/ (\E j \in Jobs : Begin(c, j))
    PROVE  Elsewhere(c)
<1> USE DEF TypeOK, Elsewhere, Return, locals, loop
<1>1. CASE OpenRead(c)
  BY <1>1 DEF OpenRead
<1>2. CASE Scan(c)
  BY <1>2 DEF Scan
<1>3. CASE ReadFile(c)
  BY <1>3 DEF ReadFile
<1>4. CASE MakeDir(c)
  BY <1>4 DEF MakeDir
<1>5. CASE Truncate(c)
  BY <1>5 DEF Truncate
<1>6. CASE Put(c)
  BY <1>6 DEF Put
<1>7. CASE \E j \in Jobs : Begin(c, j)
  BY <1>7 DEF Begin
<1> QED BY <1>1, <1>2, <1>3, <1>4, <1>5, <1>6, <1>7 DEF Step

\* An answer has its type.
LEMMA AnswerTyped ==
    ASSUME TypeOK, NEW c \in Calls, NEW a \in Seq(Nat \X Seq(Bytes)),
           \/ answer' = answer
           \/ answer' = [answer EXCEPT ![c] = Error]
           \/ answer' = [answer EXCEPT ![c] = Success(a)]
    PROVE  answer' \in [Calls -> [ok : BOOLEAN, lines : Seq(Nat \X Seq(Bytes))]]
<1> DEFINE AnswerType == [ok : BOOLEAN, lines : Seq(Nat \X Seq(Bytes))]
<1>1. Error \in AnswerType /\ Success(a) \in AnswerType
  <2>1. <<>> \in Seq(Nat \X Seq(Bytes))
    BY EmptySeq
  <2> QED BY <2>1 DEF Error, Success
<1>2. answer \in [Calls -> AnswerType]
  BY DEF TypeOK
<1> HIDE DEF AnswerType
<1>3. answer' \in [Calls -> AnswerType]
  BY <1>1, <1>2
<1> QED BY <1>3 DEF AnswerType

\* What a step has to show: only its own call, because it changes the file under
\* nobody who is undisturbed.
LEMMA StepKeeps ==
    ASSUME Inv, TypeOK', NEW c \in Calls, Elsewhere(c), job' = job, raced' = raced,
           c \in Active, file' = file \/ Writes(job[c]),
           Shape(c)', Reading(c)', Writing(c)'
    PROVE  Inv'
<1>0. TypeOK /\ WritersRace /\ \A d \in Calls : Shape(d) /\ Reading(d) /\ Writing(d)
  BY DEF Inv
<1>1. WritersRace'
  BY <1>0 DEF WritersRace, Writers, Active, Elsewhere
<1>2. ASSUME NEW d \in Calls, d # c
      PROVE  Shape(d)' /\ Reading(d)' /\ Writing(d)'
  <2>1. /\ job'[d] = job[d] /\ pc'[d] = pc[d] /\ text'[d] = text[d]
        /\ pos'[d] = pos[d] /\ lineNum'[d] = lineNum[d] /\ lines'[d] = lines[d]
    BY <1>2 DEF Elsewhere
  <2>2. Shape(d) /\ Reading(d) /\ Writing(d)
    BY <1>0
  <2>3. d \in Active /\ d \notin raced => file' = file
    BY <1>0, <1>2 DEF WritersRace, Writers
  <2>4. Shape(d)'
    BY <2>1, <2>2 DEF Shape, Active
  <2>5. Reading(d)'
    <3>1. pc[d] = "scan" => d \in Active
      BY DEF Active
    <3> QED BY <2>1, <2>2, <2>3, <3>1 DEF Reading
  <2>6. Writing(d)'
    <3>1. pc[d] \in {"open", "put"} => d \in Active
      BY DEF Active
    <3> QED BY <2>1, <2>2, <2>3, <3>1 DEF Writing
  <2> QED BY <2>4, <2>5, <2>6
<1> QED BY <1>1, <1>2 DEF Inv

\* The invariant holds of the first state.
LEMMA Initially == Init => Inv
<1> SUFFICES ASSUME Init PROVE Inv
  OBVIOUS
<1>1. TypeOK
  <2>1. original \in Seq(Bytes) \cup {Absent}
    BY Inputs DEF Init
  <2>2. Error \in [ok : BOOLEAN, lines : Seq(Nat \X Seq(Bytes))]
    BY DEF Error
  <2> QED BY <2>1, <2>2 DEF Init, TypeOK
<1> QED BY <1>1 DEF Init, Inv, WritersRace, Writers, Active, Shape, Reading, Writing

\* A call that begins marks itself and the others if one of them writes.
LEMMA BeginKeeps ==
    ASSUME Inv, NEW c \in Calls, NEW j \in Jobs, Begin(c, j)
    PROVE  Inv'
<1>0. TypeOK /\ WritersRace /\ \A d \in Calls : Shape(d) /\ Reading(d) /\ Writing(d)
  BY DEF Inv
<1>1. /\ pc[c] = "idle" /\ job'[c] = j /\ pc'[c] = IF Valid(j) THEN "called" ELSE "done"
      /\ file' = file /\ original' = original /\ answer' = answer /\ text' = text
      /\ pos' = pos /\ lineNum' = lineNum /\ lines' = lines
      /\ Elsewhere(c)
  BY <1>0, Frame DEF Begin, TypeOK, locals, loop
<1>2. TypeOK'
  BY <1>0, <1>1 DEF TypeOK, Begin, Active
<1>3. /\ \A d \in Calls : d # c => (d \in Active' <=> d \in Active)
      /\ c \in Active' <=> Valid(j)
      /\ c \notin Active
      /\ raced \subseteq raced'
  BY <1>1 DEF Active, Elsewhere, Begin
<1>4. WritersRace'
  <2> SUFFICES ASSUME NEW d \in Writers', NEW e \in Active', d # e
               PROVE  e \in raced'
    BY DEF WritersRace
  <2>1. d \in Calls /\ e \in Calls /\ d \in Active' /\ Writes(job'[d])
    BY DEF Writers, Active
  <2>2. CASE d # c /\ e # c
    <3>1. d \in Writers /\ e \in Active
      BY <1>1, <1>3, <2>1, <2>2 DEF Writers, Elsewhere
    <3> QED BY <1>0, <1>3, <2>2, <3>1 DEF WritersRace
  <2>3. CASE d = c
    <3>1. Valid(j) /\ Writes(j) /\ e \in Active
      BY <1>1, <1>3, <2>1, <2>3
    <3> QED BY <3>1 DEF Begin
  <2>4. CASE e = c
    <3>1. Valid(j) /\ d \in Writers
      BY <1>1, <1>3, <2>1, <2>4 DEF Writers, Elsewhere
    <3> QED BY <2>4, <3>1 DEF Begin
  <2> QED BY <2>2, <2>3, <2>4
<1>5. ASSUME NEW d \in Calls PROVE Shape(d)' /\ Reading(d)' /\ Writing(d)'
  <2>1. CASE d = c
    BY <1>0, <1>1, <2>1 DEF Shape, Reading, Writing, Active
  <2>2. CASE d # c
    <3>1. /\ job'[d] = job[d] /\ pc'[d] = pc[d] /\ text'[d] = text[d]
          /\ pos'[d] = pos[d] /\ lineNum'[d] = lineNum[d] /\ lines'[d] = lines[d]
      BY <1>1, <2>2 DEF Elsewhere
    <3>2. d \notin raced' => d \notin raced
      BY <1>3
    <3>3. Shape(d)'
      BY <1>0, <3>1 DEF Shape, Active
    <3>4. Reading(d)'
      BY <1>0, <1>1, <3>1, <3>2 DEF Reading
    <3>5. Writing(d)'
      BY <1>0, <1>1, <3>1, <3>2 DEF Writing
    <3> QED BY <3>3, <3>4, <3>5
  <2> QED BY <2>1, <2>2
<1> QED BY <1>2, <1>4, <1>5 DEF Inv

\* A read that has opened the file has gathered nothing.
LEMMA OpenReadKeeps ==
    ASSUME Inv, NEW c \in Calls, OpenRead(c)
    PROVE  Inv'
<1>0. TypeOK /\ Shape(c) /\ Writing(c)
  BY DEF Inv
<1>1. /\ pc[c] = "called" /\ job[c].tool = "file_read" /\ c \in Active
      /\ file' = file /\ job' = job /\ raced' = raced /\ original' = original
      /\ text' = text /\ pos' = pos /\ lineNum' = lineNum /\ lines' = lines
      /\ Elsewhere(c)
      /\ pc'[c] = "done" \/ (pc'[c] = "scan" /\ file # Absent)
  BY <1>0, Frame DEF OpenRead, Return, Active, locals, loop, TypeOK, Step
<1>2. TypeOK'
  <2>1. answer' = answer \/ answer' = [answer EXCEPT ![c] = Error]
    BY DEF OpenRead, Return
  <2>2. answer' \in [Calls -> [ok : BOOLEAN, lines : Seq(Nat \X Seq(Bytes))]]
    BY <1>0, <2>1, EmptySeq, AnswerTyped
  <2>3. pc' \in [Calls -> {"idle", "called", "scan", "open", "put", "done"}]
    BY <1>0 DEF OpenRead, Return, TypeOK
  <2>4. \A d \in Calls : pc'[d] \in {"scan", "put"} => file # Absent
    BY <1>0, <1>1 DEF TypeOK, Elsewhere
  <2> QED BY <1>0, <1>1, <2>2, <2>3, <2>4 DEF TypeOK
<1>3. Shape(c)'
  BY <1>0, <1>1 DEF Shape, Active
<1>4. Reading(c)'
  <2>1. pc'[c] = "scan" => file \in Seq(Bytes)
    BY <1>0, <1>1 DEF TypeOK
  <2>2. First(job[c]) \in Nat /\ Wanted(job[c]) \in Nat
    BY <1>0, <1>1, Inputs DEF First, Wanted, Shape
  <2>3. pos[c] = 0 /\ lineNum[c] = 0 /\ lines[c] = <<>>
    BY <1>0, <1>1 DEF Shape
  <2>4. pc'[c] = "scan" => Len(file) \in Nat /\ Store!Number(file, 0) = 0
    BY <2>1, LenProperties, NumberFacts
  <2>5. Len(lines[c]) = 0
    BY <2>3
  <2> QED BY <1>1, <2>2, <2>3, <2>4, <2>5 DEF Reading
<1>5. Writing(c)'
  BY <1>1 DEF Writing
<1> QED BY <1>1, <1>2, <1>3, <1>4, <1>5, StepKeeps

\* What a turn of the loop may come to: an error, the end of the file, the end
\* of the window, a line before the window, or one of it.
LineEndsAt(c) == LineEnd(file, pos[c] + 1)
ThisLine(c) == SubSeq(file, pos[c] + 1, LineEndsAt(c))

MovesOn(c) ==
    /\ pos[c] < Len(file) /\ Len(ThisLine(c)) < MaxLine
    /\ pos' = [pos EXCEPT ![c] = IF LineEndsAt(c) < Len(file) THEN LineEndsAt(c) + 1
                                 ELSE LineEndsAt(c)]
    /\ lineNum' = [lineNum EXCEPT ![c] = lineNum[c] + 1]

ScanFails(c) ==
    Return(c, Error) /\ pos' = pos /\ lineNum' = lineNum /\ lines' = lines

ScanAtEnd(c) ==
    /\ Return(c, Success(lines[c])) /\ pos' = pos /\ lineNum' = lineNum /\ lines' = lines
    /\ pos[c] >= Len(file)

ScanHasAll(c) ==
    /\ MovesOn(c) /\ Return(c, Success(lines[c])) /\ lines' = lines
    /\ lineNum[c] + 1 > job[c].offset /\ Len(lines[c]) >= Limit(c)

ScanSkips(c) ==
    /\ MovesOn(c) /\ pc' = pc /\ answer' = answer /\ lines' = lines
    /\ lineNum[c] + 1 <= job[c].offset

ScanTakes(c) ==
    /\ MovesOn(c) /\ pc' = pc /\ answer' = answer
    /\ lineNum[c] + 1 > job[c].offset /\ Len(lines[c]) < Limit(c)
    /\ lines' = [lines EXCEPT ![c] = Append(@, <<lineNum[c] + 1, Shown(ThisLine(c))>>)]

ScanEnds(c) == ScanAtEnd(c) \/ ScanHasAll(c)

\* The ways a turn of the loop of file_read can go.
LEMMA ScanCases ==
    ASSUME Inv, NEW c \in Calls, Scan(c)
    PROVE  /\ ScanEnds(c) \/ ScanFails(c) \/ ScanSkips(c) \/ ScanTakes(c)
           /\ pc[c] = "scan" /\ job[c].tool = "file_read" /\ c \in Active
           /\ job[c] \in Jobs /\ job[c].offset \in Int /\ job[c].limit \in Int
           /\ file \in Seq(Bytes) /\ Len(file) \in Nat /\ lineNum[c] \in Nat /\ pos[c] \in Nat
           /\ lines[c] \in Seq(Nat \X Seq(Bytes)) /\ Len(lines[c]) <= lineNum[c]
           /\ file' = file /\ job' = job /\ raced' = raced /\ original' = original
           /\ text' = text
           /\ Elsewhere(c)
<1>0. TypeOK /\ Shape(c)
  BY DEF Inv
<1>1. /\ pc[c] = "scan" /\ job[c].tool = "file_read" /\ c \in Active
      /\ job[c] \in Jobs
  BY <1>0 DEF Scan, Shape, Active
<1>2. file \in Seq(Bytes) /\ Len(file) \in Nat /\ lineNum[c] \in Nat /\ pos[c] \in Nat
  BY <1>0, <1>1 DEF TypeOK
<1>3. ScanEnds(c) \/ ScanFails(c) \/ ScanSkips(c) \/ ScanTakes(c)
  BY DEF Scan, ScanEnds, ScanAtEnd, ScanHasAll, ScanFails, ScanSkips, ScanTakes, MovesOn,
         ThisLine, LineEndsAt, loop
<1>4. Elsewhere(c)
  BY <1>0, Frame DEF Step
<1>5. job[c].offset \in Int /\ job[c].limit \in Int
  BY <1>1, Inputs
<1>6. lines[c] \in Seq(Nat \X Seq(Bytes)) /\ Len(lines[c]) <= lineNum[c]
  BY <1>0 DEF TypeOK
<1> QED BY <1>1, <1>2, <1>3, <1>4, <1>5, <1>6 DEF Scan

\* A turn of the loop keeps types.
LEMMA ScanKeepsTypes ==
    ASSUME Inv, NEW c \in Calls, Scan(c)
    PROVE  /\ TypeOK'
           /\ pc'[c] = IF ScanEnds(c) \/ ScanFails(c) THEN "done" ELSE "scan"
           /\ ScanTakes(c) =>
                 /\ Len(lines'[c]) = Len(lines[c]) + 1
                 /\ \A k \in 1 .. Len(lines[c]) : lines'[c][k] = lines[c][k]
                 /\ lines'[c][Len(lines[c]) + 1] = <<lineNum[c] + 1, Shown(ThisLine(c))>>
<1>0. TypeOK
  BY DEF Inv
<1> DEFINE n == lineNum[c] + 1
           Taken == <<n, Shown(ThisLine(c))>>
<1>1. /\ pc[c] = "scan" /\ file \in Seq(Bytes) /\ Len(file) \in Nat
      /\ lineNum[c] \in Nat /\ pos[c] \in Nat
      /\ lines[c] \in Seq(Nat \X Seq(Bytes)) /\ Len(lines[c]) <= lineNum[c]
      /\ file' = file /\ job' = job /\ raced' = raced /\ original' = original
      /\ text' = text /\ Elsewhere(c)
  BY ScanCases
<1>2. ScanAtEnd(c) \/ ScanHasAll(c) \/ ScanFails(c) \/ ScanSkips(c) \/ ScanTakes(c)
  BY ScanCases DEF ScanEnds
<1>3. MovesOn(c) => /\ LineEndsAt(c) \in Nat
                    /\ pos' \in [Calls -> Nat] /\ lineNum' \in [Calls -> Nat]
                    /\ lineNum'[c] = n
  <2> SUFFICES ASSUME MovesOn(c)
               PROVE  /\ LineEndsAt(c) \in Nat
                      /\ pos' \in [Calls -> Nat] /\ lineNum' \in [Calls -> Nat]
                      /\ lineNum'[c] = n
    OBVIOUS
  <2>1. LineEndsAt(c) \in Nat
    <3>1. pos[c] + 1 \in 1 .. Len(file) + 1
      BY <1>1 DEF MovesOn
    <3>2. LineEnd(file, pos[c] + 1) \in (pos[c] + 1) - 1 .. Len(file)
      BY <1>1, <3>1, LineEndFacts
    <3> QED BY <1>1, <3>2 DEF LineEndsAt
  <2> QED BY <1>0, <1>1, <2>1 DEF MovesOn, TypeOK
<1>4. pos' \in [Calls -> Nat] /\ lineNum' \in [Calls -> Nat] /\ lineNum'[c] >= lineNum[c]
  <2>1. CASE MovesOn(c)
    BY <1>1, <1>3, <2>1
  <2>2. CASE ~MovesOn(c)
    BY <1>0, <1>1, <1>2, <2>2
       DEF ScanAtEnd, ScanHasAll, ScanFails, ScanSkips, ScanTakes, TypeOK
  <2> QED BY <2>1, <2>2
<1>5. ScanTakes(c) => Taken \in Nat \X Seq(Bytes)
  <2> SUFFICES ASSUME ScanTakes(c) PROVE Taken \in Nat \X Seq(Bytes)
    OBVIOUS
  <2>1. Shown(ThisLine(c)) \in Seq(Bytes)
    BY <1>1, LineIsText DEF ScanTakes, MovesOn, ThisLine, LineEndsAt
  <2> QED BY <1>1, <2>1
<1>6. ScanTakes(c) => lines'[c] = Append(lines[c], Taken)
  BY <1>0 DEF ScanTakes, TypeOK
<1> HIDE DEF Taken
<1>7. ScanTakes(c) =>
         /\ lines'[c] \in Seq(Nat \X Seq(Bytes))
         /\ Len(lines'[c]) = Len(lines[c]) + 1
         /\ \A k \in 1 .. Len(lines[c]) : lines'[c][k] = lines[c][k]
         /\ lines'[c][Len(lines[c]) + 1] = Taken
  <2> SUFFICES ASSUME ScanTakes(c)
               PROVE  /\ lines'[c] \in Seq(Nat \X Seq(Bytes))
                      /\ Len(lines'[c]) = Len(lines[c]) + 1
                      /\ \A k \in 1 .. Len(lines[c]) : lines'[c][k] = lines[c][k]
                      /\ lines'[c][Len(lines[c]) + 1] = Taken
    OBVIOUS
  <2> DEFINE T == Nat \X Seq(Bytes)
  <2>1. lines[c] \in Seq(T) /\ Taken \in T /\ lines'[c] = Append(lines[c], Taken)
    BY <1>1, <1>5, <1>6
  <2> HIDE DEF T
  <2>2. /\ lines'[c] \in Seq(T)
        /\ Len(lines'[c]) = Len(lines[c]) + 1
        /\ \A k \in 1 .. Len(lines[c]) : lines'[c][k] = lines[c][k]
        /\ lines'[c][Len(lines[c]) + 1] = Taken
    BY <2>1, AppendProperties
  <2> QED BY <2>2 DEF T
<1>8. ~ScanTakes(c) => lines' = lines
  BY <1>2 DEF ScanAtEnd, ScanHasAll, ScanFails, ScanSkips
<1>9. lines' \in [Calls -> Seq(Nat \X Seq(Bytes))]
  <2>1. lines' = [lines EXCEPT ![c] = lines'[c]]
    BY <1>0, <1>8 DEF ScanTakes, TypeOK
  <2>2. lines'[c] \in Seq(Nat \X Seq(Bytes))
    BY <1>1, <1>7, <1>8
  <2> QED BY <1>0, <2>1, <2>2 DEF TypeOK
<1>10. \A d \in Calls : Len(lines'[d]) <= lineNum'[d]
  <2>1. Len(lines'[c]) <= lineNum'[c]
    <3>1. Len(lines[c]) \in Nat
      BY <1>1, LenProperties
    <3>2. CASE ScanTakes(c)
      <4>1. lineNum'[c] = n
        BY <1>3, <3>2 DEF ScanTakes
      <4> QED BY <1>1, <1>7, <3>1, <3>2, <4>1
    <3>3. CASE ~ScanTakes(c)
      BY <1>1, <1>4, <1>8, <3>1, <3>3
    <3> QED BY <3>2, <3>3
  <2> QED BY <1>0, <1>1, <2>1 DEF Elsewhere, TypeOK
<1>11. answer' = answer \/ answer' = [answer EXCEPT ![c] = Error]
       \/ answer' = [answer EXCEPT ![c] = Success(lines[c])]
  BY <1>2 DEF ScanAtEnd, ScanHasAll, ScanFails, ScanSkips, ScanTakes, Return
<1>12. answer' \in [Calls -> [ok : BOOLEAN, lines : Seq(Nat \X Seq(Bytes))]]
  BY <1>0, <1>1, <1>11, AnswerTyped
<1>13. pc' = [pc EXCEPT ![c] = IF ScanEnds(c) \/ ScanFails(c) THEN "done" ELSE "scan"]
  <2>1. ScanEnds(c) \/ ScanFails(c) => pc' = [pc EXCEPT ![c] = "done"]
    BY DEF ScanEnds, ScanAtEnd, ScanHasAll, ScanFails, Return
  <2>2. ~ (ScanEnds(c) \/ ScanFails(c)) => pc' = pc
    BY <1>2 DEF ScanEnds, ScanSkips, ScanTakes
  <2> QED BY <1>0, <1>1, <2>1, <2>2 DEF TypeOK
<1>14. /\ pc' \in [Calls -> {"idle", "called", "scan", "open", "put", "done"}]
       /\ pc'[c] = IF ScanEnds(c) \/ ScanFails(c) THEN "done" ELSE "scan"
  BY <1>0, <1>13 DEF TypeOK
<1>15. TypeOK'
  <2>1. file # Absent
    BY <1>0, <1>1 DEF TypeOK
  <2> QED BY <1>0, <1>1, <1>4, <1>9, <1>10, <1>12, <1>14, <2>1 DEF TypeOK
<1> QED BY <1>7, <1>14, <1>15 DEF Taken

\* What an undisturbed read finds behind the lines it has scanned.
LEMMA MovesOnFacts ==
    ASSUME Inv, NEW c \in Calls, c \notin raced, Scan(c), MovesOn(c)
    PROVE  /\ pos'[c] \in Nat /\ pos'[c] <= Len(file)
           /\ pos'[c] = 0 \/ pos'[c] = Len(file) \/ file[pos'[c]] = NL
           /\ lineNum'[c] = lineNum[c] + 1
           /\ lineNum'[c] = Store!Number(file, pos'[c])
           /\ ThisLine(c) = Store!Line(file, lineNum[c] + 1)
           /\ \A i \in 1 .. lineNum[c] + 1 : ~ (Len(Store!Line(file, i)) >= MaxLine)
<1>0. TypeOK /\ Reading(c)
  BY DEF Inv
<1> DEFINE p == pos[c]
           e == LineEnd(file, p + 1)
           q == IF e < Len(file) THEN e + 1 ELSE e
<1>1. /\ pc[c] = "scan" /\ file \in Seq(Bytes) /\ Len(file) \in Nat
      /\ lineNum[c] \in Nat /\ p \in Nat
  BY ScanCases
<1>2. /\ p < Len(file) /\ Len(ThisLine(c)) < MaxLine
      /\ ThisLine(c) = SubSeq(file, p + 1, e)
      /\ pos'[c] = q /\ lineNum'[c] = lineNum[c] + 1
  BY <1>0 DEF MovesOn, ThisLine, LineEndsAt, TypeOK
<1>3. /\ p = 0 \/ file[p] = NL
      /\ lineNum[c] = Store!Number(file, p)
      /\ \A i \in 1 .. lineNum[c] : ~ (Len(Store!Line(file, i)) >= MaxLine)
  BY <1>0, <1>1, <1>2 DEF Reading
<1> HIDE DEF p
<1>4. /\ q \in Nat /\ q <= Len(file)
      /\ q = Len(file) \/ file[q] = NL
      /\ Store!Number(file, q) = Store!Number(file, p) + 1
      /\ Store!Line(file, Store!Number(file, q)) = SubSeq(file, p + 1, e)
  BY <1>1, <1>2, <1>3, NextLine
<1> HIDE DEF q, e
<1>5. ThisLine(c) = Store!Line(file, lineNum[c] + 1)
  BY <1>2, <1>3, <1>4
<1>6. ASSUME NEW i \in 1 .. lineNum[c] + 1 PROVE ~ (Len(Store!Line(file, i)) >= MaxLine)
  <2>1. CASE i = lineNum[c] + 1
    <3>1. Len(ThisLine(c)) \in Nat /\ MaxLine \in Nat
      <4>1. ThisLine(c) \in Seq(Bytes)
        BY <1>1, <1>2, LineIsText DEF e, p
      <4> QED BY <4>1, LenProperties, Inputs
    <3>2. Store!Line(file, i) = ThisLine(c)
      BY <1>5, <2>1
    <3>3. ~ (Len(ThisLine(c)) >= MaxLine)
      <4> DEFINE length == Len(ThisLine(c))
      <4>1. length < MaxLine /\ length \in Nat /\ MaxLine \in Nat
        BY <1>2, <3>1
      <4> HIDE DEF length
      <4>2. ~ (length >= MaxLine)
        BY <4>1
      <4> QED BY <4>2 DEF length
    <3> QED BY <3>2, <3>3
  <2>2. CASE i # lineNum[c] + 1
    <3>1. i \in 1 .. lineNum[c]
      BY <1>1, <2>2
    <3> QED BY <1>3, <3>1
  <2> QED BY <2>1, <2>2
<1> QED BY <1>2, <1>3, <1>4, <1>5, <1>6

\* A turn of the loop gathers the next line of the window, or ends the read.
LEMMA ScanKeeps ==
    ASSUME Inv, NEW c \in Calls, Scan(c)
    PROVE  Inv'
<1>0. TypeOK /\ Shape(c) /\ Reading(c) /\ Writing(c)
  BY DEF Inv
<1> DEFINE n == lineNum[c] + 1
<1>1. /\ pc[c] = "scan" /\ job[c].tool = "file_read" /\ c \in Active
      /\ job[c] \in Jobs /\ job[c].offset \in Int /\ job[c].limit \in Int
      /\ file \in Seq(Bytes) /\ Len(file) \in Nat /\ lineNum[c] \in Nat
      /\ lines[c] \in Seq(Nat \X Seq(Bytes)) /\ Len(lines[c]) <= lineNum[c]
      /\ file' = file /\ job' = job /\ raced' = raced /\ original' = original
      /\ text' = text
      /\ Elsewhere(c)
  BY ScanCases
<1>2. ScanEnds(c) \/ ScanFails(c) \/ ScanSkips(c) \/ ScanTakes(c)
  BY ScanCases
<1>3. /\ TypeOK'
      /\ pc'[c] = IF ScanEnds(c) \/ ScanFails(c) THEN "done" ELSE "scan"
      /\ ScanTakes(c) =>
            /\ Len(lines'[c]) = Len(lines[c]) + 1
            /\ \A k \in 1 .. Len(lines[c]) : lines'[c][k] = lines[c][k]
            /\ lines'[c][Len(lines[c]) + 1] = <<n, Shown(ThisLine(c))>>
  BY ScanKeepsTypes
<1>7. Shape(c)'
  BY <1>0, <1>1, <1>3 DEF Shape, Active
<1>8. Reading(c)'
  <2> SUFFICES ASSUME c \notin raced, pc'[c] = "scan"
               PROVE  Reading(c)'
    BY <1>1 DEF Reading
  <2> DEFINE F == First(job[c])
             W == Wanted(job[c])
  <2>1. /\ Len(lines[c]) = IF lineNum[c] > F THEN lineNum[c] - F ELSE 0
        /\ Len(lines[c]) <= W
        /\ \A k \in 1 .. Len(lines[c]) :
              lines[c][k] = <<F + k, Shown(Store!Line(file, F + k))>>
    BY <1>0, <1>1 DEF Reading
  <2>2. F \in Nat /\ W \in Nat /\ Len(lines[c]) \in Nat
    BY <1>1, Inputs DEF First, Wanted
  <2>3. (ScanSkips(c) \/ ScanTakes(c)) /\ MovesOn(c)
    BY <1>2, <1>3 DEF ScanSkips, ScanTakes
  <2>4. /\ pos'[c] <= Len(file)
        /\ pos'[c] = 0 \/ pos'[c] = Len(file) \/ file[pos'[c]] = NL
        /\ lineNum'[c] = n
        /\ lineNum'[c] = Store!Number(file, pos'[c])
        /\ ThisLine(c) = Store!Line(file, n)
        /\ \A i \in 1 .. n : ~ (Len(Store!Line(file, i)) >= MaxLine)
    BY <2>3, MovesOnFacts
  <2>5. /\ Len(lines'[c]) = IF n > F THEN n - F ELSE 0
        /\ Len(lines'[c]) <= W
        /\ \A k \in 1 .. Len(lines'[c]) :
              lines'[c][k] = <<F + k, Shown(Store!Line(file, F + k))>>
    <3>1. CASE ScanSkips(c)
      <4>1. n <= F
        BY <1>1, <3>1 DEF ScanSkips, First
      <4>2. lines'[c] = lines[c]
        BY <3>1 DEF ScanSkips
      <4> HIDE DEF F, W
      <4>3. Len(lines[c]) = 0
        BY <1>1, <2>1, <2>2, <4>1
      <4> QED BY <1>1, <2>1, <2>2, <4>1, <4>2, <4>3
    <3>2. CASE ScanTakes(c)
      <4>1. n > F
        BY <1>1, <3>2 DEF ScanTakes, First
      <4>2. Len(lines[c]) < W
        BY <1>1, <2>2, <3>2, Inputs DEF ScanTakes, Limit, Wanted
      <4> HIDE DEF F, W
      <4>3. Len(lines[c]) = lineNum[c] - F
        BY <1>1, <2>1, <2>2, <4>1
      <4>4. n = F + (Len(lines[c]) + 1)
        BY <1>1, <2>2, <4>3
      <4>5. Len(lines'[c]) = IF n > F THEN n - F ELSE 0
        BY <1>1, <1>3, <2>2, <3>2, <4>1, <4>4
      <4>6. Len(lines'[c]) <= W
        BY <1>3, <2>2, <3>2, <4>2
      <4>7. ASSUME NEW k \in 1 .. Len(lines'[c])
            PROVE  lines'[c][k] = <<F + k, Shown(Store!Line(file, F + k))>>
        <5>1. CASE k = Len(lines[c]) + 1
          <6>1. lines'[c][k] = <<n, Shown(Store!Line(file, n))>>
            BY <1>3, <2>4, <3>2, <5>1
          <6> QED BY <4>4, <5>1, <6>1
        <5>2. CASE k # Len(lines[c]) + 1
          <6>1. k \in 1 .. Len(lines[c])
            BY <1>3, <2>2, <3>2, <5>2
          <6> QED BY <1>3, <2>1, <3>2, <6>1
        <5> QED BY <5>1, <5>2
      <4> QED BY <4>5, <4>6, <4>7
    <3> QED BY <2>3, <3>1, <3>2
  <2> HIDE DEF n
  <2> QED BY <1>1, <2>4, <2>5 DEF Reading
<1>9. Writing(c)'
  BY <1>3 DEF Writing
<1> QED BY <1>1, <1>3, <1>7, <1>8, <1>9, StepKeeps

\* file_edit goes on when FileStore finds its input editable.
LEMMA ReadFileKeeps ==
    ASSUME Inv, NEW c \in Calls, ReadFile(c)
    PROVE  Inv'
<1>0. TypeOK /\ Shape(c)
  BY DEF Inv
<1> DEFINE old == job[c].old
           new == job[c].new
           Accepted == pc'[c] = "open"
<1>1. /\ pc[c] = "called" /\ job[c].tool = "file_edit" /\ c \in Active
      /\ job[c] \in Jobs /\ Valid(job[c])
      /\ file' = file /\ job' = job /\ raced' = raced /\ original' = original
      /\ pos' = pos /\ lineNum' = lineNum /\ lines' = lines
      /\ Elsewhere(c)
  BY <1>0, Frame DEF ReadFile, Step, Active, Shape, loop
<1>2. /\ Accepted => file # Absent /\ Count(file, old) = 1
      /\ pc' = [pc EXCEPT ![c] = IF Accepted THEN "open" ELSE "done"]
      /\ text' = IF Accepted THEN [text EXCEPT ![c] = Replace(file, old, new)] ELSE text
      /\ answer' = IF Accepted THEN answer ELSE [answer EXCEPT ![c] = Error]
  BY <1>0 DEF ReadFile, Return, TypeOK
<1>3. /\ old \in Seq(BytesOf(old)) /\ new \in Seq(Bytes) /\ old # <<>>
      /\ Accepted => file \in Seq(Bytes)
  BY <1>0, <1>1, <1>2, Inputs DEF Valid, TypeOK
<1>4. Accepted => /\ Replace(file, old, new) \in Seq(Bytes)
                  /\ Store!Editable(file, old)
                  /\ Replace(file, old, new) = Store!Edited(file, old, new)
  <2> HIDE DEF old, new
  <2> SUFFICES ASSUME Accepted
               PROVE  /\ Replace(file, old, new) \in Seq(Bytes)
                      /\ Store!Editable(file, old)
                      /\ Replace(file, old, new) = Store!Edited(file, old, new)
    OBVIOUS
  <2>1. file \in Seq(Bytes) /\ file # Absent /\ Count(file, old) = 1
    BY <1>2, <1>3
  <2>2. Replace(file, old, new) \in Seq(Bytes)
    BY <1>3, <2>1, ReplaceIsText
  <2>3. Store!Editable(file, old)
    BY <1>3, <2>1, CountMeansEditable
  <2>4. Replace(file, old, new) = Store!Edited(file, old, new)
    BY <1>3, <2>1, <2>3, ReplaceMeansEdited
  <2> QED BY <2>2, <2>3, <2>4
<1> HIDE DEF Accepted
<1>5. TypeOK'
  <2>1. text' \in [Calls -> Seq(Bytes)]
    <3> HIDE DEF old, new
    <3> QED BY <1>0, <1>2, <1>4 DEF TypeOK
  <2>2. answer' \in [Calls -> [ok : BOOLEAN, lines : Seq(Nat \X Seq(Bytes))]]
    BY <1>0, <1>2, EmptySeq, AnswerTyped
  <2>3. pc' \in [Calls -> {"idle", "called", "scan", "open", "put", "done"}]
    BY <1>0, <1>2 DEF TypeOK
  <2>4. \A d \in Calls : pc'[d] \in {"scan", "put"} => pc[d] \in {"scan", "put"}
    BY <1>0, <1>2 DEF TypeOK
  <2> QED BY <1>0, <1>1, <2>1, <2>2, <2>3, <2>4 DEF TypeOK
<1>6. pc'[c] = IF Accepted THEN "open" ELSE "done"
  BY <1>0, <1>2 DEF TypeOK
<1>7. Shape(c)'
  BY <1>0, <1>1, <1>6 DEF Shape, Active, Writes
<1>8. Reading(c)'
  BY <1>6 DEF Reading
<1>9. Writing(c)'
  <2>1. Accepted => text'[c] = Replace(file, old, new)
    <3> HIDE DEF old, new
    <3> QED BY <1>0, <1>2 DEF TypeOK
  <2>2. Accepted => text'[c] = Store!Edited(file, job[c].old, job[c].new)
    BY <1>4, <2>1
  <2> QED BY <1>1, <1>4, <1>6, <2>2 DEF Writing
<1> QED BY <1>1, <1>5, <1>7, <1>8, <1>9, StepKeeps

\* file_write goes on with its content.
LEMMA MakeDirKeeps ==
    ASSUME Inv, NEW c \in Calls, MakeDir(c)
    PROVE  Inv'
<1>0. TypeOK /\ Shape(c)
  BY DEF Inv
<1>1. /\ pc[c] = "called" /\ job[c].tool = "file_write" /\ c \in Active
      /\ job[c] \in Jobs
      /\ file' = file /\ job' = job /\ raced' = raced /\ original' = original
      /\ pos' = pos /\ lineNum' = lineNum /\ lines' = lines
      /\ Elsewhere(c)
  BY <1>0, Frame DEF MakeDir, Step, Active, Shape, loop
<1>2. \/ /\ pc' = [pc EXCEPT ![c] = "open"]
         /\ text' = [text EXCEPT ![c] = job[c].content] /\ answer' = answer
      \/ /\ pc' = [pc EXCEPT ![c] = "done"]
         /\ text' = text /\ answer' = [answer EXCEPT ![c] = Error]
  BY DEF MakeDir, Return
<1>3. job[c].content \in Seq(Bytes)
  BY <1>1, Inputs
<1>4. TypeOK'
  <2>1. text' \in [Calls -> Seq(Bytes)]
    BY <1>0, <1>2, <1>3 DEF TypeOK
  <2>2. answer' \in [Calls -> [ok : BOOLEAN, lines : Seq(Nat \X Seq(Bytes))]]
    BY <1>0, <1>2, EmptySeq, AnswerTyped
  <2>3. pc' \in [Calls -> {"idle", "called", "scan", "open", "put", "done"}]
    BY <1>0, <1>2 DEF TypeOK
  <2>4. \A d \in Calls : pc'[d] \in {"scan", "put"} => pc[d] \in {"scan", "put"}
    BY <1>0, <1>2 DEF TypeOK
  <2> QED BY <1>0, <1>1, <2>1, <2>2, <2>3, <2>4 DEF TypeOK
<1>5. \/ pc'[c] = "open" /\ text'[c] = job[c].content
      \/ pc'[c] = "done"
  BY <1>0, <1>2 DEF TypeOK
<1>6. Shape(c)'
  BY <1>0, <1>1, <1>5 DEF Shape, Active, Writes
<1>7. Reading(c)' /\ Writing(c)'
  BY <1>1, <1>5 DEF Reading, Writing
<1> QED BY <1>1, <1>4, <1>6, <1>7, StepKeeps

\* Who has opened the file to write finds nothing in it.
LEMMA TruncateKeeps ==
    ASSUME Inv, NEW c \in Calls, Truncate(c)
    PROVE  Inv'
<1>0. TypeOK /\ Shape(c)
  BY DEF Inv
<1>1. /\ pc[c] = "open" /\ Writes(job[c]) /\ c \in Active
      /\ job' = job /\ raced' = raced /\ original' = original
      /\ text' = text /\ pos' = pos /\ lineNum' = lineNum /\ lines' = lines
      /\ Elsewhere(c)
  BY <1>0, Frame DEF Truncate, Step, Active, Shape, locals, loop
<1>2. \/ pc' = [pc EXCEPT ![c] = "put"] /\ file' = <<>> /\ answer' = answer
      \/ /\ pc' = [pc EXCEPT ![c] = "done"]
         /\ file' = file /\ answer' = [answer EXCEPT ![c] = Error]
  BY DEF Truncate, Return, Opened
<1>3. <<>> \in Seq(Bytes) /\ <<>> # Absent
  <2>1. <<>> \in Seq(Bytes)
    BY EmptySeq
  <2> QED BY <2>1, Inputs
<1>4. TypeOK'
  <2>1. answer' \in [Calls -> [ok : BOOLEAN, lines : Seq(Nat \X Seq(Bytes))]]
    BY <1>0, <1>2, EmptySeq, AnswerTyped
  <2>2. pc' \in [Calls -> {"idle", "called", "scan", "open", "put", "done"}]
    BY <1>0, <1>2 DEF TypeOK
  <2>3. file' = <<>> \/ \A d \in Calls : pc'[d] \in {"scan", "put"} => pc[d] \in {"scan", "put"}
    BY <1>0, <1>2 DEF TypeOK
  <2>4. \A d \in Calls : pc'[d] \in {"scan", "put"} => file' # Absent
    BY <1>0, <1>2, <1>3, <2>3 DEF TypeOK
  <2>5. file' \in Seq(Bytes) \cup {Absent}
    BY <1>0, <1>2, <1>3 DEF TypeOK
  <2> QED BY <1>0, <1>1, <2>1, <2>2, <2>4, <2>5 DEF TypeOK
<1>5. (pc'[c] = "put" /\ file' = <<>>) \/ pc'[c] = "done"
  BY <1>0, <1>2 DEF TypeOK
<1>6. Shape(c)'
  BY <1>0, <1>1, <1>5 DEF Shape, Active
<1>7. Reading(c)' /\ Writing(c)'
  BY <1>1, <1>5 DEF Reading, Writing
<1> QED BY <1>1, <1>4, <1>6, <1>7, StepKeeps

\* A write leaves the data, and behind it what was there.
LEMMA OverwriteFacts ==
    ASSUME NEW S, NEW s \in Seq(S), NEW data \in Seq(S)
    PROVE  /\ Overwrite(s, data) \in Seq(S)
           /\ \A i \in DOMAIN Overwrite(s, data) :
                \/ i \in DOMAIN data /\ Overwrite(s, data)[i] = data[i]
                \/ i \in DOMAIN s /\ Overwrite(s, data)[i] = s[i]
<1> DEFINE rest == SubSeq(s, Len(data) + 1, Len(s))
<1>1. Len(data) \in Nat /\ Len(s) \in Nat /\ DOMAIN data = 1 .. Len(data) /\ DOMAIN s = 1 .. Len(s)
  BY LenProperties
<1>2. /\ rest \in Seq(S)
      /\ Len(rest) = IF Len(data) + 1 <= Len(s) THEN Len(s) - Len(data) ELSE 0
      /\ \A i \in 1 .. Len(s) - Len(data) : rest[i] = s[Len(data) + i]
  <2>1. \A i \in Len(data) + 1 .. Len(s) : s[i] \in S
    BY <1>1, ElementOfSeq
  <2> QED BY <1>1, <2>1, SubSeqProperties
<1> HIDE DEF rest
<1> DEFINE w == data \o rest
<1>3. Overwrite(s, data) = w
  BY DEF Overwrite, rest
<1>4. /\ w \in Seq(S)
      /\ Len(w) = Len(data) + Len(rest)
      /\ \A i \in 1 .. Len(data) + Len(rest) :
            w[i] = IF i <= Len(data) THEN data[i] ELSE rest[i - Len(data)]
  BY <1>2, ConcatProperties
<1> HIDE DEF w
<1>5. DOMAIN w = 1 .. Len(data) + Len(rest)
  BY <1>4, LenProperties
<1>6. ASSUME NEW i \in DOMAIN w
      PROVE  \/ i \in DOMAIN data /\ w[i] = data[i]
             \/ i \in DOMAIN s /\ w[i] = s[i]
  <2>1. i \in 1 .. Len(data) + Len(rest)
    BY <1>5
  <2>2. w[i] = IF i <= Len(data) THEN data[i] ELSE rest[i - Len(data)]
    BY <1>4, <2>1
  <2>3. CASE i <= Len(data)
    BY <1>1, <2>1, <2>2, <2>3
  <2>4. CASE ~ (i <= Len(data))
    <3> DEFINE k == i - Len(data)
    <3>1. k \in 1 .. Len(s) - Len(data) /\ Len(data) + k = i /\ i \in 1 .. Len(s)
      <4> DEFINE d == Len(data)
                 l == Len(s)
                 r == Len(rest)
      <4>1. d \in Nat /\ l \in Nat /\ r = (IF d + 1 <= l THEN l - d ELSE 0) /\ i \in 1 .. d + r
        BY <1>1, <1>2, <2>1
      <4> HIDE DEF d, l, r
      <4>2. i - d \in 1 .. l - d /\ d + (i - d) = i /\ i \in 1 .. l
        BY <4>1, <2>4 DEF d
      <4> QED BY <4>2 DEF d, l
    <3>2. w[i] = rest[k]
      BY <2>2, <2>4
    <3> HIDE DEF k
    <3>3. rest[k] = s[i]
      BY <1>2, <3>1
    <3> QED BY <1>1, <3>1, <3>2, <3>3
  <2> QED BY <2>3, <2>4
<1> QED BY <1>3, <1>4, <1>6

\* What a write puts in: the text, or a beginning of it.
LEMMA PutCases ==
    ASSUME Inv, NEW c \in Calls, Put(c)
    PROVE  /\ pc[c] = "put" /\ Writes(job[c]) /\ c \in Active
           /\ file \in Seq(Bytes) /\ text[c] \in Seq(Bytes)
           /\ job' = job /\ raced' = raced /\ original' = original
           /\ text' = text /\ pos' = pos /\ lineNum' = lineNum /\ lines' = lines
           /\ pc' = [pc EXCEPT ![c] = "done"]
           /\ Elsewhere(c)
           /\ \/ /\ file' = Overwrite(file, text[c])
                 /\ answer' = [answer EXCEPT ![c] = Success(<<>>)]
              \/ /\ answer' = [answer EXCEPT ![c] = Error]
                 /\ \E n \in 0 .. Len(text[c]) :
                        /\ file' = Overwrite(file, SubSeq(text[c], 1, n))
                        /\ SubSeq(text[c], 1, n) \in Seq(Bytes)
                        /\ DOMAIN SubSeq(text[c], 1, n) = 1 .. n
                        /\ \A i \in 1 .. n : i \in DOMAIN text[c]
                                             /\ SubSeq(text[c], 1, n)[i] = text[c][i]
<1>0. TypeOK /\ Shape(c)
  BY DEF Inv
<1>1. /\ pc[c] = "put" /\ Writes(job[c]) /\ c \in Active
      /\ job' = job /\ raced' = raced /\ original' = original
      /\ text' = text /\ pos' = pos /\ lineNum' = lineNum /\ lines' = lines
      /\ pc' = [pc EXCEPT ![c] = "done"]
      /\ Elsewhere(c)
  BY <1>0, Frame DEF Put, Step, Active, Shape, locals, loop, Return
<1>2. file \in Seq(Bytes) /\ text[c] \in Seq(Bytes)
  BY <1>0, <1>1 DEF TypeOK
<1>3. ASSUME NEW n \in 0 .. Len(text[c])
      PROVE  /\ SubSeq(text[c], 1, n) \in Seq(Bytes)
             /\ DOMAIN SubSeq(text[c], 1, n) = 1 .. n
             /\ \A i \in 1 .. n : i \in DOMAIN text[c]
                                  /\ SubSeq(text[c], 1, n)[i] = text[c][i]
  <2>1. n \in Nat /\ Len(text[c]) \in Nat /\ n <= Len(text[c])
        /\ DOMAIN text[c] = 1 .. Len(text[c])
    BY <1>2, LenProperties
  <2>2. \A i \in 1 .. n : text[c][i] \in Bytes
    BY <1>2, <2>1, ElementOfSeq
  <2>3. /\ SubSeq(text[c], 1, n) \in Seq(Bytes)
        /\ Len(SubSeq(text[c], 1, n)) = IF 1 <= n THEN n - 1 + 1 ELSE 0
        /\ \A i \in 1 .. n - 1 + 1 : SubSeq(text[c], 1, n)[i] = text[c][1 + i - 1]
    BY <2>1, <2>2, SubSeqProperties
  <2>4. DOMAIN SubSeq(text[c], 1, n) = 1 .. n
    BY <2>1, <2>3, LenProperties
  <2> QED BY <2>1, <2>3, <2>4
<1>4. \/ /\ file' = Overwrite(file, text[c])
         /\ answer' = [answer EXCEPT ![c] = Success(<<>>)]
      \/ /\ answer' = [answer EXCEPT ![c] = Error]
         /\ \E n \in 0 .. Len(text[c]) : file' = Overwrite(file, SubSeq(text[c], 1, n))
  BY DEF Put, Return
<1> QED BY <1>1, <1>2, <1>3, <1>4

\* A write ends its call.
LEMMA PutKeeps ==
    ASSUME Inv, NEW c \in Calls, Put(c)
    PROVE  Inv'
<1>0. TypeOK /\ Shape(c)
  BY DEF Inv
<1>1. /\ pc[c] = "put" /\ Writes(job[c]) /\ c \in Active
      /\ job' = job /\ raced' = raced /\ original' = original
      /\ text' = text /\ pos' = pos /\ lineNum' = lineNum /\ lines' = lines
      /\ pc' = [pc EXCEPT ![c] = "done"]
      /\ Elsewhere(c)
  BY PutCases
<1>2. file' \in Seq(Bytes)
  <2>1. CASE file' = Overwrite(file, text[c])
    BY <2>1, PutCases, OverwriteFacts
  <2>2. CASE \E n \in 0 .. Len(text[c]) :
                 /\ file' = Overwrite(file, SubSeq(text[c], 1, n))
                 /\ SubSeq(text[c], 1, n) \in Seq(Bytes)
    <3>1. PICK n \in 0 .. Len(text[c]) :
                 /\ file' = Overwrite(file, SubSeq(text[c], 1, n))
                 /\ SubSeq(text[c], 1, n) \in Seq(Bytes)
      BY <2>2
    <3>2. file \in Seq(Bytes)
      BY PutCases
    <3> QED BY <3>1, <3>2, OverwriteFacts
  <2> QED BY <2>1, <2>2, PutCases
<1>3. answer' \in [Calls -> [ok : BOOLEAN, lines : Seq(Nat \X Seq(Bytes))]]
  <2>1. answer' = [answer EXCEPT ![c] = Success(<<>>)] \/ answer' = [answer EXCEPT ![c] = Error]
    BY PutCases
  <2> QED BY <1>0, <2>1, EmptySeq, AnswerTyped
<1>4. TypeOK'
  <2>1. pc' \in [Calls -> {"idle", "called", "scan", "open", "put", "done"}]
    BY <1>0, <1>1 DEF TypeOK
  <2>2. file' # Absent
    BY <1>2, Inputs
  <2> QED BY <1>0, <1>1, <1>2, <1>3, <2>1, <2>2 DEF TypeOK
<1>5. pc'[c] = "done"
  BY <1>0, <1>1 DEF TypeOK
<1>6. Shape(c)' /\ Reading(c)' /\ Writing(c)'
  BY <1>5 DEF Shape, Active, Reading, Writing
<1> QED BY <1>1, <1>4, <1>6, StepKeeps

LEMMA Stutters == Inv /\ UNCHANGED vars => Inv'
<1> SUFFICES ASSUME Inv, UNCHANGED vars PROVE Inv'
  OBVIOUS
<1>1. TypeOK'
  BY DEF Inv, TypeOK, vars
<1>2. WritersRace'
  BY DEF Inv, WritersRace, Writers, Active, vars
<1>3. \A c \in Calls : Shape(c)' /\ Reading(c)' /\ Writing(c)'
  BY DEF Inv, Shape, Active, Reading, Writing, vars
<1> QED BY <1>1, <1>2, <1>3 DEF Inv

\* The invariant is inductive.
LEMMA Inductive == Inv /\ [Next]_vars => Inv'
<1> SUFFICES ASSUME Inv, [Next]_vars PROVE Inv'
  OBVIOUS
<1>1. ASSUME NEW c \in Calls, Step(c) PROVE Inv'
  BY <1>1, OpenReadKeeps, ScanKeeps, ReadFileKeeps, MakeDirKeeps, TruncateKeeps, PutKeeps
     DEF Step
<1>2. ASSUME NEW c \in Calls, NEW j \in Jobs, Begin(c, j) PROVE Inv'
  BY <1>2, BeginKeeps
<1> QED BY <1>1, <1>2, Stutters DEF Next

\* The invariant holds always.
LEMMA Invariance == Spec => []Inv
BY Initially, Inductive, PTL DEF Spec

\* Whatever calls overlap and however they fail, the file is a text or not
\* there, what a call has open is there, and each local is what the code
\* declares it to be.
THEOREM TypeCorrect == Spec => []TypeOK
<1>1. Inv => TypeOK
  BY DEF Inv
<1> QED BY <1>1, Invariance, PTL

----------------------------------------------------------------------------
\* A call gets its text once.
LEMMA TextStays ==
    ASSUME Inv, [Next]_vars
    PROVE  /\ original' = original
           /\ \A c \in Calls : \A i \in DOMAIN text[c] :
                i \in DOMAIN text'[c] /\ text'[c][i] = text[c][i]
<1>0. TypeOK /\ \A d \in Calls : Shape(d)
  BY DEF Inv
<1>1. ASSUME NEW c \in Calls, Step(c) \/ (\E j \in Jobs : Begin(c, j))
      PROVE  /\ original' = original
             /\ \A d \in Calls : \A i \in DOMAIN text[d] :
                  i \in DOMAIN text'[d] /\ text'[d][i] = text[d][i]
  <2>1. original' = original
    BY <1>1 DEF Step, OpenRead, Scan, ReadFile, MakeDir, Truncate, Put, Begin
  <2>2. \A d \in Calls : d # c => text'[d] = text[d]
    BY <1>0, <1>1, Frame DEF Elsewhere
  <2>3. text'[c] = text[c] \/ text[c] = <<>>
    <3>1. CASE ReadFile(c) \/ MakeDir(c)
      BY <1>0, <3>1 DEF ReadFile, MakeDir, Shape
    <3>2. CASE ~ (ReadFile(c) \/ MakeDir(c))
      BY <1>1, <3>2 DEF Step, OpenRead, Scan, Truncate, Put, Begin, locals, loop
    <3> QED BY <3>1, <3>2
  <2> QED BY <2>1, <2>2, <2>3
<1>2. CASE UNCHANGED vars
  BY <1>2 DEF vars
<1> QED BY <1>1, <1>2 DEF Next

\* Whatever calls overlap and whichever of them fail, the file holds at each
\* position a byte that the original file or one of the writers had there.
THEOREM NothingIsInvented == Spec => []NothingInvented
<1>1. Init => NothingInvented
  BY DEF Init, NothingInvented
<1>2. Inv /\ NothingInvented /\ [Next]_vars => NothingInvented'
  <2> SUFFICES ASSUME Inv, NothingInvented, [Next]_vars, file' # Absent, NEW i \in DOMAIN file'
               PROVE  \/ original' # Absent /\ i \in DOMAIN original' /\ file'[i] = original'[i]
                      \/ \E c \in Calls : i \in DOMAIN text'[c] /\ file'[i] = text'[c][i]
    BY DEF NothingInvented
  <2>1. CASE file # Absent /\ i \in DOMAIN file /\ file'[i] = file[i]
    BY <2>1, TextStays DEF NothingInvented
  <2>2. ASSUME NEW c \in Calls, i \in DOMAIN text[c], file'[i] = text[c][i]
        PROVE  \E d \in Calls : i \in DOMAIN text'[d] /\ file'[i] = text'[d][i]
    BY <2>2, TextStays
  <2>3. CASE file' = file
    BY <2>1, <2>3
  <2>4. ASSUME NEW c \in Calls, Truncate(c), file' # file PROVE FALSE
    <3>1. file' = <<>>
      BY <2>4 DEF Truncate, Opened
    <3> QED BY <3>1
  <2>5. ASSUME NEW c \in Calls, Put(c)
        PROVE  \/ i \in DOMAIN text[c] /\ file'[i] = text[c][i]
               \/ file # Absent /\ i \in DOMAIN file /\ file'[i] = file[i]
    <3>1. file \in Seq(Bytes) /\ text[c] \in Seq(Bytes) /\ file # Absent
      BY <2>5, PutCases, Inputs
    <3>2. CASE file' = Overwrite(file, text[c])
      BY <3>1, <3>2, OverwriteFacts
    <3>3. CASE \E n \in 0 .. Len(text[c]) :
                    /\ file' = Overwrite(file, SubSeq(text[c], 1, n))
                    /\ SubSeq(text[c], 1, n) \in Seq(Bytes)
                    /\ DOMAIN SubSeq(text[c], 1, n) = 1 .. n
                    /\ \A k \in 1 .. n : k \in DOMAIN text[c]
                                         /\ SubSeq(text[c], 1, n)[k] = text[c][k]
      <4>1. PICK n \in 0 .. Len(text[c]) :
                    /\ file' = Overwrite(file, SubSeq(text[c], 1, n))
                    /\ SubSeq(text[c], 1, n) \in Seq(Bytes)
                    /\ DOMAIN SubSeq(text[c], 1, n) = 1 .. n
                    /\ \A k \in 1 .. n : k \in DOMAIN text[c]
                                         /\ SubSeq(text[c], 1, n)[k] = text[c][k]
        BY <3>3
      <4> DEFINE data == SubSeq(text[c], 1, n)
      <4>2. /\ data \in Seq(Bytes) /\ file' = Overwrite(file, data)
            /\ \A k \in DOMAIN data : k \in DOMAIN text[c] /\ data[k] = text[c][k]
        BY <4>1
      <4> HIDE DEF data
      <4>3. \/ i \in DOMAIN data /\ file'[i] = data[i]
            \/ i \in DOMAIN file /\ file'[i] = file[i]
        BY <3>1, <4>2, OverwriteFacts
      <4> QED BY <3>1, <4>2, <4>3
    <3> QED BY <2>5, <3>2, <3>3, PutCases
  <2>6. ASSUME NEW c \in Calls, Put(c) \/ Truncate(c)
        PROVE  \/ original' # Absent /\ i \in DOMAIN original' /\ file'[i] = original'[i]
               \/ \E d \in Calls : i \in DOMAIN text'[d] /\ file'[i] = text'[d][i]
    BY <2>1, <2>2, <2>3, <2>4, <2>5, <2>6
  <2>7. file' = file \/ \E c \in Calls : Put(c) \/ Truncate(c)
    BY DEF Next, Step, OpenRead, Scan, ReadFile, MakeDir, Begin, vars
  <2> QED BY <2>3, <2>6, <2>7
<1> QED BY <1>1, <1>2, Invariance, PTL DEF Spec

----------------------------------------------------------------------------
(***************************************************************************)
(* FileTools implements FileStore: each step is a step of FileStore, or    *)
(* leaves what it shows of a call as it is.                                *)
(***************************************************************************)
LEMMA InitImplements == Init => Store!Init
BY DEF Init, Store!Init, State, Error, Store!Error

\* The calls under way, and the writers among them, are those of FileStore.
LEMMA StateFacts ==
    ASSUME TypeOK
    PROVE  /\ Store!Active = Active
           /\ Store!Writers = Writers
<1>1. \A c \in Calls : State[c] \in {"called", "changed"} <=> pc[c] \notin {"idle", "done"}
  BY DEF State, TypeOK
<1> QED BY <1>1 DEF Store!Active, Active, Store!Writers, Writers, Store!Writes, Writes

\* It sees one call move when one call does.
LEMMA OneState ==
    ASSUME TypeOK, TypeOK', NEW c \in Calls, Elsewhere(c)
    PROVE  /\ State' = [State EXCEPT ![c] = State'[c]]
           /\ State'[c] = State[c] => State' = State
<1>1. \A d \in Calls : d # c => State'[d] = State[d]
  BY DEF State, Elsewhere
<1>2. State = [d \in Calls |-> State[d]] /\ State' = [d \in Calls |-> State'[d]]
  BY DEF State
<1> HIDE DEF State
<1> QED BY <1>1, <1>2

\* Who is undisturbed and not putting finds in the file what FileStore says.
LEMMA ContentIsFile ==
    ASSUME Inv, NEW c \in Active, c \notin raced, pc[c] # "put"
    PROVE  Putting = {} /\ Content = file
<1>1. ASSUME NEW d \in Putting PROVE FALSE
  <2>1. d \in Writers /\ d # c
    BY <1>1 DEF Putting, Writers, Active, Inv, Shape
  <2> QED BY <2>1 DEF Inv, WritersRace
<1> QED BY <1>1 DEF Content

\* Of the writers that put, at most one is undisturbed.
LEMMA ContentIsText ==
    ASSUME Inv, NEW c \in Calls, c \notin raced, pc[c] = "put"
    PROVE  Putting = {c} /\ Content = text[c]
<1>1. c \in Putting /\ c \in Active
  BY DEF Putting, Active
<1>2. ASSUME NEW d \in Putting PROVE d = c
  <2>1. d \in Writers
    BY DEF Putting, Writers, Active, Inv, Shape
  <2> QED BY <1>1, <2>1 DEF Inv, WritersRace
<1>3. Putting = {c}
  BY <1>1, <1>2
<1> QED BY <1>3 DEF Content

\* It sees the same file when nobody puts and the file stays.
LEMMA SameContent ==
    ASSUME Putting' = Putting, \A d \in Putting : text'[d] = text[d],
           Putting = {} => file' = file
    PROVE  Content' = Content
<1>1. CASE Putting = {}
  BY <1>1 DEF Content
<1>2. CASE Putting # {}
  <2>1. (CHOOSE c \in Putting : TRUE) \in Putting
    BY <1>2
  <2> QED BY <1>2, <2>1 DEF Content
<1> QED BY <1>1, <1>2

\* The last turn of an undisturbed scan returns the window that was asked for.
LEMMA ScanFindsWindow ==
    ASSUME Inv, NEW c \in Calls, c \notin raced, Scan(c), ScanEnds(c)
    PROVE  Store!Window(file, job[c].offset, job[c].limit) = Success(lines[c])
<1> DEFINE n == lineNum[c] + 1
           F == First(job[c])
           W == Wanted(job[c])
           count == Store!LineCount(file)
           last == IF F + W < count THEN F + W ELSE count
           long == \E i \in 1 .. count :
                      i <= F + W + 1 /\ Len(Store!Line(file, i)) >= MaxLine
           shown == [k \in 1 .. last - F |-> <<F + k, Shown(Store!Line(file, F + k))>>]
           window == Store!Window(file, job[c].offset, job[c].limit)
<1>1. /\ pc[c] = "scan"
      /\ job[c].offset \in Int /\ job[c].limit \in Int
      /\ file \in Seq(Bytes) /\ Len(file) \in Nat /\ lineNum[c] \in Nat /\ pos[c] \in Nat
      /\ lines[c] \in Seq(Nat \X Seq(Bytes))
  BY ScanCases
<1>2. F \in Nat /\ W \in Nat
  BY <1>1, Inputs DEF First, Wanted
<1>3. /\ pos[c] <= Len(file)
      /\ lineNum[c] = Store!Number(file, pos[c])
      /\ \A i \in 1 .. lineNum[c] : ~ (Len(Store!Line(file, i)) >= MaxLine)
      /\ Len(lines[c]) = IF lineNum[c] > F THEN lineNum[c] - F ELSE 0
      /\ Len(lines[c]) <= W
      /\ \A k \in 1 .. Len(lines[c]) :
            lines[c][k] = <<F + k, Shown(Store!Line(file, F + k))>>
  BY <1>1 DEF Inv, Reading
<1>4. window = IF file = Absent \/ long THEN Error ELSE Success(shown)
  BY DEF Store!Window, Store!Shown, Shown, First, Wanted, Error, Success, Store!Error,
         Store!Success
<1>5. file # Absent
  BY <1>1, Inputs
<1>6. count \in Nat /\ Store!Number(file, Len(file)) = count
  BY <1>1, NumberFacts
<1>7. Len(lines[c]) \in Nat /\ DOMAIN lines[c] = 1 .. Len(lines[c])
  BY <1>1, LenProperties
<1> HIDE DEF F, W, window, count
\* All lines of the window, and the one behind it, have been scanned.
<1>8. /\ Len(lines[c]) = IF last > F THEN last - F ELSE 0
      /\ \A i \in 1 .. count : i <= F + W + 1 => ~ (Len(Store!Line(file, i)) >= MaxLine)
  <2>1. CASE ScanAtEnd(c)
    <3>1. pos[c] = Len(file)
      BY <1>1, <1>3, <2>1 DEF ScanAtEnd
    <3>2. lineNum[c] = count
      BY <1>3, <1>6, <3>1
    <3>3. \A i \in 1 .. count : ~ (Len(Store!Line(file, i)) >= MaxLine)
      BY <1>3, <3>2
    <3>4. Len(lines[c]) = IF last > F THEN last - F ELSE 0
      BY <1>2, <1>3, <1>6, <3>2
    <3> QED BY <3>3, <3>4
  <2>2. CASE ScanHasAll(c)
    <3>1. /\ pos'[c] \in Nat /\ pos'[c] <= Len(file)
          /\ lineNum'[c] = n /\ lineNum'[c] = Store!Number(file, pos'[c])
          /\ \A i \in 1 .. n : ~ (Len(Store!Line(file, i)) >= MaxLine)
      BY <2>2, MovesOnFacts DEF ScanHasAll
    <3>2. n <= count
      BY <1>1, <3>1, NumberFacts DEF count
    <3>3. lineNum[c] >= F
      BY <1>1, <2>2 DEF ScanHasAll, F, First
    <3>4. Len(lines[c]) = W
      BY <1>1, <1>2, <1>3, <1>7, <2>2, Inputs, SMTT(30) DEF ScanHasAll, Limit, W, Wanted
    <3>5. lineNum[c] = F + W
      BY <1>1, <1>2, <1>3, <3>3, <3>4
    <3>6. \A i \in 1 .. count : i <= F + W + 1 => i \in 1 .. n
      BY <1>2, <1>6, <3>5
    <3>7. last = F + W
      BY <1>2, <1>6, <3>2, <3>5
    <3>8. Len(lines[c]) = IF last > F THEN last - F ELSE 0
      <4> HIDE DEF last
      <4> QED BY <1>2, <3>4, <3>7
    <3> HIDE DEF n
    <3>9. \A i \in 1 .. count : i <= F + W + 1 => ~ (Len(Store!Line(file, i)) >= MaxLine)
      BY <3>1, <3>6
    <3> QED BY <3>8, <3>9
  <2> QED BY <2>1, <2>2 DEF ScanEnds
<1>9. ~long
  <2> SUFFICES ASSUME NEW i \in 1 .. count, i <= F + W + 1,
                      Len(Store!Line(file, i)) >= MaxLine
               PROVE  FALSE
    OBVIOUS
  <2> QED BY <1>8
<1>10. shown = lines[c]
  <2>1. last \in Nat
    BY <1>2, <1>6
  <2> HIDE DEF last
  <2>2. 1 .. last - F = 1 .. Len(lines[c])
    BY <1>2, <1>8, <2>1
  <2>3. lines[c] = [k \in 1 .. Len(lines[c]) |-> lines[c][k]]
    BY <1>1, <1>7
  <2> QED BY <1>3, <2>2, <2>3
<1> HIDE DEF shown, long
<1> QED BY <1>4, <1>5, <1>9, <1>10 DEF window

\* A step that does not touch the file, nor begins or ends a change of it.
LEMMA QuietStep ==
    ASSUME NEW c \in Calls, Elsewhere(c), raced' = raced, file' = file,
           pc[c] # "put", pc'[c] # "put"
    PROVE  Content' = Content
<1>1. Putting' = Putting /\ \A d \in Putting : text'[d] = text[d]
  BY DEF Putting, Elsewhere
<1> QED BY <1>1, SameContent

\* A step of which FileStore sees nothing.
LEMMA StutterImplements ==
    ASSUME UNCHANGED <<Content, job, State, answer, raced>>
    PROVE  [Store!Next]_(Store!vars)
BY DEF Store!vars

\* About a call that overlaps a writer FileStore says nothing.
LEMMA RaceImplements ==
    ASSUME Inv, Inv', NEW c \in raced, c \in Active, Elsewhere(c), job' = job, raced' = raced,
           pc'[c] # "idle", Writes(job[c]) \/ Content' = Content
    PROVE  [Store!Next]_(Store!vars)
<1>0. c \in Calls /\ TypeOK /\ TypeOK'
  BY DEF Inv, Active
<1>1. State[c] \in {"called", "changed"} /\ State'[c] \in {"called", "changed", "done"}
  BY <1>0 DEF State, Active, TypeOK
<1>2. State' = [State EXCEPT ![c] = State'[c]]
  BY <1>0, OneState
<1>3. \A d \in Calls \ {c} : answer'[d] = answer[d]
  BY DEF Elsewhere
<1> HIDE DEF State, Content
<1>4. Store!Race(c)
  BY <1>0, <1>1, <1>2, <1>3 DEF Store!Race, Store!Writes, Writes
<1> QED BY <1>0, <1>4 DEF Store!Next

\* The other steps of an undisturbed call.
LEMMA FailImplements ==
    ASSUME Inv, Inv', NEW c \in Calls, c \notin raced, Elsewhere(c),
           job' = job, raced' = raced, answer' = [answer EXCEPT ![c] = Error],
           pc'[c] = "done",
           \/ pc[c] \in {"called", "scan", "open"} /\ file' = file
           \/ /\ pc[c] = "put"
              /\ \E n \in 0 .. Len(text[c]) : file' = SubSeq(text[c], 1, n)
    PROVE  [Store!Next]_(Store!vars)
<1>0. TypeOK /\ TypeOK'
  BY DEF Inv
<1>1. State' = [State EXCEPT ![c] = "done"]
  BY <1>0, OneState DEF State
<1>2. \/ State[c] = "called" /\ Content' = Content
      \/ State[c] = "changed" /\ \E n \in 0 .. Len(Content) : Content' = SubSeq(Content, 1, n)
  <2>1. CASE pc[c] \in {"called", "scan", "open"} /\ file' = file
    BY <2>1, QuietStep DEF State
  <2>2. CASE /\ pc[c] = "put"
             /\ \E n \in 0 .. Len(text[c]) : file' = SubSeq(text[c], 1, n)
    <3>1. Putting = {c} /\ Content = text[c]
      BY <2>2, ContentIsText
    <3>2. Putting' = {}
      BY <3>1 DEF Putting, Elsewhere
    <3>3. Content' = file'
      BY <3>2 DEF Content
    <3> QED BY <2>2, <3>1, <3>3 DEF State
  <2> QED BY <2>1, <2>2
<1> HIDE DEF State, Content
<1>3. Store!Fail(c)
  BY <1>0, <1>1, <1>2 DEF Store!Fail, Store!Finish, Store!Error, Error
<1> QED BY <1>3 DEF Store!Next

\* A read that ends undisturbed has the answer FileStore gives.
LEMMA ReadImplements ==
    ASSUME Inv, Inv', NEW c \in Calls, c \notin raced, Elsewhere(c),
           job[c].tool = "file_read", pc[c] = "scan", pc'[c] = "done",
           job' = job, raced' = raced, file' = file,
           answer' = [answer EXCEPT ![c] = Store!Window(file, job[c].offset, job[c].limit)]
    PROVE  [Store!Next]_(Store!vars)
<1>0. TypeOK /\ TypeOK' /\ c \in Active
  BY DEF Inv, Active
<1>1. State' = [State EXCEPT ![c] = "done"] /\ State[c] = "called"
  BY <1>0, OneState DEF State
<1>2. Content = file /\ Content' = Content
  BY <1>0, ContentIsFile, QuietStep
<1> HIDE DEF State, Content
<1>3. Store!Read(c)
  BY <1>0, <1>1, <1>2 DEF Store!Read, Store!Finish
<1> QED BY <1>3 DEF Store!Next

----------------------------------------------------------------------------
\* A call is called, or refused, in both.
LEMMA BeginImplements ==
    ASSUME Inv, Inv', NEW c \in Calls, NEW j \in Jobs, Begin(c, j)
    PROVE  [Store!Next]_(Store!vars)
<1>0. TypeOK /\ TypeOK'
  BY DEF Inv
<1>1. /\ pc[c] = "idle" /\ job'[c] = j /\ pc'[c] = IF Valid(j) THEN "called" ELSE "done"
      /\ job' = [job EXCEPT ![c] = job'[c]]
      /\ file' = file /\ answer' = answer /\ text' = text /\ Elsewhere(c)
  BY <1>0, Frame DEF Begin, TypeOK, locals, loop
<1>2. State[c] = "idle" /\ State' = [State EXCEPT ![c] = IF Valid(j) THEN "called" ELSE "done"]
  BY <1>0, <1>1, OneState DEF State
<1>3. Store!Valid(j) <=> Valid(j)
  BY DEF Store!Valid, Valid
<1>4. CASE ~Valid(j)
  <2>1. raced' = raced /\ Content' = Content
    BY <1>1, <1>4, QuietStep DEF Begin
  <2> HIDE DEF State, Content
  <2>2. Store!Reject(c)
    BY <1>1, <1>2, <1>3, <1>4, <2>1 DEF Store!Reject
  <2> QED BY <2>2 DEF Store!Next
<1>5. CASE Valid(j)
  <2>1. raced' = raced \cup Store!Overlapping(c, j)
    BY <1>0, <1>5, StateFacts DEF Begin, Store!Overlapping, Store!Writes, Writes
  <2>2. ASSUME Writers \cap raced' = {} PROVE Content' = Content
    <3>1. \A d \in Putting : d \in Writers
      BY DEF Putting, Writers, Active, Inv, Shape
    <3>2. Putting' = Putting
      BY <1>1, <2>1, <2>2, <3>1 DEF Putting, Elsewhere
    <3> QED BY <1>1, <3>2, SameContent
  <2>3. Store!Writers \cap raced' = {} => Content' = Content
    BY <1>0, <2>2, StateFacts
  <2> HIDE DEF State, Content
  <2>4. Store!Start(c)
    BY <1>1, <1>2, <1>3, <1>5, <2>1, <2>3 DEF Store!Start
  <2> QED BY <2>4 DEF Store!Next
<1> QED BY <1>4, <1>5

\* To open a file is not seen unless it fails.
LEMMA OpenReadImplements ==
    ASSUME Inv, Inv', NEW c \in Calls, OpenRead(c)
    PROVE  [Store!Next]_(Store!vars)
<1>0. TypeOK /\ TypeOK'
  BY DEF Inv
<1>1. /\ pc[c] = "called" /\ job[c].tool = "file_read" /\ c \in Active
      /\ file' = file /\ job' = job /\ raced' = raced /\ Elsewhere(c)
      /\ \/ pc'[c] = "done" /\ answer' = [answer EXCEPT ![c] = Error]
         \/ pc'[c] = "scan" /\ answer' = answer
  BY <1>0, Frame DEF OpenRead, Return, Active, TypeOK, Step
<1>2. Content' = Content
  BY <1>1, QuietStep
<1>3. CASE pc'[c] = "scan" /\ answer' = answer
  <2>1. State' = State
    BY <1>0, <1>1, <1>3, OneState DEF State
  <2> QED BY <1>1, <1>2, <1>3, <2>1, StutterImplements
<1>4. CASE pc'[c] = "done" /\ answer' = [answer EXCEPT ![c] = Error]
  <2>1. CASE c \in raced
    BY <1>1, <1>2, <1>4, <2>1, RaceImplements
  <2>2. CASE c \notin raced
    BY <1>1, <1>4, <2>2, FailImplements
  <2> QED BY <2>1, <2>2
<1> QED BY <1>1, <1>3, <1>4

\* The end of the loop is the one step of a read.
LEMMA ScanImplements ==
    ASSUME Inv, Inv', NEW c \in Calls, Scan(c)
    PROVE  [Store!Next]_(Store!vars)
<1>0. TypeOK /\ TypeOK'
  BY DEF Inv
<1>1. /\ pc[c] = "scan" /\ job[c].tool = "file_read" /\ c \in Active
      /\ file' = file /\ job' = job /\ raced' = raced /\ Elsewhere(c)
  BY ScanCases
<1>2. CASE ScanSkips(c) \/ ScanTakes(c)
  <2>1. pc' = pc /\ answer' = answer
    BY <1>2 DEF ScanSkips, ScanTakes
  <2>2. Content' = Content
    BY <1>1, <2>1, QuietStep
  <2>3. State' = State
    BY <2>1 DEF State
  <2> QED BY <1>1, <2>1, <2>2, <2>3, StutterImplements
<1>3. CASE ScanEnds(c) \/ ScanFails(c)
  <2>1. pc'[c] = "done"
    BY <1>3, ScanKeepsTypes
  <2>2. CASE c \in raced
    <3>1. Content' = Content
      BY <1>1, <2>1, QuietStep
    <3> QED BY <1>1, <2>1, <2>2, <3>1, RaceImplements
  <2>3. CASE c \notin raced /\ ScanFails(c)
    <3>1. answer' = [answer EXCEPT ![c] = Error]
      BY <2>3 DEF ScanFails, Return
    <3> QED BY <1>1, <2>1, <2>3, <3>1, FailImplements
  <2>4. CASE c \notin raced /\ ScanEnds(c)
    <3>1. answer' = [answer EXCEPT ![c] = Store!Window(file, job[c].offset, job[c].limit)]
      BY <2>4, ScanFindsWindow DEF ScanEnds, ScanAtEnd, ScanHasAll, Return
    <3> QED BY <1>1, <2>1, <2>4, <3>1, ReadImplements
  <2> QED BY <1>3, <2>2, <2>3, <2>4
<1> QED BY <1>2, <1>3, ScanCases

\* What a writer does before it opens the file is not seen unless it fails.
LEMMA PrepareImplements ==
    ASSUME Inv, Inv', NEW c \in Calls, ReadFile(c) \/ MakeDir(c)
    PROVE  [Store!Next]_(Store!vars)
<1>0. TypeOK /\ TypeOK'
  BY DEF Inv
<1>1. /\ pc[c] = "called" /\ Writes(job[c]) /\ c \in Active
      /\ file' = file /\ job' = job /\ raced' = raced /\ Elsewhere(c)
  BY <1>0, Frame DEF ReadFile, MakeDir, Active, Step, Writes
<1>2. \/ pc'[c] = "open" /\ answer' = answer
      \/ pc'[c] = "done" /\ answer' = [answer EXCEPT ![c] = Error]
  BY <1>0 DEF ReadFile, MakeDir, Return, TypeOK
<1>3. Content' = Content
  BY <1>1, <1>2, QuietStep
<1>4. CASE pc'[c] = "open" /\ answer' = answer
  <2>1. State' = State
    BY <1>0, <1>1, <1>4, OneState DEF State
  <2> QED BY <1>1, <1>3, <1>4, <2>1, StutterImplements
<1>5. CASE pc'[c] = "done" /\ answer' = [answer EXCEPT ![c] = Error]
  <2>1. CASE c \in raced
    BY <1>1, <1>5, <2>1, RaceImplements
  <2>2. CASE c \notin raced
    BY <1>1, <1>5, <2>2, FailImplements
  <2> QED BY <2>1, <2>2
<1> QED BY <1>2, <1>4, <1>5

\* An undisturbed writer changes the file when it truncates it.
LEMMA TruncateImplements ==
    ASSUME Inv, Inv', NEW c \in Calls, Truncate(c)
    PROVE  [Store!Next]_(Store!vars)
<1>0. TypeOK /\ TypeOK' /\ Shape(c) /\ Writing(c)
  BY DEF Inv
<1>1. /\ pc[c] = "open" /\ Writes(job[c]) /\ c \in Active
      /\ job' = job /\ raced' = raced /\ text' = text /\ Elsewhere(c)
  BY <1>0, Frame DEF Truncate, Step, Active, Shape, locals, loop
<1>2. \/ pc'[c] = "put" /\ answer' = answer
      \/ pc'[c] = "done" /\ file' = file /\ answer' = [answer EXCEPT ![c] = Error]
  BY <1>0 DEF Truncate, Return, TypeOK
<1>3. CASE c \in raced
  BY <1>1, <1>2, <1>3, RaceImplements
<1>4. CASE c \notin raced /\ pc'[c] = "done"
  BY <1>1, <1>2, <1>4, FailImplements
<1>5. CASE c \notin raced /\ pc'[c] = "put"
  <2>1. Putting = {} /\ Content = file
    BY <1>1, <1>5, ContentIsFile
  <2>2. Putting' = {c}
    BY <1>1, <1>5, <2>1 DEF Putting, Elsewhere
  <2>3. Content' = text[c]
    BY <1>1, <2>2 DEF Content
  <2>4. State[c] = "called" /\ State' = [State EXCEPT ![c] = "changed"]
    BY <1>0, <1>1, <1>5, OneState DEF State
  <2>5. /\ job[c].tool = "file_edit" => Store!Editable(Content, job[c].old)
        /\ text[c] = IF job[c].tool = "file_write" THEN job[c].content
                     ELSE Store!Edited(Content, job[c].old, job[c].new)
    BY <1>0, <1>1, <1>5, <2>1 DEF Writing, Writes
  <2> HIDE DEF State, Content
  <2>6. Store!Change(c)
    BY <1>1, <1>2, <1>5, <2>3, <2>4, <2>5 DEF Store!Change, Store!Writes, Writes
  <2> QED BY <2>6 DEF Store!Next
<1> QED BY <1>2, <1>3, <1>4, <1>5

\* What is written to an empty file is all there is in it.
LEMMA OverwriteEmpty ==
    ASSUME NEW S, NEW data \in Seq(S)
    PROVE  Overwrite(<<>>, data) = data
<1>1. Len(data) \in Nat /\ Len(<<>>) = 0
  BY LenProperties, EmptySeq
<1>2. SubSeq(<<>>, Len(data) + 1, Len(<<>>)) = <<>>
  BY <1>1, SubSeqEmpty
<1>3. data \o <<>> = data
  BY ConcatEmptySeq
<1> QED BY <1>2, <1>3 DEF Overwrite

\* An undisturbed write confirms the change, or leaves a beginning of it.
LEMMA PutImplements ==
    ASSUME Inv, Inv', NEW c \in Calls, Put(c)
    PROVE  [Store!Next]_(Store!vars)
<1>0. TypeOK /\ TypeOK' /\ Writing(c)
  BY DEF Inv
<1>1. /\ pc[c] = "put" /\ Writes(job[c]) /\ c \in Active
      /\ text[c] \in Seq(Bytes)
      /\ job' = job /\ raced' = raced /\ Elsewhere(c)
      /\ pc' = [pc EXCEPT ![c] = "done"]
  BY PutCases
<1>2. pc'[c] = "done"
  BY <1>0, <1>1 DEF TypeOK
<1>3. CASE c \in raced
  BY <1>1, <1>2, <1>3, RaceImplements
<1>4. CASE c \notin raced
  <2>1. file = <<>>
    BY <1>0, <1>1, <1>4 DEF Writing
  <2>2. CASE /\ file' = Overwrite(file, text[c])
             /\ answer' = [answer EXCEPT ![c] = Success(<<>>)]
    <3>1. file' = text[c]
      BY <1>1, <2>1, <2>2, OverwriteEmpty
    <3>2. Putting = {c} /\ Content = text[c]
      BY <1>1, <1>4, ContentIsText
    <3>3. Putting' = {}
      BY <1>1, <1>2, <3>2 DEF Putting, Elsewhere
    <3>4. Content' = Content
      BY <3>1, <3>2, <3>3 DEF Content
    <3>5. State[c] = "changed" /\ State' = [State EXCEPT ![c] = "done"]
      BY <1>0, <1>1, <1>2, OneState DEF State
    <3> HIDE DEF State, Content
    <3>6. Store!Confirm(c)
      BY <1>1, <1>4, <2>2, <3>4, <3>5
         DEF Store!Confirm, Store!Finish, Store!Success, Success
    <3> QED BY <3>6 DEF Store!Next
  <2>3. CASE /\ answer' = [answer EXCEPT ![c] = Error]
             /\ \E n \in 0 .. Len(text[c]) :
                    /\ file' = Overwrite(file, SubSeq(text[c], 1, n))
                    /\ SubSeq(text[c], 1, n) \in Seq(Bytes)
    <3>1. \E n \in 0 .. Len(text[c]) : file' = SubSeq(text[c], 1, n)
      BY <2>1, <2>3, OverwriteEmpty
    <3> QED BY <1>1, <1>2, <1>4, <2>3, <3>1, FailImplements
  <2> QED BY <2>2, <2>3, PutCases
<1> QED BY <1>3, <1>4

\* A call that overlaps no other writer of its file is atomic and exact: a read
\* that succeeds returns the window asked for, an edit is made only if old_string
\* occurs and no two occurrences are apart, and replaces the first one alone,
\* success means that the text is in, and an error leaves the file as it was or
\* with a beginning of the new text.
THEOREM ImplementsFileStore == Spec => KeepsFileStore
<1>1. Inv /\ Inv' /\ [Next]_vars => [Store!Next]_(Store!vars)
  <2> SUFFICES ASSUME Inv, Inv', [Next]_vars
               PROVE  [Store!Next]_(Store!vars)
    OBVIOUS
  <2>1. ASSUME NEW c \in Calls, Step(c) PROVE [Store!Next]_(Store!vars)
    BY <2>1, OpenReadImplements, ScanImplements, PrepareImplements, TruncateImplements,
       PutImplements
       DEF Step
  <2>2. ASSUME NEW c \in Calls, NEW j \in Jobs, Begin(c, j)
        PROVE  [Store!Next]_(Store!vars)
    BY <2>2, BeginImplements
  <2>3. CASE UNCHANGED vars
    <3>1. UNCHANGED <<Content, job, State, answer, raced>>
      BY <2>3 DEF vars, Content, Putting, State
    <3> QED BY <3>1, StutterImplements
  <2> QED BY <2>1, <2>2, <2>3 DEF Next
<1> QED BY <1>1, InitImplements, Invariance, PTL DEF Spec, KeepsFileStore, Store!Spec

----------------------------------------------------------------------------
(***************************************************************************)
(* What is left of the promise of file_write when no calls overlap.        *)
(***************************************************************************)
Written(c) == pc[c] = "done" /\ answer[c].ok /\ job[c].tool = "file_write"

\* Whatever was called so far has come to its end and was a file_write that
\* succeeded.
OnlyWritten ==
    /\ \A c \in Calls : pc[c] = "done" => Written(c)
    /\ \A c \in Calls : pc[c] # "put"
    /\ \E c \in Calls : Written(c)

\* A call has no answer before its end and is to put its content; one of the
\* contents is in the file.
OneByOne ==
    /\ \A c \in Calls : pc[c] # "done" => answer[c] = Error
    /\ \A c \in Calls :
          pc[c] \in {"open", "put"} /\ job[c].tool = "file_write"
              => text[c] = job[c].content
    /\ raced = {} /\ OnlyWritten => \E c \in Calls : Written(c) /\ file = job[c].content

\* A step that leaves the file keeps OneByOne if its call has not succeeded.
LEMMA UnchangedFile ==
    ASSUME OneByOne, NEW c \in Calls, Elsewhere(c),
           raced \subseteq raced', file' = file, pc[c] # "done",
           pc'[c] = "done" => ~Written(c)',
           pc[c] # "put" \/ pc'[c] = "done",
           pc'[c] # "done" => answer'[c] = Error,
           pc'[c] \in {"open", "put"} /\ job'[c].tool = "file_write"
               => text'[c] = job'[c].content
    PROVE  OneByOne'
<1>1. \A d \in Calls : pc'[d] # "done" => answer'[d] = Error
  BY DEF OneByOne, Elsewhere
<1>2. \A d \in Calls : pc'[d] \in {"open", "put"} /\ job'[d].tool = "file_write"
          => text'[d] = job'[d].content
  BY DEF OneByOne, Elsewhere
<1>3. ASSUME raced' = {}, OnlyWritten'
      PROVE  \E d \in Calls : Written(d)' /\ file' = job'[d].content
  <2>1. pc'[c] # "done" /\ pc[c] # "put"
    BY <1>3 DEF OnlyWritten
  <2>2. \A d \in Calls : d # c => (Written(d)' <=> Written(d))
    BY DEF Written, Elsewhere
  <2>3. ~Written(c) /\ ~Written(c)'
    BY <2>1 DEF Written
  <2>4. OnlyWritten
    BY <1>3, <2>1, <2>2, <2>3 DEF OnlyWritten, Elsewhere
  <2>5. PICK d \in Calls : Written(d) /\ file = job[d].content
    BY <1>3, <2>4 DEF OneByOne
  <2>6. d # c
    BY <2>3, <2>5
  <2> QED BY <2>2, <2>5, <2>6 DEF Elsewhere
<1> QED BY <1>1, <1>2, <1>3 DEF OneByOne

\* Every step keeps OneByOne.
LEMMA OneByOneKept == Inv /\ OneByOne /\ [Next]_vars => OneByOne'
<1> SUFFICES ASSUME Inv, OneByOne, [Next]_vars PROVE OneByOne'
  OBVIOUS
<1>0. TypeOK /\ \A c \in Calls : Shape(c) /\ Writing(c)
  BY DEF Inv
<1>1. ASSUME NEW c \in Calls, NEW j \in Jobs, Begin(c, j) PROVE OneByOne'
  <2>1. Elsewhere(c) /\ raced \subseteq raced' /\ file' = file /\ pc[c] = "idle"
    BY <1>0, <1>1, Frame DEF Begin
  <2>2. answer'[c] = Error /\ pc'[c] \in {"called", "done"}
    BY <1>0, <1>1 DEF Begin, OneByOne, TypeOK
  <2> QED BY <2>1, <2>2, UnchangedFile DEF Written, Error
<1>2. ASSUME NEW c \in Calls, OpenRead(c) PROVE OneByOne'
  <2>1. Elsewhere(c) /\ raced' = raced /\ file' = file /\ pc[c] = "called"
    BY <1>0, <1>2, Frame DEF OpenRead, Step
  <2>2. \/ pc'[c] = "done" /\ answer'[c] = Error
        \/ pc'[c] = "scan" /\ answer'[c] = answer[c]
    BY <1>0, <1>2 DEF OpenRead, Return, TypeOK
  <2> QED BY <2>1, <2>2, UnchangedFile DEF Written, Error, OneByOne
<1>3. ASSUME NEW c \in Calls, Scan(c) PROVE OneByOne'
  <2>1. /\ Elsewhere(c) /\ raced' = raced /\ file' = file /\ job' = job
        /\ pc[c] = "scan" /\ job[c].tool = "file_read"
    BY <1>0, <1>3, Frame DEF Scan, Step, Shape
  <2>2. pc'[c] = "done" \/ (pc'[c] = "scan" /\ answer'[c] = answer[c])
    BY <1>0, <1>3 DEF Scan, Return, TypeOK
  <2> QED BY <2>1, <2>2, UnchangedFile DEF Written, OneByOne
<1>4. ASSUME NEW c \in Calls, ReadFile(c) PROVE OneByOne'
  <2>1. /\ Elsewhere(c) /\ raced' = raced /\ file' = file /\ job' = job
        /\ pc[c] = "called" /\ job[c].tool = "file_edit"
    BY <1>0, <1>4, Frame DEF ReadFile, Step
  <2>2. pc'[c] = "done" \/ (pc'[c] = "open" /\ answer'[c] = answer[c])
    BY <1>0, <1>4 DEF ReadFile, Return, TypeOK
  <2> QED BY <2>1, <2>2, UnchangedFile DEF Written, OneByOne
<1>5. ASSUME NEW c \in Calls, MakeDir(c) PROVE OneByOne'
  <2>1. /\ Elsewhere(c) /\ raced' = raced /\ file' = file /\ job' = job
        /\ pc[c] = "called"
    BY <1>0, <1>5, Frame DEF MakeDir, Step
  <2>2. \/ pc'[c] = "done" /\ answer'[c] = Error
        \/ pc'[c] = "open" /\ answer'[c] = answer[c] /\ text'[c] = job[c].content
    BY <1>0, <1>5 DEF MakeDir, Return, TypeOK
  <2> QED BY <2>1, <2>2, UnchangedFile DEF Written, Error, OneByOne
<1>6. ASSUME NEW c \in Calls, Truncate(c) PROVE OneByOne'
  <2>1. /\ Elsewhere(c) /\ raced' = raced /\ job' = job /\ text' = text
        /\ pc[c] = "open"
    BY <1>0, <1>6, Frame DEF Truncate, Step, locals, loop
  <2>2. \/ pc'[c] = "done" /\ answer'[c] = Error /\ file' = file
        \/ pc'[c] = "put" /\ answer'[c] = answer[c]
    BY <1>0, <1>6 DEF Truncate, Return, TypeOK
  <2>3. CASE pc'[c] = "done" /\ answer'[c] = Error /\ file' = file
    BY <2>1, <2>3, UnchangedFile DEF Written, Error
  <2>4. CASE pc'[c] = "put" /\ answer'[c] = answer[c]
    <3>1. ~OnlyWritten'
      BY <2>4 DEF OnlyWritten
    <3> QED BY <2>1, <2>4, <3>1 DEF OneByOne, Elsewhere
  <2> QED BY <2>2, <2>3, <2>4
<1>7. ASSUME NEW c \in Calls, Put(c) PROVE OneByOne'
  <2>1. /\ Elsewhere(c) /\ raced' = raced /\ job' = job
        /\ pc[c] = "put" /\ pc'[c] = "done" /\ text[c] \in Seq(Bytes)
    BY <1>0, <1>7, PutCases DEF TypeOK
  <2>2. \/ answer'[c] = Error
        \/ answer'[c] = Success(<<>>) /\ file' = Overwrite(file, text[c])
    BY <1>0, <1>7 DEF Put, Return, TypeOK
  <2>3. ASSUME raced' = {}, OnlyWritten'
        PROVE  Written(c)' /\ file' = job'[c].content
    <3>1. Written(c)'
      BY <2>1, <2>3 DEF OnlyWritten
    <3>2. file' = Overwrite(file, text[c]) /\ job[c].tool = "file_write"
      BY <2>1, <2>2, <3>1 DEF Written, Error
    <3>3. file = <<>>
      BY <1>0, <2>1, <2>3 DEF Writing
    <3>4. text[c] = job[c].content
      BY <2>1, <3>2 DEF OneByOne
    <3> QED BY <2>1, <3>1, <3>2, <3>3, <3>4, OverwriteEmpty
  <2> QED BY <2>1, <2>3 DEF OneByOne, Elsewhere
<1>8. CASE UNCHANGED vars
  BY <1>8 DEF vars, OneByOne, OnlyWritten, Written
<1> QED BY <1>1, <1>2, <1>3, <1>4, <1>5, <1>6, <1>7, <1>8 DEF Next, Step

\* "Execute creates or overwrites a file with the given content" holds of calls
\* that do not overlap: when all were file_writes and succeeded, the file holds
\* the content of one of them, whole.
THEOREM WholeWhenAlone ==
    ASSUME Calls # {}
    PROVE  Spec => [](raced = {} => WrittenWhole)
<1>1. Init => OneByOne
  BY DEF Init, OneByOne, OnlyWritten, Written
<1>2. OneByOne => (raced = {} => WrittenWhole)
  BY DEF OneByOne, OnlyWritten, Written, WrittenWhole
<1> QED BY <1>1, <1>2, OneByOneKept, Invariance, PTL DEF Spec
=============================================================================
