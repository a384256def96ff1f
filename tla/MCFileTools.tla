----------------------------- MODULE MCFileTools ----------------------------
EXTENDS FileTools, TLC

CONSTANTS a, b, C1, C2, C3

MCDefaultLimit == 2
MCMaxLine == 4

Read(offset, limit) ==
    [tool |-> "file_read", path |-> "f", offset |-> offset, limit |-> limit]
Write(content) == [tool |-> "file_write", path |-> "f", content |-> content]
Edit(old, new) == [tool |-> "file_edit", path |-> "f", old |-> old, new |-> new]

\* A file with an empty line, a carriage return and no final newline, and one
\* whose second line is too long by one byte.
MCOriginals == {Absent, <<a, a, a, NL, b, CR, NL, NL, a>>, <<b, NL, a, b, a, b, NL>>}

\* Windows before, in, at the end of and behind the text, without a limit,
\* with a negative one and with a negative offset; an old_string that occurs
\* in overlapping places, one with a newline; texts longer and shorter than
\* what is there.
MCJobs ==
    {Read(0, 0), Read(1, 1), Read(2, 1), Read(1, -1), Read(-1, 4), Read(9, 1),
     Write(<<b, NL>>), Write(<<a, NL, b, a>>),
     Edit(<<a>>, <<b, b>>), Edit(<<a, a>>, <<b>>), Edit(<<b, CR, NL>>, <<>>),
     Edit(<<a>>, <<a>>), Edit(<<>>, <<b>>), [Write(<<a>>) EXCEPT !.path = ""]}

\* Two calls of file_write on one file.
WriteJobs == {Write(<<b, NL>>), Write(<<a, a, a, NL>>)}

MCSymmetry == Permutations({C1, C2, C3})
=============================================================================
