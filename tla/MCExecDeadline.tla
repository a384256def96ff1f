---------------------------- MODULE MCExecDeadline --------------------------
EXTENDS ExecDeadline

\* Two ticks to the second, so that deadlines have fractions; a timeout of two
\* is exactly one second.
MCTimeouts == {-1, 0, 2, 3, 6}
MCCallers == {{}, {-1}, {1}, {2}, {5}, {7}}

\* With MaxDuration 15 asking bash for 8 seconds wraps to a negative limit,
\* for 17 to one second.
MCTools ==
    [kind : {"bash"}, asked : {0, 1, 3, 8, 17}, obeys : BOOLEAN]
        \cup [kind : {"web_fetch"}, asked : {0}, obeys : {TRUE}]
        \cup [kind : {"other"}, asked : {0}, obeys : BOOLEAN]
=============================================================================
