------------------------------ MODULE MCRTTest ------------------------------
(***************************************************************************)
(* Test programs for TLC.  Octets have two bits, so that two groups of two *)
(* and three cases fill an octet, and fill one and a half; the marks are   *)
(* 1, 2 and 3, so that ids and results look like marks.                    *)
(***************************************************************************)
EXTENDS RTTestRound

MCFourCC == <<0, 1, 1, 2>>

Plain(x, list) == [id |-> x, cases |-> list, entry |-> FALSE, exit |-> FALSE]

\* The octets of 27 are 0, 1, 2, 3, those of 228 are 3, 2, 1, 0: this id
\* begins with the mark of the end.
Long == [Plain(27, <<"a", "b", "c">>) EXCEPT !.entry = TRUE]
Even == [Plain(228, <<"d", "e">>) EXCEPT !.exit = TRUE]

TwoGroups == {Long, Even}

SelectAll == {{}}
SelectSome == {{}, {27}}

\* Source files: those of the program; and others, which are read with
\* programs of one group.
File == [kind |-> "file"]
End == [kind |-> "end"]
Start(x) == [kind |-> "start", id |-> x, valid |-> TRUE]
NoNumber == [kind |-> "start", id |-> 0, valid |-> FALSE]
Tests(list) == [k \in DOMAIN list |-> [kind |-> "test", name |-> list[k]]]
Source(x, list) == <<Start(x)>> \o Tests(list) \o <<End>>

Good == <<File>> \o Source(27, <<"a", "b", "c">>) \o Source(228, <<"d", "e">>)
GoodSource == {Good}

SomeSources ==
    {Good,
     <<File>> \o Source(228, <<"e", "d">>),                \* another order
     <<File>> \o Source(228, <<>>) \o <<End>>,             \* an empty group
     <<File, Start(27), File>> \o Source(228, <<"d", "e">>), \* one left open
     <<File, Start(27)>> \o Source(228, <<"d", "e">>),      \* one in another
     <<File>> \o Source(27, <<"a">>) \o Tests(<<"b">>),     \* a stray case
     <<File>> \o Source(27, <<"a">>) \o <<File, End>>,      \* a stray end
     Good \o Source(27, <<"a">>),                          \* an id used twice
     <<File, NoNumber>> \o Tests(<<"a">>) \o <<End>>}       \* no id

OneGroupUnlessGood == source = Good \/ Len(groups) <= 1

\* A gap: what follows it arrives.  A run has one at most, then no refusal
\* and no panic, and its report is read when it is whole.
Gap(a, b) ==
    report = SubSeq(written, 1, a) \o SubSeq(written, a + b + 1, Len(written))

OneGap ==
    \/ Unbroken
    \/ /\ \E a \in 0..Len(report) : Gap(a, Len(written) - Len(report))
       /\ ~refused /\ pc # "panic" /\ ret >= 0
       /\ Stopped \/ pos = 0

\* For what concerns the runner alone: nothing is lost, and nobody reads.
RunnerAlone == report = written /\ pos = 0
=============================================================================
