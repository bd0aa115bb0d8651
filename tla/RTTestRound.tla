---------------------------- MODULE RTTestRound -----------------------------
(***************************************************************************)
(* The runner and the reader of its report, joined by the report: a pipe,  *)
(* where the reader follows the runner, or a file, where it comes after.   *)
(***************************************************************************)
EXTENDS RTTest, Sublists

CONSTANT Sources     \* what the reader's source files may hold

ASSUME SourcesAssumption ==
    \A lines \in Sources :
        /\ lines \in Seq(ToSet(lines))
        /\ \A n \in DOMAIN lines :
              /\ lines[n].kind \in {"file", "start", "test", "end"}
              /\ lines[n].kind = "start" => lines[n].valid \in BOOLEAN

VARIABLES source, rttmap, at, pos, gid, count, testno, failures, verdict

Reader == INSTANCE RTTestReader WITH input <- report, ended <- Stopped

reader == <<source, rttmap, at, pos, gid, count, testno, failures, verdict>>
vars == <<runner, reader>>

Init == RunnerInit /\ Reader!ReaderInit

RunnerStep == RunnerNext /\ UNCHANGED reader
ReaderStep == Reader!ReaderNext /\ UNCHANGED runner

Next == RunnerStep \/ ReaderStep

Spec == Init /\ [][Next]_vars

(* A run that was started goes on: test cases return.  So does the reader. *)
FairSpec ==
    /\ Spec
    /\ WF_vars(Running /\ UNCHANGED reader)
    /\ WF_vars(ReaderStep)

(***************************************************************************)
(* Properties.                                                             *)
(***************************************************************************)

FailedCases(entry) ==
    Picked(groups[entry.group].cases,
           {k \in DOMAIN entry.verdicts : entry.verdicts[k] # "pass"})

Failed == FlattenSeq([k \in DOMAIN log |-> FailedCases(log[k])])

(* What the output lost, if anything, is an end of what was written: it    *)
(* failed once and for good (a full disk, a closed pipe).                  *)
Unbroken == IsPrefix(report, written)

(* Where the mark of the last group belongs stands the mark of the end:    *)
(* its own was refused, and its id follows all the same (rttest.c:195-208)  *)
(* and begins with that octet.                                             *)
Before == FourCC \o FlattenSeq([k \in 1..(Len(log) - 1) |-> GroupReport(log[k])])
IdTakenForEnd ==
    /\ refused /\ log # <<>>
    /\ BigEndian(groups[log[Len(log)].group].id)[1] = EndOfFile
    /\ Len(Before) < Len(written) /\ written[Len(Before) + 1] = EndOfFile

Known(k) == groups[k].id \in DOMAIN rttmap
Names(k) == rttmap[groups[k].id]

(* The source files are those of the program as far as the number of test  *)
(* cases goes; or to the names and the order of RTT_GROUP_END.             *)
Counted ==
    \A k \in Selected : Known(k) => Len(Names(k)) = Len(groups[k].cases)
Listed == \A k \in Selected : Known(k) => Names(k) = groups[k].cases

(* "UNIT TEST PASS" is only ever said of a run that did all it was asked   *)
(* to without a failure, and whose whole report arrived, wherever an octet *)
(* was refused, the program died or the output gave up for good            *)
(* (rttest2text.py:136-145); but for that one case.                        *)
PassIsTrue ==
    verdict = "pass" /\ Counted /\ Unbroken =>
        \/ Finished /\ report = written /\ EverythingRun /\ Failed = <<>>
        \/ IdTakenForEnd

(* The test cases printed as FAIL are those that failed, in order; whether *)
(* source files lack other groups or not.                                  *)
FailuresAreNamed ==
    verdict \in {"pass", "fail"} /\ Listed /\ Unbroken =>
        failures = Failed \/ IdTakenForEnd

(* A whole report of known groups is read to its end: result octets and    *)
(* ids that look like marks confuse nobody (rttest2text.py:147-190).       *)
NoFalseAlarm ==
    verdict = "error" /\ Finished /\ report = written =>
        \/ pos = 0                   \* the source files were refused
        \/ ~Counted \/ \E k \in Selected : ~Known(k)

MapIsDeclared == Reader!MapIsDeclared

(* Once started, runner and reader come to a verdict.                      *)
VerdictReached == pc = "fourcc" ~> verdict # "none"
=============================================================================
