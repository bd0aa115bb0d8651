------------------------------- MODULE RTTest -------------------------------
(***************************************************************************)
(* The test runner: test groups register themselves before main, and       *)
(* RTTestRun runs the selected ones and reports on them octet by octet,    *)
(* through a function of the program that may refuse an octet (src/rttest).*)
(*                                                                         *)
(* One step is one call out of the runner: of a test case, an entry or     *)
(* exit action, or of wrOctet.  The number of bits of an octet is a        *)
(* constant, 8 in the code: a group id has four octets, and an octet of    *)
(* results has one bit per test case.                                      *)
(***************************************************************************)
EXTENDS Powers, Sequences, FiniteSetsExt, SequencesExt

CONSTANTS
    OctetBits,                          \* CHAR_BIT
    FourCC,                             \* RTTEST_FOUR_CC
    EnterGroup, ExitGroup, EndOfFile,   \* the marks of rttest_format.h
    Group,                              \* the test groups of the program
    Selections                          \* the sets of ids main may pass

Octet == 0..(Power(2, OctetBits) - 1)
GroupId == 0..(Power(2, 4 * OctetBits) - 1)

ASSUME RTTestAssumption ==
    /\ OctetBits \in Nat \ {0}
    /\ FourCC \in Seq(Octet) /\ Len(FourCC) = 4
    /\ {EnterGroup, ExitGroup, EndOfFile} \subseteq Octet
    /\ EnterGroup # EndOfFile
    /\ \A g \in Group :
          /\ g.id \in GroupId
          /\ g.cases \in Seq(ToSet(g.cases)) \ {<<>>}   \* as in RTT_GROUP_END
          /\ g.entry \in BOOLEAN        \* has an entry action
          /\ g.exit \in BOOLEAN         \* has an exit action
    /\ Selections \subseteq SUBSET GroupId

VARIABLES
    groups,         \* the list that starts at gFirstGroup
    selection,      \* the ids to run, {} for all
    pc,             \* what the runner calls next
    group, i,       \* the group under way, and the counter of its inner loops
    id,             \* what is left to write of the group id
    asserted, resultBits, ret,
    written,        \* history: the octets that wrOctet accepted
    report,         \* those of them that reached the output
    refused,        \* history: has wrOctet returned RTFalse?
    log             \* history: the groups started, with what their cases did

program == <<groups, selection>>
results == <<asserted, resultBits>>
output == <<written, report, refused>>
runner == <<program, pc, group, i, id, results, ret, output, log>>

Verdict == {"pass", "fail", "abort", "skipped"}

(***************************************************************************)
(* Registration, one call per group, in any order.                         *)
(***************************************************************************)

IsIn(x, set) == set = {} \/ x \in set

(* Only the ids before the last are compared with the new one. *)
RTPrivTestRegisterGroup(g) ==
    /\ pc = "off"
    /\ g \notin ToSet(groups)
    /\ IF \E k \in 1..(Len(groups) - 1) : groups[k].id = g.id
       THEN pc' = "panic" /\ UNCHANGED groups
       ELSE groups' = Append(groups, g) /\ UNCHANGED pc
    /\ UNCHANGED <<selection, group, i, id, results, ret, output, log>>

RTTestRun(ids) ==
    /\ pc = "off"
    /\ selection' = ids
    /\ pc' = IF groups = <<>> THEN "panic" ELSE "fourcc"
    /\ i' = 0
    /\ UNCHANGED <<groups, group, id, results, ret, output, log>>

(***************************************************************************)
(* wrOctet: what rttest.h says of it, and what rttestmain.c does, which    *)
(* accepts every octet, also when write() fails.  Each octet has a write() *)
(* of its own, so that any of them may be lost and a later one not.        *)
(***************************************************************************)
WrOctet(octet, ok) ==
    \/ /\ ok
       /\ written' = Append(written, octet)
       /\ report' \in {Append(report, octet), report}
       /\ UNCHANGED refused
    \/ ~ok /\ refused' = TRUE /\ UNCHANGED <<written, report>>

(* Faulty variant: the answer is not looked at. *)
AnsweredAlways(ok, r) == r

Answered(ok, r) == IF ok THEN r ELSE -1

Selected == {k \in DOMAIN groups : IsIn(groups[k].id, selection)}

(* The loop over the groups goes on after position k. *)
NextGroup(k) ==
    LET rest == {j \in Selected : j > k}
    IN  IF rest = {}
        THEN pc' = "eof" /\ UNCHANGED <<group, ret, log>>
        ELSE /\ pc' = "mark"
             /\ group' = Min(rest)
             /\ ret' = 0
             /\ log' = Append(log, [group |-> Min(rest), verdicts |-> <<>>])

WritePreamble ==
    /\ pc = "fourcc"
    /\ \E ok \in BOOLEAN :
          /\ WrOctet(FourCC[i + 1], ok)
          /\ \/ ok /\ i < 3 /\ i' = i + 1 /\ UNCHANGED <<pc, group, ret, log>>
             \/ ok /\ i = 3 /\ NextGroup(0) /\ UNCHANGED i
             \/ ~ok /\ pc' = "done" /\ ret' = -1 /\ UNCHANGED <<i, group, log>>
    /\ UNCHANGED <<program, id, results>>

(***************************************************************************)
(* rttestRunGroup and rttestRunTestCases.                                  *)
(***************************************************************************)

Cases == groups[group].cases

(* Faulty variant: one assertion fails all later groups. *)
StartCasesKeepingAsserted ==
    /\ pc' = "case"
    /\ i' = 0
    /\ resultBits' = 0
    /\ UNCHANGED asserted

StartCases ==
    /\ pc' = "case"
    /\ i' = 0
    /\ asserted' = FALSE
    /\ resultBits' = 0

AfterCases == IF groups[group].exit THEN "exit" ELSE "endmark"

(* A refused mark is remembered, and the id is written all the same. *)
EnterMark ==
    /\ pc = "mark"
    /\ \E ok \in BOOLEAN :
          /\ WrOctet(EnterGroup, ok)
          /\ ret' = Answered(ok, 0)
    /\ pc' = "id"
    /\ i' = 0
    /\ id' = groups[group].id
    /\ UNCHANGED <<program, group, results, log>>

(* Faulty variant: the id is kept in more than 32 bits. *)
ShiftedWide(x) == x * Power(2, OctetBits)

ShiftedUp(x) == (x * Power(2, OctetBits)) % Power(2, 4 * OctetBits)

(* Big-endian: the top octet goes out, and the rest is shifted up in 32 bits. *)
IdOctet ==
    /\ pc = "id"
    /\ \E ok \in BOOLEAN :
          /\ WrOctet(id \div Power(2, 3 * OctetBits), ok)
          /\ ret' = Answered(ok, ret)
          /\ \/ /\ ok /\ i < 3
                /\ i' = i + 1
                /\ id' = ShiftedUp(id)
                /\ UNCHANGED <<pc, results>>
             \/ /\ ok /\ i = 3 /\ ret >= 0
                /\ IF groups[group].entry
                   THEN pc' = "entry" /\ UNCHANGED <<i, results>>
                   ELSE StartCases
                /\ UNCHANGED id
             \/ /\ ~ok \/ (i = 3 /\ ret < 0)
                /\ pc' = "done"
                /\ UNCHANGED <<i, id, results>>
    /\ UNCHANGED <<program, group, log>>

EntryAction ==
    /\ pc = "entry"
    /\ \/ StartCases /\ UNCHANGED ret
       \/ pc' = "done" /\ ret' = -2 /\ UNCHANGED <<i, results>>
    /\ UNCHANGED <<program, group, id, output, log>>

SetBit(x, b) == IF HasBit(x, b) THEN x ELSE x + Power(2, b)

(* Faulty variant: an octet follows the cases even if none is begun. *)
NextCaseOctetTooMany ==
    /\ i' = i + 1
    /\ pc' = IF i + 1 < Len(Cases) THEN "case" ELSE "last"

(* The end of an iteration of the loop over the test cases. *)
NextCase ==
    /\ i' = i + 1
    /\ pc' = IF i + 1 < Len(Cases) THEN "case"
             ELSE IF (i + 1) % OctetBits # 0 THEN "last"
             ELSE AfterCases

(* A test case is called, unless an earlier one of the group has asserted. *)
TestCase ==
    /\ pc = "case"
    /\ \E v \in Verdict :
          /\ asserted <=> v = "skipped"
          /\ asserted' = (asserted \/ v = "abort")
          /\ resultBits' = IF v = "pass" THEN resultBits
                           ELSE SetBit(resultBits, i % OctetBits)
          /\ ret' = IF v = "pass" THEN ret ELSE ret + 1
          /\ log' = [log EXCEPT ![Len(log)] =
                        [group |-> group, verdicts |-> Append(@.verdicts, v)]]
    /\ IF (i + 1) % OctetBits = 0
       THEN pc' = "octet" /\ UNCHANGED i
       ELSE NextCase
    /\ UNCHANGED <<program, group, id, output>>

(* Faulty variant: the case is run again. *)
AfterRefusalAgain == "case"

(* A refused octet ends the loop, and is written once more after it. *)
AfterRefusal == IF i % OctetBits # 0 THEN "last" ELSE "done"

ResultOctet ==
    /\ pc = "octet"
    /\ \E ok \in BOOLEAN :
          /\ WrOctet(resultBits, ok)
          /\ ret' = Answered(ok, ret)
          /\ \/ ok /\ resultBits' = 0 /\ NextCase
             \/ ~ok /\ pc' = AfterRefusal /\ UNCHANGED <<resultBits, i>>
    /\ UNCHANGED <<program, group, id, asserted, log>>

LastOctet ==
    /\ pc = "last"
    /\ \E ok \in BOOLEAN :
          /\ WrOctet(resultBits, ok)
          /\ ret' = Answered(ok, ret)
          /\ pc' = IF ok /\ ret >= 0 THEN AfterCases ELSE "done"
    /\ UNCHANGED <<program, group, i, id, results, log>>

ExitAction ==
    /\ pc = "exit"
    /\ \/ pc' = "endmark" /\ UNCHANGED ret
       \/ pc' = "done" /\ ret' = -3
    /\ UNCHANGED <<program, group, i, id, results, output, log>>

ExitMark ==
    /\ pc = "endmark"
    /\ \E ok \in BOOLEAN :
          /\ WrOctet(ExitGroup, ok)
          /\ \/ ok /\ NextGroup(group)
             \/ ~ok /\ pc' = "done" /\ ret' = -1 /\ UNCHANGED <<group, log>>
    /\ UNCHANGED <<program, i, id, results>>

WriteEndOfFile ==
    /\ pc = "eof"
    /\ \E ok \in BOOLEAN :
          /\ WrOctet(EndOfFile, ok)
          /\ ret' = Answered(ok, ret)
    /\ pc' = "done"
    /\ UNCHANGED <<program, group, i, id, results, log>>

(* An assertion fails in the code under test: RTPanic ends the program. *)
Panic ==
    /\ pc \in {"entry", "exit"} \/ (pc = "case" /\ ~asserted)
    /\ pc' = "panic"
    /\ UNCHANGED <<program, group, i, id, results, ret, output, log>>

RunnerInit ==
    /\ groups = <<>> /\ selection = {}
    /\ pc = "off"
    /\ group = 0 /\ i = 0 /\ id = 0
    /\ asserted = FALSE /\ resultBits = 0 /\ ret = 0
    /\ written = <<>> /\ report = <<>> /\ refused = FALSE /\ log = <<>>

Running ==
    \/ WritePreamble \/ EnterMark \/ IdOctet \/ EntryAction \/ TestCase
    \/ ResultOctet \/ LastOctet \/ ExitAction \/ ExitMark \/ WriteEndOfFile
    \/ Panic

RunnerNext ==
    \/ \E g \in Group : RTPrivTestRegisterGroup(g)
    \/ \E ids \in Selections : RTTestRun(ids)
    \/ Running

(***************************************************************************)
(* What the report should be, from what the test cases did.                *)
(***************************************************************************)

BigEndian(x) == [k \in 1..4 |-> (x \div Power(2, (4 - k) * OctetBits)) % Power(2, OctetBits)]

FailedAt(verdicts, n) == n \in DOMAIN verdicts /\ verdicts[n] # "pass"

(* The octet about the cases from n on: one bit per failed case.           *)
OctetOf(verdicts, n) ==
    CHOOSE x \in Octet : \A b \in 0..(OctetBits - 1) :
        HasBit(x, b) <=> FailedAt(verdicts, n + b)

ResultOctets(verdicts) ==
    [k \in 1..((Len(verdicts) + OctetBits - 1) \div OctetBits) |->
        OctetOf(verdicts, (k - 1) * OctetBits + 1)]

GroupReport(entry) ==
    <<EnterGroup>> \o BigEndian(groups[entry.group].id)
        \o ResultOctets(entry.verdicts) \o <<ExitGroup>>

FullReport ==
    FourCC \o FlattenSeq([k \in DOMAIN log |-> GroupReport(log[k])])
           \o <<EndOfFile>>

Stopped == pc \in {"done", "panic"}
Finished == pc = "done" /\ ret >= 0

(* Every selected group was run to its last test case, in the order of     *)
(* registration.                                                           *)
EverythingRun ==
    /\ ToSet([k \in DOMAIN log |-> log[k].group]) = Selected
    /\ \A j, k \in DOMAIN log : j < k => log[j].group < log[k].group
    /\ \A k \in DOMAIN log :
          Len(log[k].verdicts) = Len(groups[log[k].group].cases)

(***************************************************************************)
(* Properties.                                                             *)
(***************************************************************************)

(* The runner's variables stay in range: ids in 32 bits, results in 8.     *)
TypeOK ==
    /\ ToSet(groups) \subseteq Group
    /\ selection \in Selections \cup {{}}
    /\ pc \in {"off", "fourcc", "mark", "id", "entry", "case", "octet", "last",
               "exit", "endmark", "eof", "done", "panic"}
    /\ group \in 0..Len(groups)
    /\ i \in Nat
    /\ id \in GroupId
    /\ resultBits \in Octet
    /\ asserted \in BOOLEAN /\ refused \in BOOLEAN
    /\ ret \in Int /\ ret >= -3
    /\ written \in Seq(Octet) /\ report \in Seq(Octet)
    /\ \A k \in DOMAIN log : log[k].verdicts \in Seq(Verdict)

(* A run that returns no error has run all it was asked to, and what it    *)
(* wrote says, octet by octet, what every test case did (rttest.c:105-136, *)
(* 252-283), be the output there or not.                                   *)
ReportIsWhatHappened == Finished => EverythingRun /\ written = FullReport

(* RTTestRun returns -1 exactly when an octet was refused at some time     *)
(* (rttest.h:190-194): no later result hides a refusal, and no other       *)
(* failure passes for one.                                                 *)
RefusalReported == pc = "done" => (refused <=> ret = -1)

(* A test case that asserts stops the test cases after it, of its group    *)
(* only (rttest.h:162-169).                                                *)
AbortStopsItsGroup ==
    \A k \in DOMAIN log : \A j \in DOMAIN log[k].verdicts :
        log[k].verdicts[j] = "skipped"
            <=> \E h \in 1..(j - 1) : log[k].verdicts[h] = "abort"

(* Once an octet has been refused, no test case is run any more            *)
(* (rttest.h:92-94), although octets may still be written.                 *)
NoTestAfterRefusal == [][refused => UNCHANGED log]_runner

(***************************************************************************)
(* What rttest.h says and the code does not do.                            *)
(***************************************************************************)

(* rttest.h:190: RTTestRun returns the number of failed test cases.        *)
CountsFailures ==
    Finished =>
        ret = MapThenSumSet(
                LAMBDA k : Cardinality({j \in DOMAIN log[k].verdicts :
                                          log[k].verdicts[j] # "pass"}),
                DOMAIN log)
=============================================================================
