--------------------------- MODULE RTTest_proofs ---------------------------
(***************************************************************************)
(* Proofs about the test runner, for any test groups, any ids selected and *)
(* any number of bits in an octet, with the reader at its side.            *)
(***************************************************************************)
EXTENDS RTTestRound, Powers_proofs, TLAPS, SequenceTheorems, WellFoundedInduction

(***************************************************************************)
(* What the return value knows of refusals.                                *)
(***************************************************************************)

(* A refusal is in ret from the moment it happens, and leaves the runner   *)
(* nowhere to go but to the end.                                           *)
Refusal ==
    /\ ret \in Int
    /\ refused => ret = -1 /\ pc \in {"id", "last", "done"}
    /\ ~refused => ret # -1 /\ (pc # "done" => ret >= 0)

LEMMA RunningRefusal ==
    ASSUME Refusal, Running
    PROVE  Refusal'
<1> USE DEF Refusal, WrOctet, Answered
<1>1. CASE WritePreamble
  BY <1>1 DEF WritePreamble, NextGroup
<1>2. CASE EnterMark
  BY <1>2 DEF EnterMark
<1>3. CASE IdOctet
  BY <1>3 DEF IdOctet, StartCases
<1>4. CASE EntryAction
  BY <1>4 DEF EntryAction, StartCases, output
<1>5. CASE TestCase
  BY <1>5 DEF TestCase, NextCase, AfterCases, output
<1>6. CASE ResultOctet
  BY <1>6 DEF ResultOctet, NextCase, AfterRefusal, AfterCases
<1>7. CASE LastOctet
  BY <1>7 DEF LastOctet, AfterCases
<1>8. CASE ExitAction
  BY <1>8 DEF ExitAction, output
<1>9. CASE ExitMark
  BY <1>9 DEF ExitMark, NextGroup
<1>10. CASE WriteEndOfFile
  BY <1>10 DEF WriteEndOfFile
<1>11. CASE Panic
  BY <1>11 DEF Panic, output
<1> QED
  BY <1>1, <1>2, <1>3, <1>4, <1>5, <1>6, <1>7, <1>8, <1>9, <1>10, <1>11
  DEF Running

LEMMA NextRefusal ==
    ASSUME Refusal, [Next]_vars
    PROVE  Refusal'
<1>1. CASE UNCHANGED runner
  BY <1>1 DEF Refusal, runner, output
<1>2. CASE \E g \in Group : RTPrivTestRegisterGroup(g)
  BY <1>2 DEF Refusal, RTPrivTestRegisterGroup, output
<1>3. CASE \E ids \in Selections : RTTestRun(ids)
  BY <1>3 DEF Refusal, RTTestRun, output
<1>4. CASE Running
  BY <1>4, RunningRefusal
<1> QED
  BY <1>1, <1>2, <1>3, <1>4
  DEF Next, vars, RunnerStep, ReaderStep, RunnerNext

LEMMA RefusalInvariant == Spec => []Refusal
<1>1. Init => Refusal
  BY DEF Init, RunnerInit, Refusal
<1>2. Refusal /\ [Next]_vars => Refusal'
  BY NextRefusal
<1> QED
  BY <1>1, <1>2, PTL DEF Spec

(* RTTestRun returns -1 exactly when an octet was refused, whatever was    *)
(* written, run or counted after the refusal.                              *)
THEOREM RefusalReportedCorrect == Spec => []RefusalReported
<1>1. Refusal => RefusalReported
  BY DEF Refusal, RefusalReported
<1> QED
  BY <1>1, RefusalInvariant, PTL

(* No test case is run once an octet has been refused.                     *)
THEOREM NoTestAfterRefusalCorrect == Spec => NoTestAfterRefusal
<1>1. Refusal /\ [Next]_vars => [refused => UNCHANGED log]_runner
  <2> SUFFICES ASSUME Refusal, [Next]_vars, refused PROVE UNCHANGED log
    OBVIOUS
  <2>1. pc \in {"id", "last", "done"}
    BY DEF Refusal
  <2>2. CASE UNCHANGED runner
    BY <2>2 DEF runner
  <2>3. CASE IdOctet \/ LastOctet
    BY <2>3 DEF IdOctet, LastOctet
  <2>4. CASE RunnerNext /\ ~(IdOctet \/ LastOctet)
    BY <2>1, <2>4
    DEF RunnerNext, RTPrivTestRegisterGroup, RTTestRun, Running, WritePreamble,
        EnterMark, EntryAction, TestCase, ResultOctet, ExitAction, ExitMark,
        WriteEndOfFile, Panic
  <2> QED
    BY <2>2, <2>3, <2>4 DEF Next, vars, RunnerStep, ReaderStep
<1> QED
  BY <1>1, RefusalInvariant, PTL DEF Spec, NoTestAfterRefusal

(***************************************************************************)
(* What an assertion stops.                                                *)
(***************************************************************************)

LEMMA LeastNatural ==
    ASSUME NEW T, T \subseteq Nat, T # {}
    PROVE  \E x \in T : \A y \in T : x <= y
<1>1. PICK x \in T : \A y \in T : ~(<<y, x>> \in OpToRel(<, Nat))
  BY NatLessThanWellFounded, WFMin
<1>2. \A y \in T : ~(y < x)
  BY <1>1 DEF OpToRel
<1> QED
  BY <1>2

Entry == [group : Nat, verdicts : Seq(Verdict)]

Stops(list) ==
    \A j \in DOMAIN list :
        list[j] = "skipped" <=> \E h \in 1..(j - 1) : list[h] = "abort"

Latest == log[Len(log)].verdicts

(* While a group is under way `asserted' tells whether a case of it has    *)
(* asserted; the latest entry of the log is the group's.                   *)
Started ==
    /\ groups \in Seq(Group) /\ group \in Nat
    /\ log \in Seq(Entry)
    /\ asserted \in BOOLEAN
    /\ pc \in {"mark", "id", "entry", "case", "octet"} => log # <<>>
    /\ pc \in {"mark", "id", "entry"} => Latest = <<>>
    /\ pc \in {"case", "octet"} =>
          (asserted <=> \E h \in DOMAIN Latest : Latest[h] = "abort")
    /\ \A k \in DOMAIN log : Stops(log[k].verdicts)

LEMMA NextGroupStarted ==
    ASSUME Started, NEW k, NextGroup(k), UNCHANGED <<groups, asserted>>,
           group' = group \/ pc' = "mark"
    PROVE  Started'
<1> DEFINE rest == {j \in Selected : j > k}
<1>1. CASE rest = {}
  <2>1. pc' = "eof" /\ UNCHANGED <<group, log>>
    BY <1>1 DEF NextGroup
  <2> QED
    BY <2>1 DEF Started, Stops
<1>2. CASE rest # {}
  <2> DEFINE new == [group |-> Min(rest), verdicts |-> <<>>]
  <2>1. pc' = "mark" /\ group' = Min(rest) /\ log' = Append(log, new)
    BY <1>2 DEF NextGroup
  <2>2. Min(rest) \in Nat
    <3>1. rest \subseteq Nat
      BY LenProperties DEF Selected, Started
    <3>2. \E x \in rest : \A y \in rest : x <= y
      BY <1>2, <3>1, LeastNatural
    <3> QED
      BY <3>1, <3>2 DEF Min
  <2>3. new \in Entry
    BY <2>2, EmptySeq DEF Entry
  <2>4. log \in Seq(Entry)
    BY DEF Started
  <2>5. /\ log' \in Seq(Entry) /\ log' # <<>> /\ Len(log') = Len(log) + 1
        /\ \A h \in 1..Len(log) : log'[h] = log[h]
        /\ log'[Len(log) + 1] = new
    BY <2>1, <2>3, <2>4, AppendProperties
  <2>6. Latest' = <<>>
    BY <2>5 DEF Latest
  <2>7. \A h \in DOMAIN log' : Stops(log'[h].verdicts)
    <3>1. DOMAIN log' = 1..(Len(log) + 1) /\ DOMAIN log = 1..Len(log)
      BY <2>4, <2>5, LenProperties
    <3>2. Stops(new.verdicts)
      BY DEF Stops
    <3>3. Len(log) \in Nat
      BY <2>4, LenProperties
    <3> QED
      BY <2>5, <3>1, <3>2, <3>3 DEF Started
  <2> QED
    BY <2>1, <2>2, <2>5, <2>6, <2>7 DEF Started
<1> QED
  BY <1>1, <1>2

LEMMA StartCasesStarted ==
    ASSUME Started, pc \in {"id", "entry"}, StartCases,
           UNCHANGED <<groups, group, log>>
    PROVE  Started'
<1>1. pc' = "case" /\ asserted' = FALSE /\ log # <<>> /\ Latest = <<>>
  BY DEF StartCases, Started
<1>2. Latest' = <<>> /\ DOMAIN Latest' = {}
  BY <1>1 DEF Latest
<1>3. \A k \in DOMAIN log' : Stops(log'[k].verdicts)
  BY DEF Started
<1> QED
  BY <1>1, <1>2, <1>3 DEF Started

(* The verdict of a case joins the others of its group. *)
LEMMA TestCaseStarted ==
    ASSUME Started, TestCase
    PROVE  Started'
<1>1. PICK v \in Verdict :
         /\ asserted <=> v = "skipped"
         /\ asserted' = (asserted \/ v = "abort")
         /\ log' = [log EXCEPT ![Len(log)] =
                       [group |-> group, verdicts |-> Append(@.verdicts, v)]]
  BY DEF TestCase
<1>2. /\ pc = "case" /\ log \in Seq(Entry) /\ log # <<>> /\ group \in Nat
      /\ UNCHANGED <<groups, group>>
  BY DEF TestCase, Started, program
<1>3. /\ Len(log) \in Nat /\ Len(log) \in 1..Len(log)
      /\ DOMAIN log = 1..Len(log)
  BY <1>2, LenProperties, EmptySeq
<1>4. log[Len(log)] \in Entry
  BY <1>2, <1>3, ElementOfSeq
<1>5. Latest \in Seq(Verdict)
  BY <1>4 DEF Latest, Entry
<1> DEFINE new == [group |-> group, verdicts |-> Append(Latest, v)]
<1>6. log' = [log EXCEPT ![Len(log)] = new]
  BY <1>1 DEF Latest
<1>7. /\ Append(Latest, v) \in Seq(Verdict)
      /\ Len(Append(Latest, v)) = Len(Latest) + 1
      /\ \A h \in 1..Len(Latest) : Append(Latest, v)[h] = Latest[h]
      /\ Append(Latest, v)[Len(Latest) + 1] = v
  BY <1>5, AppendProperties
<1>8. new \in Entry
  BY <1>2, <1>7 DEF Entry
<1>9. /\ log' \in Seq(Entry) /\ Len(log') = Len(log)
      /\ \A h \in 1..Len(log) :
            log'[h] = IF h = Len(log) THEN new ELSE log[h]
  BY <1>2, <1>3, <1>6, <1>8, ExceptSeq
<1>10. Latest' = Append(Latest, v)
  <2>1. log'[Len(log')] = new
    BY <1>3, <1>9
  <2> QED
    BY <2>1 DEF Latest
<1>11. /\ DOMAIN Latest = 1..Len(Latest) /\ Len(Latest) \in Nat
       /\ DOMAIN Append(Latest, v) = 1..(Len(Latest) + 1)
  BY <1>5, <1>7, LenProperties
<1>12. asserted <=> \E h \in 1..Len(Latest) : Latest[h] = "abort"
  BY <1>2, <1>11 DEF Started
<1>13. asserted' <=> \E h \in DOMAIN Latest' : Latest'[h] = "abort"
  <2>1. (\E h \in DOMAIN Latest' : Latest'[h] = "abort")
           <=> v = "abort" \/ \E h \in 1..Len(Latest) : Latest[h] = "abort"
    <3>1. ASSUME v = "abort"
          PROVE  Latest'[Len(Latest) + 1] = "abort"
                 /\ Len(Latest) + 1 \in DOMAIN Latest'
      BY <1>7, <1>10, <1>11, <3>1
    <3>2. \A h \in DOMAIN Latest' :
             h \in 1..Len(Latest) \/ h = Len(Latest) + 1
      BY <1>10, <1>11
    <3>3. \A h \in 1..Len(Latest) :
             h \in DOMAIN Latest' /\ Latest'[h] = Latest[h]
      BY <1>7, <1>10, <1>11
    <3>4. Latest'[Len(Latest) + 1] = v
      BY <1>7, <1>10
    <3> QED
      BY <3>1, <3>2, <3>3, <3>4
  <2> QED
    BY <1>1, <1>12, <2>1
<1>14. Stops(Append(Latest, v))
  <2> SUFFICES ASSUME NEW j \in 1..(Len(Latest) + 1)
               PROVE  Append(Latest, v)[j] = "skipped"
                         <=> \E h \in 1..(j - 1) : Append(Latest, v)[h] = "abort"
    BY <1>11 DEF Stops
  <2>1. CASE j \in 1..Len(Latest)
    <3>1. Stops(Latest)
      BY <1>3 DEF Started, Latest
    <3> QED
      BY <1>7, <1>11, <2>1, <3>1 DEF Stops
  <2>2. CASE j = Len(Latest) + 1
    BY <1>1, <1>7, <1>11, <1>12, <2>2
  <2> QED
    BY <1>11, <2>1, <2>2
<1>15. \A h \in DOMAIN log' : Stops(log'[h].verdicts)
  <2>1. DOMAIN log' = 1..Len(log)
    BY <1>9, LenProperties
  <2> SUFFICES ASSUME NEW h \in 1..Len(log) PROVE Stops(log'[h].verdicts)
    BY <2>1
  <2>2. CASE h = Len(log)
    <3>1. log'[h].verdicts = Append(Latest, v)
      BY <1>9, <2>2
    <3> QED
      BY <1>14, <3>1
  <2>3. CASE h # Len(log)
    <3>1. log'[h] = log[h]
      BY <1>9, <2>3
    <3> QED
      BY <1>3, <3>1 DEF Started
  <2> QED
    BY <2>2, <2>3
<1>16. pc' \notin {"mark", "id", "entry"} /\ log' # <<>>
  <2>1. pc' \in {"octet", "case", "last", "exit", "endmark"}
    BY DEF TestCase, NextCase, AfterCases
  <2>0. Len(log') = Len(log)
    BY <1>9
  <2>2. Len(log') # 0
    BY <1>3, <2>0
  <2>3. log' # <<>>
    BY <2>2, EmptySeq
  <2> QED
    BY <2>1, <2>3
<1>17. asserted' \in BOOLEAN
  BY <1>1
<1> QED
  BY <1>2, <1>9, <1>13, <1>15, <1>16, <1>17 DEF Started

(* Anything that leaves the log and the flag alone, and starts nothing.    *)
LEMMA KeepStarted ==
    ASSUME Started, UNCHANGED <<groups, group, log, asserted>>,
           pc' \in {"mark", "id", "entry"} => pc \in {"mark", "id", "entry"},
           pc' \in {"case", "octet"} => pc \in {"case", "octet"}
    PROVE  Started'
<1>1. Latest' = Latest
  BY DEF Latest
<1> QED
  BY <1>1 DEF Started, Stops

LEMMA RunningStarted ==
    ASSUME Started, Running
    PROVE  Started'
<1>1. CASE WritePreamble
  <2>1. CASE NextGroup(0) /\ UNCHANGED <<groups, asserted>>
    BY <2>1, NextGroupStarted DEF NextGroup
  <2>2. CASE UNCHANGED <<groups, group, log, asserted>>
             /\ pc' \in {pc, "done"}
    BY <2>2, KeepStarted
  <2> QED
    BY <1>1, <2>1, <2>2 DEF WritePreamble, program, results
<1>2. CASE IdOctet
  <2>1. CASE StartCases
    BY <1>2, <2>1, StartCasesStarted DEF IdOctet, program
  <2>2. CASE ~StartCases
    <3>1. UNCHANGED <<groups, group, log, asserted>>
          /\ pc = "id" /\ pc' \in {"id", "entry", "done"}
      BY <1>2, <2>2 DEF IdOctet, program, results
    <3> QED
      BY <3>1, KeepStarted
  <2> QED
    BY <2>1, <2>2
<1>3. CASE EntryAction
  <2>1. CASE StartCases
    BY <1>3, <2>1, StartCasesStarted DEF EntryAction, program
  <2>2. CASE ~StartCases
    BY <1>3, <2>2, KeepStarted DEF EntryAction, program, results
  <2> QED
    BY <2>1, <2>2
<1>4. CASE TestCase
  BY <1>4, TestCaseStarted
<1>5. CASE ExitMark
  <2>1. CASE NextGroup(group)
    BY <1>5, <2>1, NextGroupStarted DEF ExitMark, NextGroup, program, results
  <2>2. CASE ~NextGroup(group)
    BY <1>5, <2>2, KeepStarted DEF ExitMark, program, results
  <2> QED
    BY <2>1, <2>2
<1>6. CASE EnterMark
  BY <1>6, KeepStarted DEF EnterMark, program, results
<1>7. CASE ResultOctet
  BY <1>7, KeepStarted
  DEF ResultOctet, NextCase, AfterCases, AfterRefusal, program
<1>8. CASE LastOctet
  BY <1>8, KeepStarted DEF LastOctet, AfterCases, program, results
<1>9. CASE ExitAction \/ WriteEndOfFile \/ Panic
  BY <1>9, KeepStarted
  DEF ExitAction, WriteEndOfFile, Panic, program, results
<1> QED
  BY <1>1, <1>2, <1>3, <1>4, <1>5, <1>6, <1>7, <1>8, <1>9 DEF Running

LEMMA NextStarted ==
    ASSUME Started, [Next]_vars
    PROVE  Started'
<1>1. CASE UNCHANGED runner
  BY <1>1, KeepStarted DEF runner, program, results
<1>2. ASSUME NEW g \in Group, RTPrivTestRegisterGroup(g)
      PROVE  Started'
  <2>1. groups' \in Seq(Group)
    <3>1. groups \in Seq(Group)
      BY DEF Started
    <3>2. Append(groups, g) \in Seq(Group)
      BY <1>2, <3>1, AppendProperties
    <3>3. groups' \in {groups, Append(groups, g)}
      BY <1>2 DEF RTPrivTestRegisterGroup
    <3> QED
      BY <3>1, <3>2, <3>3
  <2>2. UNCHANGED <<group, log, asserted>> /\ pc' \in {"off", "panic"}
    BY <1>2 DEF RTPrivTestRegisterGroup, results
  <2> QED
    BY <2>1, <2>2 DEF Started, Stops
<1>3. ASSUME NEW ids \in Selections, RTTestRun(ids)
      PROVE  Started'
  BY <1>3, KeepStarted DEF RTTestRun, results
<1>4. CASE Running
  BY <1>4, RunningStarted
<1> QED
  BY <1>1, <1>2, <1>3, <1>4
  DEF Next, vars, RunnerStep, ReaderStep, RunnerNext

LEMMA StartedInvariant == Spec => []Started
<1>1. Init => Started
  <2> SUFFICES ASSUME Init PROVE Started
    OBVIOUS
  <2>1. groups \in Seq(Group) /\ log \in Seq(Entry) /\ DOMAIN log = {}
    BY EmptySeq DEF Init, RunnerInit
  <2> QED
    BY <2>1 DEF Init, RunnerInit, Started
<1>2. Started /\ [Next]_vars => Started'
  BY NextStarted
<1> QED
  BY <1>1, <1>2, PTL DEF Spec

(* A case that asserts stops those after it in its group, and no other,    *)
(* however many groups and cases there are.                                *)
THEOREM AbortStopsItsGroupCorrect == Spec => []AbortStopsItsGroup
<1>1. Started => AbortStopsItsGroup
  BY DEF Started, Stops, AbortStopsItsGroup
<1> QED
  BY <1>1, StartedInvariant, PTL

(***************************************************************************)
(* Sequences joined one after the other.                                   *)
(***************************************************************************)

(* What the recursion of FlattenSeq computes. *)
Joins(f, s, S) ==
    /\ f \in [1..Len(s) -> Seq(S)]
    /\ f[1] = s[1]
    /\ \A k \in 1..(Len(s) - 1) : f[k + 1] = f[k] \o s[k + 1]

LEMMA FlattenJoins ==
    ASSUME NEW S, NEW s \in Seq(Seq(S)), Len(s) # 0
    PROVE  \E f : Joins(f, s, S) /\ FlattenSeq(s) = f[Len(s)]
<1> DEFINE n == Len(s)
           Fixed(f) == f = [k \in 1..n |-> IF k = 1 THEN s[k] ELSE f[k - 1] \o s[k]]
           chosen == CHOOSE f : Fixed(f)
           step == [k \in Nat |-> [v \in Seq(S) |->
                       IF k + 2 <= n THEN v \o s[k + 2] ELSE v]]
<1>1. n \in Nat \ {0} /\ DOMAIN s = 1..n /\ \A k \in 1..n : s[k] \in Seq(S)
  BY LenProperties, ElementOfSeq
<1> HIDE DEF n
<1>2. \E g : Iterates(g, Seq(S), s[1], step)
  <2>1. s[1] \in Seq(S)
    BY <1>1
  <2>2. ASSUME NEW k \in Nat, NEW v \in Seq(S)
        PROVE  (IF k + 2 <= n THEN v \o s[k + 2] ELSE v) \in Seq(S)
    <3>1. CASE k + 2 <= n
      <4>1. s[k + 2] \in Seq(S)
        BY <1>1, <3>1
      <4> QED
        BY <3>1, <4>1, ConcatProperties
    <3> QED
      BY <3>1
  <2>3. step \in [Nat -> [Seq(S) -> Seq(S)]]
    BY <2>2
  <2> HIDE DEF step
  <2> QED
    BY <2>1, <2>3, Recursion
<1>3. PICK g : /\ g \in [Nat -> Seq(S)] /\ g[0] = s[1]
               /\ \A k \in Nat : g[k + 1] = step[k][g[k]]
  BY <1>2 DEF Iterates
<1> DEFINE h == [k \in 1..n |-> g[k - 1]]
<1>4. Fixed(h)
  <2>1. ASSUME NEW k \in 1..n
        PROVE  h[k] = IF k = 1 THEN s[k] ELSE h[k - 1] \o s[k]
    <3>1. CASE k = 1
      BY <1>3, <3>1
    <3>2. CASE k # 1
      <4>1. k - 2 \in Nat /\ (k - 2) + 1 = k - 1 /\ (k - 2) + 2 = k /\ k - 2 + 2 <= n
            /\ k - 1 \in 1..n /\ (k - 1) - 1 = k - 2
        BY <1>1, <3>2
      <4>2. g[k - 2] \in Seq(S)
        BY <1>3, <4>1
      <4>3. g[k - 1] = g[k - 2] \o s[k]
        BY <1>3, <4>1, <4>2
      <4> QED
        BY <3>2, <4>1, <4>3
    <3> QED
      BY <3>1, <3>2
  <2> QED
    BY <2>1
<1>5. Fixed(chosen)
  <2> HIDE DEF Fixed
  <2> QED
    BY <1>4
<1>6. FlattenSeq(s) = chosen[n]
  BY <1>1 DEF FlattenSeq, n
<1> HIDE DEF chosen
<1>7. \A k \in 1..n : chosen[k] = IF k = 1 THEN s[k] ELSE chosen[k - 1] \o s[k]
  BY <1>5
<1>8. \A k \in 1..n : chosen[k] \in Seq(S)
  <2> DEFINE T == {k \in Nat : k + 1 <= n => chosen[k + 1] \in Seq(S)}
  <2>1. 0 \in T
    BY <1>1, <1>7
  <2>2. ASSUME NEW k \in Nat, k \in T PROVE k + 1 \in T
    <3> SUFFICES ASSUME k + 2 <= n PROVE chosen[k + 2] \in Seq(S)
      OBVIOUS
    <3>1. chosen[k + 1] \in Seq(S) /\ s[k + 2] \in Seq(S)
      BY <1>1, <2>2
    <3>2. k + 2 \in 1..n /\ k + 2 # 1 /\ (k + 2) - 1 = k + 1
      BY <1>1
    <3>3. chosen[k + 2] = chosen[k + 1] \o s[k + 2]
      BY <1>7, <3>2
    <3> QED
      BY <3>1, <3>3, ConcatProperties
  <2> HIDE DEF T
  <2>3. \A k \in Nat : k \in T
    BY <2>1, <2>2, NatSetInduction
  <2> TAKE k \in 1..n
  <2>4. k - 1 \in T /\ (k - 1) + 1 = k
    BY <1>1, <2>3
  <2> QED
    BY <2>4 DEF T
<1>9. chosen \in [1..n -> Seq(S)]
  BY <1>5, <1>8
<1>10. chosen[1] = s[1]
  BY <1>1, <1>7
<1>11. ASSUME NEW k \in 1..(n - 1) PROVE chosen[k + 1] = chosen[k] \o s[k + 1]
  <2>1. k + 1 \in 1..n /\ k + 1 # 1 /\ (k + 1) - 1 = k
    BY <1>1
  <2> QED
    BY <1>7, <2>1
<1>12. Joins(chosen, s, S)
  BY <1>9, <1>10, <1>11 DEF Joins, n
<1> QED
  BY <1>6, <1>12 DEF n

LEMMA FlattenType ==
    ASSUME NEW S, NEW s \in Seq(Seq(S))
    PROVE  FlattenSeq(s) \in Seq(S)
<1>1. CASE Len(s) = 0
  BY <1>1, EmptySeq DEF FlattenSeq
<1>2. CASE Len(s) # 0
  <2>1. PICK f : Joins(f, s, S) /\ FlattenSeq(s) = f[Len(s)]
    BY <1>2, FlattenJoins
  <2>2. Len(s) \in 1..Len(s)
    BY <1>2, LenProperties
  <2> QED
    BY <2>1, <2>2 DEF Joins
<1> QED
  BY <1>1, <1>2

LEMMA FlattenAppend ==
    ASSUME NEW S, NEW s \in Seq(Seq(S)), NEW x \in Seq(S)
    PROVE  FlattenSeq(Append(s, x)) = FlattenSeq(s) \o x
<1> DEFINE t == Append(s, x)
           n == Len(s)
<1>1. /\ t \in Seq(Seq(S)) /\ Len(t) = n + 1 /\ n \in Nat
      /\ \A k \in 1..n : t[k] = s[k]
      /\ t[n + 1] = x
  BY AppendProperties, LenProperties
<1>2. PICK g : Joins(g, t, S) /\ FlattenSeq(t) = g[Len(t)]
  <2> HIDE DEF t
  <2> QED
    BY <1>1, FlattenJoins, SMTT(30)
<1> HIDE DEF t, n
<1>3. CASE n = 0
  <2>1. s = <<>> /\ FlattenSeq(s) = <<>>
    BY <1>3, EmptySeq DEF n, FlattenSeq
  <2>2. FlattenSeq(t) = x
    BY <1>1, <1>2, <1>3 DEF Joins
  <2> QED
    BY <2>1, <2>2, ConcatEmptySeq DEF t
<1>4. CASE n # 0
  <2>1. PICK f : Joins(f, s, S) /\ FlattenSeq(s) = f[Len(s)]
    BY <1>4, FlattenJoins DEF n
  <2> DEFINE T == {k \in Nat : k + 1 <= n => f[k + 1] = g[k + 1]}
  <2>2. 0 \in T
    <3>1. f[1] = s[1] /\ g[1] = t[1]
      BY <1>2, <2>1 DEF Joins
    <3> QED
      BY <1>1, <3>1
  <2>3. ASSUME NEW k \in Nat, k \in T PROVE k + 1 \in T
    <3> SUFFICES ASSUME k + 2 <= n PROVE f[k + 2] = g[k + 2]
      OBVIOUS
    <3>1. k + 1 \in 1..(n - 1) /\ k + 1 \in 1..((n + 1) - 1)
          /\ (k + 1) + 1 = k + 2 /\ k + 2 \in 1..n
      BY <1>1
    <3>2. f[k + 2] = f[k + 1] \o s[k + 2]
      BY <2>1, <3>1 DEF Joins, n
    <3>3. g[k + 2] = g[k + 1] \o t[k + 2]
      BY <1>1, <1>2, <3>1 DEF Joins
    <3>4. t[k + 2] = s[k + 2] /\ f[k + 1] = g[k + 1]
      BY <1>1, <2>3, <3>1
    <3> QED
      BY <3>2, <3>3, <3>4
  <2> HIDE DEF T
  <2>4. \A k \in Nat : k \in T
    BY <2>2, <2>3, NatSetInduction
  <2>5. f[n] = g[n]
    <3>1. n - 1 \in Nat /\ (n - 1) + 1 = n
      BY <1>1, <1>4
    <3> QED
      BY <2>4, <3>1 DEF T
  <2>6. g[n + 1] = g[n] \o t[n + 1]
    <3>1. n \in 1..((n + 1) - 1)
      BY <1>1, <1>4
    <3> QED
      BY <1>1, <1>2, <3>1 DEF Joins
  <2> QED
    BY <1>1, <1>2, <2>1, <2>5, <2>6 DEF n, t
<1> QED
  BY <1>3, <1>4 DEF t

(***************************************************************************)
(* The octets of results.                                                  *)
(***************************************************************************)

LEMMA OctetBitsType == OctetBits \in Nat /\ OctetBits > 0
  BY RTTestAssumption

LEMMA GroupIdNatural == 0 \in GroupId /\ \A x \in GroupId : x \in Nat
<1>1. Power(2, 4 * OctetBits) \in Nat \ {0}
  BY OctetBitsType, PowerType
<1> QED
  BY <1>1 DEF GroupId

LEMMA SetBitSets ==
    ASSUME NEW x \in Octet, NEW b \in 0..(OctetBits - 1)
    PROVE  /\ SetBit(x, b) \in Octet
           /\ \A c \in Nat : HasBit(SetBit(x, b), c) <=> c = b \/ HasBit(x, c)
<1>1. CASE HasBit(x, b)
  BY <1>1 DEF SetBit
<1>2. CASE ~HasBit(x, b)
  <2>1. SetBit(x, b) = x + Power(2, b)
    BY <1>2 DEF SetBit
  <2>2. OctetBits \in Nat
    BY OctetBitsType
  <2>3. x + Power(2, b) \in Octet
    BY <1>2, <2>2, BitFits DEF Octet
  <2>4. Power(2, OctetBits) \in Nat
    BY <2>2, PowerType
  <2>5. x \in Nat /\ b \in Nat
    BY <2>2, <2>4 DEF Octet
  <2>6. \A c \in Nat : HasBit(x + Power(2, b), c) <=> c = b \/ HasBit(x, c)
    BY <1>2, <2>5, BitAdded
  <2> QED
    BY <2>1, <2>3, <2>6
<1> QED
  BY <1>1, <1>2

LEMMA ZeroOctet == 0 \in Octet /\ \A b \in Nat : ~HasBit(0, b)
<1>1. Power(2, OctetBits) \in Nat \ {0}
  BY OctetBitsType, PowerType
<1> QED
  BY <1>1, ZeroHasNoBit DEF Octet

(* x is the octet about the cases from n on. *)
Tells(x, list, n) ==
    /\ x \in Octet
    /\ \A b \in 0..(OctetBits - 1) : HasBit(x, b) <=> FailedAt(list, n + b)

LEMMA OctetExists ==
    ASSUME NEW list, NEW n
    PROVE  \E x : Tells(x, list, n)
<1> DEFINE Upto(x, m) ==
              \A b \in 0..(OctetBits - 1) :
                  HasBit(x, b) <=> b < m /\ FailedAt(list, n + b)
           S == {m \in Nat : \E x \in Octet : Upto(x, m)}
<1>0. OctetBits \in Nat
  BY OctetBitsType
<1>1. 0 \in S
  <2>1. 0 \in Octet /\ Upto(0, 0)
    BY <1>0, ZeroOctet
  <2> HIDE DEF Upto
  <2> QED
    BY <2>1
<1>2. ASSUME NEW m \in 0..(OctetBits - 1), m \in S PROVE m + 1 \in S
  <2>1. PICK x \in Octet : Upto(x, m)
    BY <1>2
  <2>2. CASE FailedAt(list, n + m)
    <3>1. SetBit(x, m) \in Octet
          /\ \A c \in Nat : HasBit(SetBit(x, m), c) <=> c = m \/ HasBit(x, c)
      BY SetBitSets
    <3>2. Upto(SetBit(x, m), m + 1)
      BY <1>0, <2>1, <2>2, <3>1
    <3> HIDE DEF Upto
    <3> QED
      BY <3>1, <3>2
  <2>3. CASE ~FailedAt(list, n + m)
    <3>1. Upto(x, m + 1)
      BY <1>0, <2>1, <2>3
    <3> HIDE DEF Upto
    <3> QED
      BY <3>1
  <2> QED
    BY <2>2, <2>3
<1> HIDE DEF S
<1>3. OctetBits \in S
  <2>1. \A m \in 0..OctetBits : m \in S
    BY <1>0, <1>1, <1>2, IntervalInduction
  <2> QED
    BY <1>0, <2>1
<1>4. PICK x \in Octet : Upto(x, OctetBits)
  BY <1>3 DEF S
<1>5. Tells(x, list, n)
  BY <1>0, <1>4 DEF Tells
<1> QED
  BY <1>5

LEMMA OctetOfTells ==
    ASSUME NEW list, NEW n
    PROVE  Tells(OctetOf(list, n), list, n)
<1>1. \E x \in Octet : \A b \in 0..(OctetBits - 1) :
          HasBit(x, b) <=> FailedAt(list, n + b)
  BY OctetExists DEF Tells
<1> QED
  BY <1>1 DEF OctetOf, Tells

(* No other octet says the same. *)
LEMMA OctetIsKnown ==
    ASSUME NEW list, NEW n, NEW x, Tells(x, list, n)
    PROVE  x = OctetOf(list, n)
<1> DEFINE y == OctetOf(list, n)
<1>1. Tells(y, list, n)
  BY OctetOfTells
<1> HIDE DEF y
<1>2. \A b \in 0..(OctetBits - 1) : HasBit(x, b) <=> HasBit(y, b)
  BY <1>1 DEF Tells
<1>3. x \in 0..(Power(2, OctetBits) - 1) /\ y \in 0..(Power(2, OctetBits) - 1)
  BY <1>1 DEF Tells, Octet
<1>4. x = y
  BY <1>2, <1>3, OctetBitsType, KnownByBits
<1> QED
  BY <1>4 DEF y

(***************************************************************************)
(* Types.                                                                  *)
(***************************************************************************)

TypesKept ==
    /\ selection \in Selections \cup {{}}
    /\ pc \in {"off", "fourcc", "mark", "id", "entry", "case", "octet", "last",
               "exit", "endmark", "eof", "done", "panic"}
    /\ group \in 0..Len(groups)
    /\ i \in Nat
    /\ pc \in {"fourcc", "id"} => i \in 0..3
    /\ pc = "mark" => group \in DOMAIN groups
    /\ id \in GroupId
    /\ resultBits \in Octet
    /\ written \in Seq(Octet) /\ report \in Seq(Octet)
    /\ Len(report) <= Len(written)
    /\ refused \in BOOLEAN

LEMMA GroupIdOctets ==
    ASSUME NEW x \in GroupId
    PROVE  x \div Power(2, 3 * OctetBits) \in Octet /\ ShiftedUp(x) \in GroupId
<1> DEFINE m == Power(2, 3 * OctetBits)
           n == Power(2, OctetBits)
           w == Power(2, 4 * OctetBits)
<1>1. m \in Nat \ {0} /\ n \in Nat \ {0} /\ w \in Nat \ {0}
  BY OctetBitsType, PowerType
<1>2. w = m * n
  <2>1. Power(2, 3 * OctetBits + OctetBits) = m * n
    BY OctetBitsType, PowerSum
  <2>2. 3 * OctetBits + OctetBits = 4 * OctetBits
    BY OctetBitsType
  <2> QED
    BY <2>1, <2>2
<1>3. x \in 0..(w - 1)
  BY DEF GroupId
<1> HIDE DEF m, n, w
<1>4. x \div m \in 0..(n - 1)
  <2> DEFINE q == x \div m
             r == x % m
  <2>1. q \in Int /\ r \in 0..(m - 1) /\ x = m * q + r /\ q >= 0
    BY <1>1, <1>3
  <2> HIDE DEF q, r
  <2>2. q < n
    <3> SUFFICES ASSUME q >= n PROVE FALSE
      BY <1>1, <2>1
    <3>1. m * q >= m * n
      BY <1>1, <2>1
    <3> QED
      BY <1>1, <1>2, <1>3, <2>1, <3>1
  <2> QED
    BY <1>1, <2>1, <2>2 DEF q
<1>5. (x * n) % w \in 0..(w - 1)
  <2>1. x * n \in Int
    BY <1>1, <1>3
  <2> QED
    BY <1>1, <2>1
<1> QED
  BY <1>4, <1>5 DEF Octet, GroupId, ShiftedUp, m, n, w

LEMMA GroupFacts ==
    ASSUME groups \in Seq(Group), NEW k \in DOMAIN groups
    PROVE  /\ k \in 1..Len(groups) /\ Len(groups) \in Nat
           /\ groups[k] \in Group
           /\ groups[k].id \in GroupId
           /\ Len(groups[k].cases) \in Nat \ {0}
<1>1. k \in 1..Len(groups) /\ Len(groups) \in Nat
  BY LenProperties
<1>2. groups[k] \in Group
  BY <1>1, ElementOfSeq
<1>3. groups[k].id \in GroupId
      /\ groups[k].cases \in Seq(ToSet(groups[k].cases)) \ {<<>>}
  BY <1>2, RTTestAssumption
<1>4. Len(groups[k].cases) \in Nat \ {0}
  BY <1>3, LenProperties, EmptySeq
<1> QED
  BY <1>1, <1>2, <1>3, <1>4

(* The position NextGroup goes to is that of the next selected group.      *)
LEMMA NextSelected ==
    ASSUME groups \in Seq(Group), NEW k \in Nat,
           {j \in Selected : j > k} # {}
    PROVE  /\ Min({j \in Selected : j > k}) \in Selected
           /\ Min({j \in Selected : j > k}) > k
           /\ \A j \in Selected : j > k => Min({h \in Selected : h > k}) <= j
<1> DEFINE rest == {j \in Selected : j > k}
<1>1. rest \subseteq Nat
  BY LenProperties DEF Selected
<1>2. \E x \in rest : \A y \in rest : x <= y
  BY <1>1, LeastNatural
<1>3. Min(rest) \in rest /\ \A y \in rest : Min(rest) <= y
  BY <1>2 DEF Min
<1> QED
  BY <1>3

LEMMA NextGroupTypes ==
    ASSUME groups \in Seq(Group), NEW k \in Nat, group \in 0..Len(groups),
           NextGroup(k)
    PROVE  /\ group' \in 0..Len(groups)
           /\ pc' \in {"mark", "eof"}
           /\ pc' = "mark" => group' \in DOMAIN groups
<1> DEFINE rest == {j \in Selected : j > k}
<1>1. CASE rest = {}
  BY <1>1 DEF NextGroup
<1>2. CASE rest # {}
  <2>1. Min(rest) \in Selected
    BY <1>2, NextSelected
  <2>2. Min(rest) \in DOMAIN groups
    BY <2>1 DEF Selected
  <2>3. Min(rest) \in 0..Len(groups)
    BY <2>2, GroupFacts
  <2>4. group' = Min(rest) /\ pc' = "mark"
    BY <1>2 DEF NextGroup
  <2> QED
    BY <2>2, <2>3, <2>4
<1> QED
  BY <1>1, <1>2

LEMMA WrOctetTypes ==
    ASSUME written \in Seq(Octet), report \in Seq(Octet), refused \in BOOLEAN,
           Len(report) <= Len(written),
           NEW octet \in Octet, NEW ok, WrOctet(octet, ok)
    PROVE  /\ written' \in Seq(Octet) /\ report' \in Seq(Octet)
           /\ Len(report') <= Len(written') /\ refused' \in BOOLEAN
<1>1. /\ Append(written, octet) \in Seq(Octet) /\ Append(report, octet) \in Seq(Octet)
      /\ Len(Append(written, octet)) = Len(written) + 1
      /\ Len(Append(report, octet)) = Len(report) + 1
      /\ Len(written) \in Nat /\ Len(report) \in Nat
  BY AppendProperties, LenProperties
<1>2. /\ \/ written' = written /\ report' = report
         \/ written' = Append(written, octet) /\ report' \in {Append(report, octet), report}
      /\ refused' \in BOOLEAN
  BY DEF WrOctet
<1>3. CASE written' = written /\ report' = report
  BY <1>2, <1>3
<1>4. CASE written' = Append(written, octet) /\ report' = report
  BY <1>1, <1>2, <1>4
<1>5. CASE written' = Append(written, octet) /\ report' = Append(report, octet)
  BY <1>1, <1>2, <1>5
<1> QED
  BY <1>2, <1>3, <1>4, <1>5

LEMMA StepTypes ==
    ASSUME TypesKept, Started, [Next]_vars
    PROVE  TypesKept'
<1>0. /\ groups \in Seq(Group) /\ Len(groups) \in Nat
      /\ OctetBits \in Nat /\ OctetBits > 0
      /\ 0 \in Octet /\ 0 \in GroupId
  BY LenProperties, OctetBitsType, GroupIdNatural, ZeroOctet DEF Started
<1> USE DEF TypesKept
<1>1. CASE UNCHANGED runner
  BY <1>1 DEF runner, program, results, output
<1>2. ASSUME NEW g \in Group, RTPrivTestRegisterGroup(g)
      PROVE  TypesKept'
  <2>1. Append(groups, g) \in Seq(Group) /\ Len(Append(groups, g)) = Len(groups) + 1
    BY <1>0, AppendProperties
  <2>2. groups' \in {groups, Append(groups, g)}
        /\ UNCHANGED <<selection, group, i, id, results, ret, output, log>>
        /\ pc' \in {"off", "panic"}
    BY <1>2 DEF RTPrivTestRegisterGroup
  <2>3. group' \in 0..Len(groups')
    BY <1>0, <2>1, <2>2
  <2> QED
    BY <2>2, <2>3 DEF results, output
<1>3. ASSUME NEW ids \in Selections, RTTestRun(ids)
      PROVE  TypesKept'
  BY <1>3 DEF RTTestRun, results, output
<1>4. CASE WritePreamble
  <2>1. PICK ok \in BOOLEAN :
           /\ WrOctet(FourCC[i + 1], ok)
           /\ \/ ok /\ i < 3 /\ i' = i + 1 /\ UNCHANGED <<pc, group, ret, log>>
              \/ ok /\ i = 3 /\ NextGroup(0) /\ UNCHANGED i
              \/ ~ok /\ pc' = "done" /\ ret' = -1 /\ UNCHANGED <<i, group, log>>
    BY <1>4 DEF WritePreamble
  <2>2. FourCC[i + 1] \in Octet
    <3>1. i + 1 \in 1..Len(FourCC)
      BY <1>4, RTTestAssumption DEF WritePreamble
    <3> QED
      BY <3>1, RTTestAssumption, ElementOfSeq
  <2>3. /\ written' \in Seq(Octet) /\ report' \in Seq(Octet)
        /\ Len(report') <= Len(written') /\ refused' \in BOOLEAN
    BY <2>1, <2>2, WrOctetTypes
  <2>4. /\ group' \in 0..Len(groups)
        /\ pc' \in {"fourcc", "mark", "eof", "done"}
        /\ pc' = "mark" => group' \in DOMAIN groups
        /\ i' \in Nat /\ (pc' \in {"fourcc", "id"} => i' \in 0..3)
    BY <1>0, <1>4, <2>1, NextGroupTypes DEF WritePreamble
  <2> QED
    BY <1>4, <2>3, <2>4 DEF WritePreamble, program, results
<1>5. CASE EnterMark
  <2>1. EnterGroup \in Octet
    BY RTTestAssumption
  <2>2. /\ written' \in Seq(Octet) /\ report' \in Seq(Octet)
        /\ Len(report') <= Len(written') /\ refused' \in BOOLEAN
    BY <1>5, <2>1, WrOctetTypes DEF EnterMark
  <2>3. id' \in GroupId
    BY <1>0, <1>5, GroupFacts DEF EnterMark
  <2> QED
    BY <1>5, <2>2, <2>3 DEF EnterMark, program, results
<1>6. CASE IdOctet
  <2>1. id \div Power(2, 3 * OctetBits) \in Octet /\ ShiftedUp(id) \in GroupId
    BY GroupIdOctets
  <2>2. /\ written' \in Seq(Octet) /\ report' \in Seq(Octet)
        /\ Len(report') <= Len(written') /\ refused' \in BOOLEAN
    BY <1>6, <2>1, WrOctetTypes DEF IdOctet
  <2>3. /\ id' \in GroupId /\ i' \in Nat
        /\ pc' \in {"id", "entry", "case", "done"}
        /\ pc' = "id" => i' \in 0..3
        /\ resultBits' \in Octet
    BY <1>0, <1>6, <2>1 DEF IdOctet, StartCases, results
  <2> QED
    BY <1>6, <2>2, <2>3 DEF IdOctet, program
<1>7. CASE EntryAction
  BY <1>0, <1>7 DEF EntryAction, StartCases, program, results, output
<1>8. CASE TestCase
  <2>1. i % OctetBits \in 0..(OctetBits - 1)
    BY <1>0
  <2>2. SetBit(resultBits, i % OctetBits) \in Octet
    BY <2>1, SetBitSets
  <2>3. resultBits' \in Octet
    BY <1>8, <2>2 DEF TestCase
  <2>4. i' \in Nat /\ pc' \in {"case", "octet", "last", "exit", "endmark"}
    BY <1>8 DEF TestCase, NextCase, AfterCases
  <2> QED
    BY <1>8, <2>3, <2>4 DEF TestCase, program, output
<1>9. CASE ResultOctet
  <2>1. /\ written' \in Seq(Octet) /\ report' \in Seq(Octet)
        /\ Len(report') <= Len(written') /\ refused' \in BOOLEAN
    BY <1>9, WrOctetTypes DEF ResultOctet
  <2>2. /\ resultBits' \in Octet /\ i' \in Nat
        /\ pc' \in {"case", "last", "exit", "endmark", "done"}
    BY <1>0, <1>9 DEF ResultOctet, NextCase, AfterCases, AfterRefusal
  <2> QED
    BY <1>9, <2>1, <2>2 DEF ResultOctet, program
<1>10. CASE LastOctet
  <2>1. /\ written' \in Seq(Octet) /\ report' \in Seq(Octet)
        /\ Len(report') <= Len(written') /\ refused' \in BOOLEAN
    BY <1>10, WrOctetTypes DEF LastOctet
  <2>2. pc' \in {"exit", "endmark", "done"}
    BY <1>10 DEF LastOctet, AfterCases
  <2> QED
    BY <1>10, <2>1, <2>2 DEF LastOctet, program, results
<1>11. CASE ExitAction \/ Panic
  BY <1>11 DEF ExitAction, Panic, program, results, output
<1>12. CASE ExitMark
  <2>1. PICK ok \in BOOLEAN :
           /\ WrOctet(ExitGroup, ok)
           /\ \/ ok /\ NextGroup(group)
              \/ ~ok /\ pc' = "done" /\ ret' = -1 /\ UNCHANGED <<group, log>>
    BY <1>12 DEF ExitMark
  <2>2. ExitGroup \in Octet
    BY RTTestAssumption
  <2>3. /\ written' \in Seq(Octet) /\ report' \in Seq(Octet)
        /\ Len(report') <= Len(written') /\ refused' \in BOOLEAN
    BY <2>1, <2>2, WrOctetTypes
  <2>4. /\ group' \in 0..Len(groups)
        /\ pc' \in {"mark", "eof", "done"}
        /\ pc' = "mark" => group' \in DOMAIN groups
    BY <1>0, <2>1, NextGroupTypes
  <2> QED
    BY <1>12, <2>3, <2>4 DEF ExitMark, program, results
<1>13. CASE WriteEndOfFile
  <2>1. EndOfFile \in Octet
    BY RTTestAssumption
  <2>2. /\ written' \in Seq(Octet) /\ report' \in Seq(Octet)
        /\ Len(report') <= Len(written') /\ refused' \in BOOLEAN
    BY <1>13, <2>1, WrOctetTypes DEF WriteEndOfFile
  <2> QED
    BY <1>13, <2>2 DEF WriteEndOfFile, program, results
<1> QED
  BY <1>1, <1>2, <1>3, <1>4, <1>5, <1>6, <1>7, <1>8, <1>9, <1>10, <1>11, <1>12,
     <1>13
  DEF Next, vars, RunnerStep, ReaderStep, RunnerNext, Running

LEMMA InitTypes == Init => TypesKept
<1> SUFFICES ASSUME RunnerInit PROVE TypesKept
  BY DEF Init
<1>1. 0 \in GroupId /\ 0 \in Octet
  BY GroupIdNatural, ZeroOctet
<1>2. written \in Seq(Octet) /\ report = written /\ Len(report) <= Len(written)
      /\ Len(groups) = 0
  BY EmptySeq DEF RunnerInit
<1>3. group \in 0..Len(groups) /\ i \in Nat /\ pc = "off"
  BY <1>2 DEF RunnerInit
<1>4. selection = {} /\ id = 0 /\ resultBits = 0 /\ refused = FALSE
  BY DEF RunnerInit
<1> QED
  BY <1>1, <1>2, <1>3, <1>4 DEF TypesKept

LeastResult == ret >= -3

LEMMA StepLeastResult ==
    ASSUME LeastResult, Refusal, [Next]_vars
    PROVE  LeastResult'
<1>0. ret \in Int /\ ret >= -3
  BY DEF LeastResult, Refusal
<1>1. ASSUME NEW ok \in BOOLEAN, NEW r \in {0, ret} PROVE Answered(ok, r) >= -3
  BY <1>0, <1>1 DEF Answered
<1>2. CASE UNCHANGED runner
  BY <1>0, <1>2 DEF runner, LeastResult
<1>3. CASE WritePreamble
  <2>1. ret' \in {ret, 0, -1}
    BY <1>3 DEF WritePreamble, NextGroup
  <2> QED
    BY <1>0, <2>1 DEF LeastResult
<1>4. CASE EnterMark \/ IdOctet
  <2>1. \E ok \in BOOLEAN : ret' \in {Answered(ok, 0), Answered(ok, ret)}
    BY <1>4 DEF EnterMark, IdOctet
  <2> QED
    BY <1>1, <2>1 DEF LeastResult
<1>5. CASE EntryAction \/ TestCase
  <2>1. ret' \in {ret, -2, ret + 1}
    BY <1>5 DEF EntryAction, TestCase
  <2> QED
    BY <1>0, <2>1 DEF LeastResult
<1>6. CASE ResultOctet \/ LastOctet \/ WriteEndOfFile
  <2>1. \E ok \in BOOLEAN : ret' = Answered(ok, ret)
    BY <1>6 DEF ResultOctet, LastOctet, WriteEndOfFile
  <2> QED
    BY <1>1, <2>1 DEF LeastResult
<1>7. CASE ExitMark
  <2>1. ret' \in {ret, 0, -1}
    BY <1>7 DEF ExitMark, NextGroup
  <2> QED
    BY <1>0, <2>1 DEF LeastResult
<1>8. CASE ExitAction \/ Panic
  <2>1. ret' \in {ret, -3}
    BY <1>8 DEF ExitAction, Panic
  <2> QED
    BY <1>0, <2>1 DEF LeastResult
<1>9. CASE (\E g \in Group : RTPrivTestRegisterGroup(g))
           \/ \E ids \in Selections : RTTestRun(ids)
  BY <1>0, <1>9 DEF RTPrivTestRegisterGroup, RTTestRun, LeastResult
<1> QED
  BY <1>2, <1>3, <1>4, <1>5, <1>6, <1>7, <1>8, <1>9
  DEF Next, vars, RunnerStep, ReaderStep, RunnerNext, Running

LEMMA TypesInvariant == Spec => []TypesKept
<1>1. Init => TypesKept
  BY InitTypes
<1>2. TypesKept /\ Started /\ [Next]_vars => TypesKept'
  BY StepTypes
<1> QED
  BY <1>1, <1>2, StartedInvariant, PTL DEF Spec

(* What the runner keeps and writes stays in range: ids in four octets,    *)
(* results in one, positions in the list of groups.                        *)
THEOREM TypeCorrect == Spec => []TypeOK
<1>1. Init => LeastResult
  BY DEF Init, RunnerInit, LeastResult
<1>2. LeastResult /\ Refusal /\ [Next]_vars => LeastResult'
  BY StepLeastResult
<1>3. TypesKept /\ Started /\ Refusal /\ LeastResult => TypeOK
  <2> SUFFICES ASSUME TypesKept, Started, Refusal, LeastResult PROVE TypeOK
    OBVIOUS
  <2>1. ToSet(groups) \subseteq Group
    <3>1. groups \in Seq(Group)
      BY DEF Started
    <3>2. \A k \in DOMAIN groups : groups[k] \in Group
      BY <3>1, GroupFacts
    <3> QED
      BY <3>2 DEF ToSet
  <2>2. \A k \in DOMAIN log : log[k].verdicts \in Seq(Verdict)
    <3> SUFFICES ASSUME NEW k \in DOMAIN log
                 PROVE  log[k].verdicts \in Seq(Verdict)
      OBVIOUS
    <3>1. log \in Seq(Entry)
      BY DEF Started
    <3>2. log[k] \in Entry
      BY <3>1, LenProperties, ElementOfSeq
    <3> QED
      BY <3>2 DEF Entry
  <2> QED
    BY <2>1, <2>2 DEF TypesKept, Started, Refusal, LeastResult, TypeOK
<1> QED
  BY <1>1, <1>2, <1>3, TypesInvariant, StartedInvariant, RefusalInvariant, PTL
  DEF Spec
(***************************************************************************)
(* What the report should be while the run is under way.                   *)
(***************************************************************************)

Heading == <<EnterGroup>> \o BigEndian(groups[group].id)

(* The first m octets of results of a group. *)
Octets(list, m) == [k \in 1..m |-> OctetOf(list, (k - 1) * OctetBits + 1)]

Reports(n) == FlattenSeq([k \in 1..n |-> GroupReport(log[k])])

InGroup ==
    pc \in {"mark", "id", "entry", "case", "octet", "last", "exit", "endmark"}

(* What has been told of the group under way. *)
Told ==
    CASE pc = "mark" -> <<>>
      [] pc = "id" -> SubSeq(Heading, 1, i + 1)
      [] pc = "entry" -> Heading
      [] pc \in {"case", "octet", "last"} ->
            Heading \o Octets(Latest, i \div OctetBits)
      [] OTHER -> Heading \o ResultOctets(Latest)

Expected ==
    CASE pc = "off" -> <<>>
      [] pc = "fourcc" -> SubSeq(FourCC, 1, i)
      [] pc = "eof" -> FourCC \o Reports(Len(log))
      [] pc = "done" -> FullReport
      [] OTHER -> (FourCC \o Reports(Len(log) - 1)) \o Told

Matches ==
    /\ Expected \in Seq(Octet)
    /\ written = Expected

Complete(n) ==
    \A k \in 1..n : Len(log[k].verdicts) = Len(groups[log[k].group].cases)

Ordered ==
    \A j, k \in DOMAIN log : j < k => log[j].group < log[k].group

(* The groups of the log are those selected up to position n. *)
UpTo(n) == {log[k].group : k \in DOMAIN log} = {k \in Selected : k <= n}

Logged ==
    InGroup =>
        /\ group \in Selected /\ log # <<>> /\ log[Len(log)].group = group
        /\ Complete(Len(log) - 1) /\ Ordered /\ UpTo(group)

(* resultBits has a bit for each case failed since the last octet. *)
BitsSoFar == Tells(resultBits, Latest, (i \div OctetBits) * OctetBits + 1)

Place ==
    CASE pc \in {"off", "fourcc"} -> log = <<>>
      [] pc \in {"mark", "entry"} -> TRUE
      [] pc = "id" ->
            id = (groups[group].id * Power(2, i * OctetBits))
                    % Power(2, 4 * OctetBits)
      [] pc = "case" -> Len(Latest) = i /\ i < Len(Cases) /\ BitsSoFar
      [] pc = "octet" ->
            /\ Len(Latest) = i + 1 /\ i < Len(Cases)
            /\ (i + 1) % OctetBits = 0 /\ BitsSoFar
      [] pc = "last" ->
            /\ Len(Latest) = i /\ i = Len(Cases)
            /\ i % OctetBits # 0 /\ BitsSoFar
      [] pc \in {"exit", "endmark"} -> Len(Latest) = Len(Cases)
      [] OTHER -> EverythingRun

(* Neither a refusal nor a failed action has ended the run.                *)
Live == ~refused /\ pc # "panic" /\ (pc = "done" => ret >= 0)

(* The report is what it should be at every step of such a run.            *)
Followed == Live => Logged /\ Place /\ Matches

(***************************************************************************)
(* Octets are written one after the other.                                *)
(***************************************************************************)

LEMMA MatchesWrote ==
    ASSUME Matches, NEW octet \in Octet,
           WrOctet(octet, TRUE), Expected' = Append(Expected, octet)
    PROVE  Matches'
<1>1. Append(Expected, octet) \in Seq(Octet)
  BY AppendProperties DEF Matches
<1> QED
  BY <1>1 DEF Matches, WrOctet

LEMMA MatchesSilent ==
    ASSUME Matches, UNCHANGED written, Expected' = Expected
    PROVE  Matches'
BY DEF Matches

(***************************************************************************)
(* Counting cases by octets.                                               *)
(***************************************************************************)

LEMMA OctetCount ==
    ASSUME NEW n \in Nat
    PROVE  /\ n \div OctetBits \in Nat /\ n % OctetBits \in 0..(OctetBits - 1)
           /\ n = OctetBits * (n \div OctetBits) + (n % OctetBits)
           /\ (n + 1) % OctetBits = 0 =>
                 /\ (n + 1) \div OctetBits = (n \div OctetBits) + 1
                 /\ n % OctetBits = OctetBits - 1
                 /\ ((n + 1) + OctetBits - 1) \div OctetBits = (n \div OctetBits) + 1
           /\ (n + 1) % OctetBits # 0 =>
                 (n + 1) \div OctetBits = n \div OctetBits
           /\ n % OctetBits # 0 =>
                 (n + OctetBits - 1) \div OctetBits = (n \div OctetBits) + 1
<1> DEFINE m == OctetBits
           q == n \div m
           r == n % m
<1>1. m \in Nat \ {0}
  BY OctetBitsType
<1> HIDE DEF m
<1>2. q \in Nat /\ r \in 0..(m - 1) /\ n = m * q + r
  BY <1>1
<1> HIDE DEF q, r
<1> DEFINE y == n + 1
           z == n + m - 1
<1>5. \A k \in Int, h \in 0..(m - 1) :
         /\ y = m * k + h => y \div m = k /\ y % m = h
         /\ z = m * k + h => z \div m = k
  <2>1. \A k \in Int, h \in 0..(m - 1) : \A x :
           x = m * k + h => x \div m = k /\ x % m = h
    BY <1>1, DivisionUnique
  <2> HIDE DEF y, z
  <2> QED
    BY <2>1
<1>6. 0 \in 0..(m - 1) /\ q + 1 \in Int /\ q \in Int
  BY <1>1, <1>2
<1>3. CASE r = m - 1
  <2>1. n + 1 = m * (q + 1) + 0
    BY <1>1, <1>2, <1>3
  <2>2. (n + 1) % m = 0 /\ (n + 1) \div m = q + 1
    BY <1>5, <1>6, <2>1
  <2>3. (n + 1) + m - 1 = m * (q + 1) + (m - 1)
    BY <1>1, <1>2, <2>1
  <2>4. ((n + 1) + m - 1) \div m = q + 1
    <3>1. m - 1 \in 0..(m - 1) /\ q + 1 \in Int
      BY <1>1, <1>2
    <3> QED
      BY <1>1, <2>3, <3>1, DivisionUnique
  <2>5. r # 0 => (n + m - 1) \div m = q + 1
    <3> SUFFICES ASSUME r # 0 PROVE (n + m - 1) \div m = q + 1
      OBVIOUS
    <3>1. n + m - 1 = m * (q + 1) + (r - 1)
      BY <1>1, <1>2
    <3>2. r - 1 \in 0..(m - 1) /\ q + 1 \in Int
      BY <1>1, <1>2
    <3> QED
      BY <1>5, <3>1, <3>2
  <2> QED
    BY <1>2, <1>3, <2>2, <2>4, <2>5 DEF m, q, r
<1>4. CASE r # m - 1
  <2>1. n + 1 = m * q + (r + 1) /\ r + 1 \in 0..(m - 1)
    BY <1>1, <1>2, <1>4
  <2>2. (n + 1) % m = r + 1 /\ (n + 1) \div m = q
    BY <1>5, <1>6, <2>1
  <2>3. r # 0 => (n + m - 1) \div m = q + 1
    <3> SUFFICES ASSUME r # 0 PROVE (n + m - 1) \div m = q + 1
      OBVIOUS
    <3>1. n + m - 1 = m * (q + 1) + (r - 1)
      BY <1>1, <1>2
    <3>2. r - 1 \in 0..(m - 1) /\ q + 1 \in Int
      BY <1>1, <1>2
    <3> QED
      BY <1>5, <3>1, <3>2
  <2>4. (n + 1) % m # 0
    BY <1>2, <2>2
  <2> QED
    BY <1>2, <2>2, <2>3, <2>4 DEF m, q, r
<1> QED
  BY <1>3, <1>4

LEMMA OctetsType ==
    ASSUME NEW list, NEW m \in Nat
    PROVE  /\ Octets(list, m) \in Seq(Octet)
           /\ Octets(list, 0) = <<>>
           /\ Octets(list, m + 1)
                 = Append(Octets(list, m), OctetOf(list, m * OctetBits + 1))
<1>1. \A n : OctetOf(list, n) \in Octet
  BY OctetOfTells DEF Tells
<1>2. \A k \in Nat : Octets(list, k) \in Seq(Octet) /\ Len(Octets(list, k)) = k
  BY <1>1, IsASeq, LenProperties DEF Octets
<1>3. Octets(list, 0) = <<>>
  BY <1>2, EmptySeq
<1>4. Octets(list, m + 1)
         = Append(Octets(list, m), OctetOf(list, m * OctetBits + 1))
  <2> DEFINE x == OctetOf(list, m * OctetBits + 1)
             s == Octets(list, m)
             t == Octets(list, m + 1)
  <2>1. /\ Append(s, x) \in Seq(Octet) /\ Len(Append(s, x)) = m + 1
        /\ \A k \in 1..m : Append(s, x)[k] = s[k]
        /\ Append(s, x)[m + 1] = x
    BY <1>1, <1>2, AppendProperties
  <2>2. \A k \in 1..m : t[k] = s[k]
    BY DEF Octets
  <2>3. t[m + 1] = x
    BY DEF Octets
  <2>4. t \in Seq(Octet) /\ Len(t) = m + 1
    BY <1>2
  <2> HIDE DEF s, t, x
  <2>5. \A k \in 1..(m + 1) : t[k] = Append(s, x)[k]
    BY <2>1, <2>2, <2>3
  <2>6. t = Append(s, x)
    BY <2>1, <2>4, <2>5, SeqEqual
  <2> QED
    BY <2>6 DEF s, t, x
<1> QED
  BY <1>2, <1>3, <1>4

LEMMA ResultOctetsIs ==
    ASSUME NEW list
    PROVE  ResultOctets(list)
              = Octets(list, (Len(list) + OctetBits - 1) \div OctetBits)
BY DEF ResultOctets, Octets

(* A verdict changes nothing in the octets before it. *)
LEMMA OctetsKept ==
    ASSUME NEW list \in Seq(Verdict), NEW v \in Verdict, NEW m \in Nat,
           OctetBits * m <= Len(list)
    PROVE  Octets(Append(list, v), m) = Octets(list, m)
<1>1. /\ OctetBits \in Nat /\ Len(list) \in Nat
      /\ DOMAIN list = 1..Len(list)
      /\ DOMAIN Append(list, v) = 1..(Len(list) + 1)
      /\ \A k \in 1..Len(list) : Append(list, v)[k] = list[k]
  BY OctetBitsType, AppendProperties, LenProperties
<1>2. ASSUME NEW k \in 1..m
      PROVE  OctetOf(Append(list, v), (k - 1) * OctetBits + 1)
                = OctetOf(list, (k - 1) * OctetBits + 1)
  <2> DEFINE n == (k - 1) * OctetBits + 1
             x == OctetOf(list, n)
  <2>1. Tells(x, list, n)
    BY OctetOfTells
  <2>2. ASSUME NEW b \in 0..(OctetBits - 1)
        PROVE  FailedAt(list, n + b) <=> FailedAt(Append(list, v), n + b)
    <3>1. n + b <= OctetBits * m
      <4>1. n + b <= (k - 1) * OctetBits + OctetBits
        BY <1>1
      <4>2. (k - 1) * OctetBits + OctetBits = OctetBits * k
        BY <1>1
      <4>3. OctetBits * k <= OctetBits * m
        BY <1>1
      <4> QED
        BY <1>1, <4>1, <4>2, <4>3
    <3>2. n + b \in 1..Len(list)
      <4>1. (k - 1) * OctetBits \in Nat
        BY <1>1
      <4> QED
        BY <1>1, <3>1, <4>1
    <3> HIDE DEF n
    <3> QED
      BY <1>1, <3>2 DEF FailedAt
  <2> HIDE DEF n, x
  <2>3. Tells(x, Append(list, v), n)
    BY <2>1, <2>2 DEF Tells
  <2>4. x = OctetOf(Append(list, v), n)
    BY <2>3, OctetIsKnown
  <2> QED
    BY <2>4 DEF n, x
<1> QED
  BY <1>2 DEF Octets

(***************************************************************************)
(* The octets of a group id.                                               *)
(***************************************************************************)

LEMMA ShiftedOctet ==
    ASSUME NEW x \in Nat, NEW j \in 0..3
    PROVE  ((x * Power(2, j * OctetBits)) % Power(2, 4 * OctetBits))
                \div Power(2, 3 * OctetBits)
              = (x \div Power(2, (3 - j) * OctetBits)) % Power(2, OctetBits)
<1> DEFINE a == Power(2, (3 - j) * OctetBits)
           c == Power(2, j * OctetBits)
           n == Power(2, OctetBits)
           m == Power(2, 3 * OctetBits)
           w == Power(2, 4 * OctetBits)
<1>1. OctetBits \in Nat
  BY OctetBitsType
<1>2. (3 - j) * OctetBits \in Nat /\ j * OctetBits \in Nat /\ 3 * OctetBits \in Nat
      /\ 4 * OctetBits \in Nat
  BY <1>1
<1>3. /\ a \in Nat \ {0} /\ c \in Nat \ {0} /\ n \in Nat \ {0}
      /\ m \in Nat \ {0} /\ w \in Nat \ {0}
  BY <1>1, <1>2, PowerType
<1>4. m = a * c
  <2>1. Power(2, (3 - j) * OctetBits + j * OctetBits) = a * c
    BY <1>2, PowerSum
  <2>2. (3 - j) * OctetBits + j * OctetBits = 3 * OctetBits
    BY <1>1
  <2> QED
    BY <2>1, <2>2
<1>5. w = m * n
  <2>1. Power(2, 3 * OctetBits + OctetBits) = m * n
    BY <1>1, <1>2, PowerSum
  <2>2. 3 * OctetBits + OctetBits = 4 * OctetBits
    BY <1>1
  <2> QED
    BY <2>1, <2>2
<1> HIDE DEF a, c, n, m, w
<1> DEFINE q == x \div a
           r == x % a
           p == q \div n
           s == q % n
<1>6. q \in Nat /\ r \in 0..(a - 1) /\ x = a * q + r
  BY <1>3
<1> HIDE DEF q, r
<1>7. p \in Nat /\ s \in 0..(n - 1) /\ q = n * p + s
  BY <1>3, <1>6
<1> HIDE DEF p, s
<1>8. r * c \in 0..(m - 1)
  <2>1. r * c <= (a - 1) * c
    BY <1>3, <1>6
  <2>2. (a - 1) * c = a * c - c
    BY <1>3
  <2> QED
    BY <1>3, <1>4, <1>6, <2>1, <2>2
<1> DEFINE y == r * c
           z == m * s + y
<1>9. x * c = w * p + z
  <2>1. x * c = (a * q) * c + y
    BY <1>3, <1>6
  <2>2. (a * q) * c = m * q
    BY <1>3, <1>4, <1>6
  <2>3. m * q = (m * n) * p + m * s
    BY <1>3, <1>7
  <2>4. (a * q) * c \in Nat /\ m * s \in Nat /\ w * p \in Nat /\ y \in Nat
    BY <1>3, <1>6, <1>7
  <2> QED
    BY <1>5, <2>1, <2>2, <2>3, <2>4
<1> HIDE DEF y
<1>10. z \in 0..(w - 1)
  <2>1. m * s <= m * (n - 1)
    BY <1>3, <1>7
  <2>2. m * (n - 1) = m * n - m
    BY <1>3
  <2>3. m * s \in Nat /\ m * n \in Nat
    BY <1>3, <1>7
  <2>4. y \in 0..(m - 1)
    BY <1>8 DEF y
  <2> QED
    BY <1>3, <1>5, <2>1, <2>2, <2>3, <2>4
<1>11. z \div m = s
  <2>1. y \in 0..(m - 1) /\ s \in Int
    BY <1>7, <1>8 DEF y
  <2> QED
    BY <1>3, <2>1, DivisionUnique
<1>12. (x * c) % w = z
  <2> HIDE DEF z
  <2>1. p \in Int
    BY <1>7
  <2> QED
    BY <1>3, <1>9, <1>10, <2>1, DivisionUnique
<1> QED
  BY <1>11, <1>12 DEF a, c, n, m, w, q, s

LEMMA ShiftedAgain ==
    ASSUME NEW x \in Nat, NEW j \in Nat
    PROVE  ShiftedUp((x * Power(2, j * OctetBits)) % Power(2, 4 * OctetBits))
              = (x * Power(2, (j + 1) * OctetBits)) % Power(2, 4 * OctetBits)
<1> DEFINE c == Power(2, j * OctetBits)
           n == Power(2, OctetBits)
           w == Power(2, 4 * OctetBits)
           y == x * c
<1>1. OctetBits \in Nat /\ j * OctetBits \in Nat
  BY OctetBitsType
<1>2. c \in Nat \ {0} /\ n \in Nat \ {0} /\ w \in Nat \ {0}
  BY <1>1, PowerType
<1>3. Power(2, (j + 1) * OctetBits) = c * n
  <2>1. Power(2, j * OctetBits + OctetBits) = c * n
    BY <1>1, PowerSum
  <2>2. j * OctetBits + OctetBits = (j + 1) * OctetBits
    BY <1>1
  <2> QED
    BY <2>1, <2>2
<1> HIDE DEF c, n, w
<1>4. y \in Nat
  BY <1>2
<1>5. x * (c * n) = y * n
  BY <1>2
<1> HIDE DEF y
<1> DEFINE q == y \div w
           r == y % w
<1>6. q \in Nat /\ r \in 0..(w - 1) /\ y = w * q + r
  BY <1>2, <1>4
<1> HIDE DEF q, r
<1>7. y * n = r * n + w * (q * n)
  BY <1>2, <1>6
<1>8. (y * n) % w = (r * n) % w
  <2>1. r * n \in Int /\ q * n \in Int
    BY <1>2, <1>6
  <2>2. (r * n + w * (q * n)) % w = (r * n) % w
    BY <1>2, <2>1, RemainderPlus
  <2> QED
    BY <1>7, <2>2
<1> QED
  BY <1>3, <1>5, <1>8 DEF ShiftedUp, r, y, c, n, w
(***************************************************************************)
(* The groups that are done with.                                          *)
(***************************************************************************)

LEMMA BigEndianType ==
    ASSUME NEW x \in Nat
    PROVE  BigEndian(x) \in Seq(Octet) /\ Len(BigEndian(x)) = 4
<1>1. ASSUME NEW k \in 1..4
      PROVE  (x \div Power(2, (4 - k) * OctetBits)) % Power(2, OctetBits) \in Octet
  <2>1. (4 - k) * OctetBits \in Nat /\ OctetBits \in Nat
    BY OctetBitsType
  <2> DEFINE a == Power(2, (4 - k) * OctetBits)
             n == Power(2, OctetBits)
  <2>2. a \in Nat \ {0} /\ n \in Nat \ {0}
    BY <2>1, PowerType
  <2> HIDE DEF a, n
  <2>3. (x \div a) % n \in 0..(n - 1)
    BY <2>2
  <2> QED
    BY <2>3 DEF Octet, a, n
<1>2. BigEndian(x) \in Seq(Octet)
  BY <1>1, IsASeq DEF BigEndian
<1>3. DOMAIN BigEndian(x) = 1..4
  BY DEF BigEndian
<1> QED
  BY <1>2, <1>3, LenProperties

LEMMA HeadingType ==
    ASSUME groups \in Seq(Group), group \in DOMAIN groups
    PROVE  /\ Heading \in Seq(Octet) /\ Len(Heading) = 5
           /\ Heading[1] = EnterGroup
           /\ \A k \in 1..4 : Heading[k + 1] = BigEndian(groups[group].id)[k]
<1> DEFINE b == BigEndian(groups[group].id)
<1>1. groups[group].id \in Nat
  <2>1. groups[group].id \in GroupId
    BY GroupFacts
  <2> QED
    BY <2>1, GroupIdNatural
<1>2. b \in Seq(Octet) /\ Len(b) = 4
  BY <1>1, BigEndianType
<1> HIDE DEF b
<1> DEFINE e == <<EnterGroup>>
<1>3. e \in Seq(Octet) /\ Len(e) = 1 /\ e[1] = EnterGroup
  BY RTTestAssumption
<1> HIDE DEF e
<1>4. /\ e \o b \in Seq(Octet)
      /\ Len(e \o b) = 5
      /\ \A k \in 1..5 : (e \o b)[k] = IF k <= 1 THEN e[k] ELSE b[k - 1]
  <2>1. /\ e \o b \in Seq(Octet) /\ Len(e \o b) = Len(e) + Len(b)
        /\ \A k \in 1..(Len(e) + Len(b)) :
              (e \o b)[k] = IF k <= Len(e) THEN e[k] ELSE b[k - Len(e)]
    BY <1>2, <1>3, ConcatProperties
  <2> QED
    BY <1>2, <1>3, <2>1
<1>5. ASSUME NEW k \in 1..4 PROVE (e \o b)[k + 1] = b[k]
  <2>1. k + 1 \in 1..5 /\ ~(k + 1 <= 1) /\ (k + 1) - 1 = k
    OBVIOUS
  <2> QED
    BY <1>4, <2>1
<1>6. (e \o b)[1] = EnterGroup
  BY <1>3, <1>4
<1> QED
  BY <1>4, <1>5, <1>6 DEF Heading, b, e

LEMMA GroupReportType ==
    ASSUME Started, NEW k \in DOMAIN log, log[k].group \in DOMAIN groups
    PROVE  GroupReport(log[k]) \in Seq(Octet)
<1> DEFINE b == BigEndian(groups[log[k].group].id)
           r == ResultOctets(log[k].verdicts)
<1>1. b \in Seq(Octet)
  <2>1. groups[log[k].group].id \in GroupId
    BY GroupFacts DEF Started
  <2> QED
    BY <2>1, GroupIdNatural, BigEndianType
<1>2. r \in Seq(Octet)
  <2>1. log[k] \in Entry
    BY LenProperties, ElementOfSeq DEF Started
  <2>2. Len(log[k].verdicts) \in Nat
    BY <2>1, LenProperties DEF Entry
  <2>3. (Len(log[k].verdicts) + OctetBits - 1) \div OctetBits \in Nat
    <3> DEFINE x == Len(log[k].verdicts) + OctetBits - 1
    <3>1. x \in Nat
      BY <2>2, OctetBitsType
    <3> HIDE DEF x
    <3>2. x \div OctetBits \in Nat
      BY <3>1, OctetBitsType
    <3> QED
      BY <3>2 DEF x
  <2> QED
    BY <2>3, ResultOctetsIs, OctetsType
<1> HIDE DEF b, r
<1>3. <<EnterGroup>> \in Seq(Octet) /\ <<ExitGroup>> \in Seq(Octet)
  BY RTTestAssumption
<1>4. ((<<EnterGroup>> \o b) \o r) \o <<ExitGroup>> \in Seq(Octet)
  BY <1>1, <1>2, <1>3, ConcatProperties
<1> QED
  BY <1>4 DEF GroupReport, b, r

(* Every group of the log is a position in the list. *)
Placed == \A k \in DOMAIN log : log[k].group \in DOMAIN groups

LEMMA UpToPlaced ==
    ASSUME NEW n, UpTo(n)
    PROVE  Placed
BY DEF UpTo, Placed, Selected

LEMMA ReportsNext ==
    ASSUME Started, Placed, NEW n \in 0..(Len(log) - 1)
    PROVE  /\ Reports(n) \in Seq(Octet)
           /\ Reports(n + 1) \in Seq(Octet)
           /\ Reports(n + 1) = Reports(n) \o GroupReport(log[n + 1])
<1>1. Len(log) \in Nat /\ DOMAIN log = 1..Len(log)
  BY LenProperties DEF Started
<1> DEFINE parts(m) == [k \in 1..m |-> GroupReport(log[k])]
<1>2. \A k \in 1..Len(log) : GroupReport(log[k]) \in Seq(Octet)
  BY <1>1, GroupReportType DEF Placed
<1>3. ASSUME NEW m \in 0..Len(log)
      PROVE  parts(m) \in Seq(Seq(Octet)) /\ Len(parts(m)) = m
  BY <1>1, <1>2, <1>3, IsASeq, LenProperties
<1>4. parts(n + 1) = Append(parts(n), GroupReport(log[n + 1]))
  <2> DEFINE x == GroupReport(log[n + 1])
             s == parts(n)
             t == parts(n + 1)
  <2>1. \A k \in 1..n : s[k] = t[k]
    BY <1>1
  <2>2. t[n + 1] = x
    BY <1>1
  <2>3. x \in Seq(Octet)
    BY <1>1, <1>2
  <2>4. /\ s \in Seq(Seq(Octet)) /\ Len(s) = n
        /\ t \in Seq(Seq(Octet)) /\ Len(t) = n + 1
    BY <1>1, <1>3
  <2> HIDE DEF s, t, x
  <2>5. /\ Append(s, x) \in Seq(Seq(Octet)) /\ Len(Append(s, x)) = n + 1
        /\ \A k \in 1..n : Append(s, x)[k] = s[k]
        /\ Append(s, x)[n + 1] = x
    BY <2>3, <2>4, AppendProperties
  <2>6. \A k \in 1..(n + 1) : t[k] = Append(s, x)[k]
    BY <2>1, <2>2, <2>5
  <2>7. t = Append(s, x)
    BY <2>4, <2>5, <2>6, SeqEqual
  <2> QED
    BY <2>7 DEF s, t, x
<1>5. parts(n) \in Seq(Seq(Octet)) /\ parts(n + 1) \in Seq(Seq(Octet))
  BY <1>1, <1>3
<1>6. GroupReport(log[n + 1]) \in Seq(Octet)
  BY <1>1, <1>2
<1>7. Reports(n) = FlattenSeq(parts(n)) /\ Reports(n + 1) = FlattenSeq(parts(n + 1))
  BY DEF Reports
<1> HIDE DEF parts
<1> QED
  BY <1>4, <1>5, <1>6, <1>7, FlattenType, FlattenAppend

LEMMA ReportsZero == Reports(0) = <<>>
<1>1. [k \in 1..0 |-> GroupReport(log[k])] = <<>>
  OBVIOUS
<1> QED
  BY <1>1, EmptySeq DEF Reports, FlattenSeq

LEMMA ReportsType ==
    ASSUME Started, Placed, NEW n \in 0..Len(log)
    PROVE  Reports(n) \in Seq(Octet)
<1>0. Len(log) \in Nat
  BY LenProperties DEF Started
<1>1. CASE n = 0
  BY <1>1, ReportsZero, EmptySeq
<1>2. CASE n # 0
  <2>1. n - 1 \in 0..(Len(log) - 1) /\ (n - 1) + 1 = n
    BY <1>0, <1>2
  <2>2. Reports((n - 1) + 1) \in Seq(Octet)
    BY <2>1, ReportsNext
  <2> QED
    BY <2>1, <2>2
<1> QED
  BY <1>1, <1>2

(* Only the groups counted matter. *)
LEMMA ReportsKept ==
    ASSUME NEW n, \A k \in 1..n : log'[k] = log[k], UNCHANGED groups
    PROVE  Reports(n)' = Reports(n)
<1>1. \A k \in 1..n : GroupReport(log[k])' = GroupReport(log[k])
  BY DEF GroupReport
<1> QED
  BY <1>1 DEF Reports

(***************************************************************************)
(* From one group to the next.                                             *)
(***************************************************************************)

LEMMA NextGroupFollowed ==
    ASSUME Started, NEW n \in Nat, Complete(Len(log)), Ordered, UpTo(n),
           NextGroup(n), UNCHANGED program
    PROVE  /\ Logged' /\ Place'
           /\ Expected' = FourCC \o Reports(Len(log))
<1>1. groups' = groups /\ selection' = selection /\ Selected' = Selected
  BY DEF program, Selected, IsIn
<1>2. log \in Seq(Entry) /\ Len(log) \in Nat /\ DOMAIN log = 1..Len(log)
  BY LenProperties DEF Started
<1>3. groups \in Seq(Group)
  BY DEF Started
<1> DEFINE rest == {j \in Selected : j > n}
<1>4. \A j \in Selected : j \in Nat
  BY <1>3, LenProperties DEF Selected
<1>5. FourCC \in Seq(Octet)
  BY RTTestAssumption
<1>6. Reports(Len(log)) \in Seq(Octet)
  BY <1>2, UpToPlaced, ReportsType
<1>7. CASE rest = {}
  <2>1. pc' = "eof" /\ UNCHANGED <<group, ret, log>>
    BY <1>7 DEF NextGroup
  <2>2. Reports(Len(log))' = Reports(Len(log))
    <3>1. \A k : GroupReport(log[k])' = GroupReport(log[k])
      BY <1>1, <2>1 DEF GroupReport
    <3> QED
      BY <2>1, <3>1 DEF Reports
  <2>3. Expected' = FourCC \o Reports(Len(log))
    BY <2>1, <2>2 DEF Expected
  <2>4. EverythingRun
    <3>1. {log[k].group : k \in DOMAIN log} = Selected
      BY <1>4, <1>7 DEF UpTo
    <3>2. ToSet([k \in DOMAIN log |-> log[k].group]) = Selected
      BY <3>1 DEF ToSet
    <3> QED
      BY <1>2, <3>2 DEF EverythingRun, Ordered, Complete
  <2>5. EverythingRun'
    BY <1>1, <2>1, <2>4 DEF EverythingRun
  <2>6. Place' /\ Logged'
    BY <2>1, <2>5 DEF Place, Logged, InGroup
  <2> QED
    BY <2>3, <2>6
<1>8. CASE rest # {}
  <2> DEFINE g == Min(rest)
             new == [group |-> g, verdicts |-> <<>>]
  <2>1. g \in Selected /\ g > n /\ \A j \in Selected : j > n => g <= j
    BY <1>3, <1>8, NextSelected
  <2>2. pc' = "mark" /\ group' = g /\ log' = Append(log, new)
    BY <1>8 DEF NextGroup
  <2> HIDE DEF g
  <2>3. g \in Nat
    BY <1>4, <2>1
  <2>4. new \in Entry
    BY <2>3, EmptySeq DEF Entry
  <2>5. /\ log' \in Seq(Entry) /\ Len(log') = Len(log) + 1
        /\ \A k \in 1..Len(log) : log'[k] = log[k]
        /\ log'[Len(log) + 1] = new
        /\ DOMAIN log' = 1..(Len(log) + 1)
    BY <1>2, <2>2, <2>4, AppendProperties, LenProperties
  <2>6. \A k \in 1..Len(log) : log[k].group \in Selected /\ log[k].group <= n
    BY <1>2 DEF UpTo
  <2>7. Ordered'
    <3> SUFFICES ASSUME NEW j \in 1..(Len(log) + 1), NEW k \in 1..(Len(log) + 1),
                        j < k
                 PROVE  log'[j].group < log'[k].group
      BY <2>5 DEF Ordered
    <3>1. CASE k = Len(log) + 1
      <4>1. j \in 1..Len(log)
        BY <1>2, <3>1
      <4>2. log[j].group <= n /\ log[j].group \in Nat
        BY <1>4, <2>6, <4>1
      <4>3. log'[k].group = g /\ log'[j].group = log[j].group
        BY <2>5, <3>1, <4>1
      <4> QED
        BY <2>1, <2>3, <4>2, <4>3
    <3>2. CASE k # Len(log) + 1
      <4>1. j \in 1..Len(log) /\ k \in 1..Len(log)
        BY <1>2, <3>2
      <4>2. log[j].group < log[k].group
        BY <1>2, <4>1 DEF Ordered
      <4> QED
        BY <2>5, <4>1, <4>2
    <3> QED
      BY <3>1, <3>2
  <2>8. {log'[k].group : k \in DOMAIN log'} = {log[k].group : k \in DOMAIN log} \cup {g}
    <3>1. \A k \in DOMAIN log' : k \in DOMAIN log \/ k = Len(log) + 1
      BY <1>2, <2>5
    <3>2. \A k \in DOMAIN log : k \in DOMAIN log' /\ log'[k].group = log[k].group
      BY <1>2, <2>5
    <3>3. Len(log) + 1 \in DOMAIN log' /\ log'[Len(log) + 1].group = g
      BY <1>2, <2>5
    <3> QED
      BY <3>1, <3>2, <3>3
  <2>9. {k \in Selected : k <= g} = {k \in Selected : k <= n} \cup {g}
    <3>1. ASSUME NEW k \in Selected, k <= g PROVE k <= n \/ k = g
      BY <1>4, <2>1, <2>3, <3>1
    <3>2. ASSUME NEW k \in Selected, k <= n PROVE k <= g
      BY <1>4, <2>1, <2>3, <3>2
    <3>3. g <= g /\ g \in Selected
      BY <2>1, <2>3
    <3> QED
      BY <3>1, <3>2, <3>3
  <2>10. UpTo(group)'
    BY <1>1, <2>2, <2>8, <2>9 DEF UpTo
  <2>11. Complete(Len(log) - 1)'
    <3>1. Len(log') - 1 = Len(log)
      BY <1>2, <2>5
    <3> QED
      BY <1>1, <2>5, <3>1 DEF Complete
  <2>12. log' # <<>> /\ log'[Len(log')].group = group'
    <3>1. Len(log') # 0 /\ log'[Len(log')] = new
      BY <1>2, <2>5
    <3>2. log' # <<>>
      BY <3>1, EmptySeq
    <3> QED
      BY <2>2, <3>1, <3>2
  <2>13. Logged' /\ Place'
    BY <1>1, <2>1, <2>2, <2>7, <2>10, <2>11, <2>12 DEF Logged, Place
  <2>14. Reports(Len(log) - 1)' = Reports(Len(log))
    <3>1. Len(log') - 1 = Len(log)
      BY <1>2, <2>5
    <3> QED
      BY <1>1, <2>5, <3>1 DEF Reports, GroupReport
  <2>15. Expected' = (FourCC \o Reports(Len(log))) \o <<>>
    BY <2>2, <2>14 DEF Expected, Told
  <2>16. FourCC \o Reports(Len(log)) \in Seq(Octet)
    BY <1>5, <1>6, ConcatProperties
  <2> QED
    BY <2>13, <2>15, <2>16, ConcatEmptySeq
<1> QED
  BY <1>7, <1>8
(***************************************************************************)
(* One step of the group under way.                                        *)
(***************************************************************************)

Base == FourCC \o Reports(Len(log) - 1)

LEMMA ConcatAppend ==
    ASSUME NEW S, NEW a \in Seq(S), NEW b \in Seq(S), NEW x \in S
    PROVE  a \o Append(b, x) = Append(a \o b, x)
<1>1. a \o b \in Seq(S)
  BY ConcatProperties
<1> DEFINE e == <<x>>
<1>2. e \in Seq(S)
  OBVIOUS
<1>3. Append(b, x) = b \o e /\ Append(a \o b, x) = (a \o b) \o e
  BY <1>1, AppendIsConcat
<1> HIDE DEF e
<1>4. (a \o b) \o e = a \o (b \o e)
  BY <1>2, ConcatAssociative
<1> QED
  BY <1>3, <1>4

LEMMA PrefixNext ==
    ASSUME NEW S, NEW h \in Seq(S), NEW n \in 0..(Len(h) - 1)
    PROVE  /\ SubSeq(h, 1, n) \in Seq(S)
           /\ SubSeq(h, 1, n + 1) = Append(SubSeq(h, 1, n), h[n + 1])
           /\ n = 0 => SubSeq(h, 1, n) = <<>>
<1> DEFINE s == SubSeq(h, 1, n)
           t == SubSeq(h, 1, n + 1)
           x == h[n + 1]
<1>0. Len(h) \in Nat /\ n \in Nat /\ n + 1 \in 1..Len(h)
  BY LenProperties
<1>1. /\ s \in Seq(S) /\ Len(s) = n /\ \A k \in 1..n : s[k] = h[k]
      /\ t \in Seq(S) /\ Len(t) = n + 1 /\ \A k \in 1..(n + 1) : t[k] = h[k]
  <2>1. 1 \in 1..(Len(h) + 1) /\ n \in 0..Len(h) /\ n + 1 \in 0..Len(h)
    BY <1>0
  <2>2. /\ s \in Seq(S)
        /\ Len(s) = IF 1 <= n THEN n - 1 + 1 ELSE 0
        /\ \A k \in 1..(n - 1 + 1) : s[k] = h[1 + k - 1]
    BY <2>1, SubSeqProperties
  <2>3. /\ t \in Seq(S)
        /\ Len(t) = IF 1 <= n + 1 THEN (n + 1) - 1 + 1 ELSE 0
        /\ \A k \in 1..((n + 1) - 1 + 1) : t[k] = h[1 + k - 1]
    BY <2>1, SubSeqProperties
  <2>4. /\ n - 1 + 1 = n /\ (n + 1) - 1 + 1 = n + 1 /\ 1 <= n + 1
        /\ ~(1 <= n) => n = 0
        /\ \A k \in 1..(n + 1) : 1 + k - 1 = k
        /\ \A k \in 1..n : 1 + k - 1 = k
    BY <1>0
  <2> HIDE DEF s, t
  <2> QED
    BY <2>2, <2>3, <2>4
<1>2. x \in S
  BY <1>0, ElementOfSeq
<1> HIDE DEF s, t
<1>3. /\ Append(s, x) \in Seq(S) /\ Len(Append(s, x)) = n + 1
      /\ \A k \in 1..n : Append(s, x)[k] = s[k]
      /\ Append(s, x)[n + 1] = x
  BY <1>1, <1>2, AppendProperties
<1>4. \A k \in 1..(n + 1) : t[k] = Append(s, x)[k]
  <2>1. \A k \in 1..(n + 1) : k \in 1..n \/ k = n + 1
    BY <1>0
  <2>2. (\A k \in 1..n : k \in 1..(n + 1)) /\ n + 1 \in 1..(n + 1)
    BY <1>0
  <2> QED
    BY <1>1, <1>3, <2>1, <2>2
<1>5. t = Append(s, x)
  BY <1>1, <1>3, <1>4, SeqEqual
<1>6. n = 0 => s = <<>>
  BY <1>1, EmptySeq
<1> QED
  BY <1>1, <1>5, <1>6 DEF s, t, x

LEMMA GroupContext ==
    ASSUME Logged, Started, InGroup
    PROVE  /\ Len(log) \in Nat \ {0} /\ DOMAIN log = 1..Len(log)
           /\ groups \in Seq(Group) /\ group \in DOMAIN groups
           /\ group \in Selected /\ group \in Nat /\ log[Len(log)].group = group
           /\ Placed
           /\ Reports(Len(log) - 1) \in Seq(Octet)
           /\ Base \in Seq(Octet)
           /\ Latest \in Seq(Verdict) /\ Len(Latest) \in Nat
<1>1. log \in Seq(Entry) /\ groups \in Seq(Group)
  BY DEF Started
<1>2. log # <<>> /\ group \in Selected /\ log[Len(log)].group = group /\ UpTo(group)
  BY DEF Logged
<1>3. Len(log) \in Nat \ {0} /\ DOMAIN log = 1..Len(log)
  BY <1>1, <1>2, LenProperties, EmptySeq
<1>4. Placed
  BY <1>2, UpToPlaced
<1>5. group \in DOMAIN groups /\ group \in Nat
  BY <1>1, <1>2, LenProperties DEF Selected
<1>6. Reports(Len(log) - 1) \in Seq(Octet)
  BY <1>3, <1>4, ReportsType
<1>7. Base \in Seq(Octet)
  BY <1>6, RTTestAssumption, ConcatProperties DEF Base
<1>8. log[Len(log)] \in Entry
  BY <1>1, <1>3, ElementOfSeq
<1>9. Latest \in Seq(Verdict) /\ Len(Latest) \in Nat
  BY <1>8, LenProperties DEF Latest, Entry
<1> QED
  BY <1>1, <1>2, <1>3, <1>4, <1>5, <1>6, <1>7, <1>9

LEMMA GroupSame ==
    ASSUME Logged, InGroup, UNCHANGED <<program, group, log>>
    PROVE  /\ Logged' /\ Base' = Base /\ Heading' = Heading
           /\ Latest' = Latest /\ Cases' = Cases
<1>1. groups' = groups /\ selection' = selection /\ log' = log /\ group' = group
  BY DEF program
<1>2. Base' = Base
  <2>1. \A k : GroupReport(log[k])' = GroupReport(log[k])
    BY <1>1 DEF GroupReport
  <2> QED
    BY <1>1, <2>1 DEF Base, Reports
<1>3. Heading' = Heading /\ Latest' = Latest /\ Cases' = Cases
  BY <1>1 DEF Heading, Latest, Cases
<1>4. Logged'
  BY <1>1 DEF Logged, Complete, Ordered, UpTo, Selected, IsIn
<1> QED
  BY <1>2, <1>3, <1>4

(* What holds of the run at any step. *)
Context == Logged /\ Place /\ Matches /\ Started /\ TypesKept /\ Refusal /\ Live

Good == Logged /\ Place /\ Matches

LEMMA EnterMarkFollowed ==
    ASSUME Context, EnterMark, Live'
    PROVE  Good'
<1> USE DEF Context
<1>1. pc = "mark" /\ InGroup
  BY DEF EnterMark, InGroup
<1>2. /\ WrOctet(EnterGroup, TRUE) /\ pc' = "id" /\ i' = 0
      /\ id' = groups[group].id /\ UNCHANGED <<program, group, log>>
  BY DEF EnterMark, Live, WrOctet
<1>3. Logged' /\ Base' = Base /\ Heading' = Heading
  BY <1>1, <1>2, GroupSame
<1>4. /\ Base \in Seq(Octet) /\ groups \in Seq(Group) /\ group \in DOMAIN groups
  BY <1>1, GroupContext
<1>5. Heading \in Seq(Octet) /\ Len(Heading) = 5 /\ Heading[1] = EnterGroup
  BY <1>4, HeadingType
<1>6. groups[group].id \in GroupId
  BY <1>4, GroupFacts
<1>7. id' = (groups'[group'].id * Power(2, i' * OctetBits))
               % Power(2, 4 * OctetBits)
  <2> DEFINE x == groups[group].id
             w == Power(2, 4 * OctetBits)
  <2>1. w \in Nat \ {0}
    BY OctetBitsType, PowerType
  <2>2. x \in 0..(w - 1)
    BY <1>6 DEF GroupId
  <2>3. Power(2, i' * OctetBits) = 1
    BY <1>2, OctetBitsType, PowerZero
  <2>4. id' = x /\ groups'[group'].id = x
    BY <1>2 DEF program
  <2> HIDE DEF x, w
  <2>5. (x * 1) % w = x
    <3>1. x * 1 = w * 0 + x
      BY <2>1, <2>2
    <3> QED
      BY <2>1, <2>2, <3>1
  <2> QED
    BY <2>3, <2>4, <2>5 DEF w
<1>8. Place'
  BY <1>2, <1>7 DEF Place
<1>9. Expected' = Append(Expected, EnterGroup)
  <2>1. Expected = Base \o <<>>
    BY <1>1 DEF Expected, Told, Base
  <2>2. Expected' = Base \o SubSeq(Heading, 1, 1)
    <3>1. Expected' = Base' \o Told'
      BY <1>2 DEF Expected, Base
    <3>2. Told' = SubSeq(Heading', 1, 1)
      BY <1>2 DEF Told
    <3> QED
      BY <1>3, <3>1, <3>2
  <2>3. SubSeq(Heading, 1, 1) = Append(<<>>, EnterGroup)
    <3>1. 0 \in 0..(Len(Heading) - 1) /\ 0 + 1 = 1
      BY <1>5
    <3>2. SubSeq(Heading, 1, 0 + 1) = Append(SubSeq(Heading, 1, 0), Heading[0 + 1])
          /\ SubSeq(Heading, 1, 0) = <<>>
      BY <1>5, <3>1, PrefixNext
    <3> QED
      BY <1>5, <3>1, <3>2
  <2>4. EnterGroup \in Octet
    BY RTTestAssumption
  <2>5. Base \o Append(<<>>, EnterGroup) = Append(Base \o <<>>, EnterGroup)
    <3> DEFINE e == <<>>
    <3>1. e \in Seq(Octet)
      BY EmptySeq
    <3> HIDE DEF e
    <3>2. Base \o Append(e, EnterGroup) = Append(Base \o e, EnterGroup)
      BY <1>4, <2>4, <3>1, ConcatAppend
    <3> QED
      BY <3>2 DEF e
  <2> QED
    BY <2>1, <2>2, <2>3, <2>5
<1>10. Matches'
  BY <1>2, <1>9, RTTestAssumption, MatchesWrote DEF TypesKept
<1> QED
  BY <1>3, <1>8, <1>10 DEF Good

LEMMA StartCasesFollowed ==
    ASSUME Context, pc \in {"id", "entry"}, StartCases,
           UNCHANGED <<program, group, log>>
    PROVE  /\ Place'
           /\ Expected' = Base \o Heading
<1> USE DEF Context
<1>1. InGroup
  BY DEF InGroup
<1>2. pc' = "case" /\ i' = 0 /\ resultBits' = 0
  BY DEF StartCases
<1>3. /\ Base' = Base /\ Heading' = Heading /\ Latest' = Latest /\ Cases' = Cases
  BY <1>1, GroupSame
<1>4. Latest = <<>>
  BY DEF Started
<1>5. groups \in Seq(Group) /\ group \in DOMAIN groups
  BY <1>1, GroupContext
<1>6. 0 \div OctetBits = 0 /\ 0 * OctetBits + 1 = 1
  BY OctetBitsType
<1>7. Place'
  <2>1. Len(Cases) \in Nat \ {0}
    BY <1>5, GroupFacts DEF Cases
  <2>2. Tells(0, <<>>, 1)
    BY ZeroOctet, OctetBitsType DEF Tells, FailedAt
  <2>3. BitsSoFar'
    BY <1>2, <1>3, <1>4, <1>6, <2>2 DEF BitsSoFar
  <2>4. Len(Latest') = 0
    BY <1>3, <1>4
  <2> QED
    BY <1>2, <1>3, <2>1, <2>3, <2>4 DEF Place
<1>8. Expected' = Base \o (Heading \o Octets(<<>>, 0))
  BY <1>2, <1>3, <1>4, <1>6 DEF Expected, Told, Base
<1>9. Heading \o Octets(<<>>, 0) = Heading
  BY <1>5, HeadingType, OctetsType, ConcatEmptySeq
<1> QED
  BY <1>7, <1>8, <1>9

LEMMA IdOctetFollowed ==
    ASSUME Context, IdOctet, Live'
    PROVE  Good'
<1> USE DEF Context
<1>1. pc = "id" /\ InGroup /\ i \in 0..3
  BY DEF IdOctet, InGroup, TypesKept
<1> DEFINE octet == id \div Power(2, 3 * OctetBits)
<1>2. /\ WrOctet(octet, TRUE) /\ UNCHANGED <<program, group, log>>
      /\ \/ i < 3 /\ i' = i + 1 /\ id' = ShiftedUp(id) /\ pc' = "id"
         \/ i = 3 /\ pc' = "entry"
         \/ i = 3 /\ StartCases
  <2>1. ret >= 0
    BY <1>1 DEF Refusal, Live
  <2>2. ~refused'
    BY DEF Live
  <2>3. PICK ok \in BOOLEAN :
          /\ WrOctet(octet, ok)
          /\ \/ /\ ok /\ i < 3
                /\ i' = i + 1
                /\ id' = ShiftedUp(id)
                /\ UNCHANGED <<pc, results>>
             \/ /\ ok /\ i = 3 /\ ret >= 0
                /\ IF groups[group].entry
                   THEN pc' = "entry" /\ UNCHANGED <<i, results>>
                   ELSE StartCases
                /\ UNCHANGED id
             \/ /\ ~ok \/ (i = 3 /\ ret < 0)
                /\ pc' = "done"
                /\ UNCHANGED <<i, id, results>>
    BY DEF IdOctet
  <2>4. ok = TRUE
    BY <2>2, <2>3 DEF WrOctet
  <2>5. ret \in Int /\ ~(ret < 0)
    BY <2>1 DEF Refusal
  <2> QED
    BY <1>1, <2>3, <2>4, <2>5 DEF IdOctet
<1>3. Logged' /\ Base' = Base /\ Heading' = Heading
  BY <1>1, <1>2, GroupSame
<1>4. /\ Base \in Seq(Octet) /\ groups \in Seq(Group) /\ group \in DOMAIN groups
  BY <1>1, GroupContext
<1> DEFINE h == Heading
           x == groups[group].id
<1>5. /\ h \in Seq(Octet) /\ Len(h) = 5
      /\ \A k \in 1..4 : h[k + 1] = BigEndian(x)[k]
  BY <1>4, HeadingType
<1>6. x \in Nat
  BY <1>4, GroupFacts, GroupIdNatural
<1>7. id = (x * Power(2, i * OctetBits)) % Power(2, 4 * OctetBits)
  BY <1>1 DEF Place
<1>8. octet = h[i + 2]
  <2>1. octet = (x \div Power(2, (3 - i) * OctetBits)) % Power(2, OctetBits)
    <3> HIDE DEF x
    <3> QED
      BY <1>1, <1>6, <1>7, ShiftedOctet
  <2>2. i + 1 \in 1..4 /\ 4 - (i + 1) = 3 - i /\ (i + 1) + 1 = i + 2
    BY <1>1
  <2>3. BigEndian(x)[i + 1]
          = (x \div Power(2, (4 - (i + 1)) * OctetBits)) % Power(2, OctetBits)
    BY <2>2 DEF BigEndian
  <2> HIDE DEF octet, h, x
  <2> QED
    BY <1>5, <2>1, <2>2, <2>3
<1>9. octet \in Octet
  BY GroupIdOctets DEF TypesKept
<1>10. Expected = Base \o SubSeq(h, 1, i + 1)
  BY <1>1 DEF Expected, Told, Base
<1> HIDE DEF octet, h
<1> DEFINE told == SubSeq(h, 1, i + 1)
<1>11. told \in Seq(Octet) /\ Append(told, octet) = SubSeq(h, 1, i + 2)
  <2>1. i + 1 \in 0..(Len(h) - 1) /\ (i + 1) + 1 = i + 2
    BY <1>1, <1>5
  <2>2. told \in Seq(Octet) /\ SubSeq(h, 1, (i + 1) + 1) = Append(told, h[(i + 1) + 1])
    BY <1>5, <2>1, PrefixNext
  <2> HIDE DEF told
  <2> QED
    BY <1>8, <2>1, <2>2
<1>12. Append(Expected, octet) = Base \o SubSeq(h, 1, i + 2)
  <2> HIDE DEF told
  <2>1. Base \o Append(told, octet) = Append(Base \o told, octet)
    <3>1. told \in Seq(Octet) /\ Base \in Seq(Octet)
      BY <1>4, <1>11
    <3> QED
      BY <1>9, <3>1, ConcatAppend
  <2>2. Expected = Base \o told
    BY <1>10 DEF told
  <2> QED
    BY <1>11, <2>1, <2>2
<1>13. i = 3 => SubSeq(h, 1, i + 2) = h
  <2>1. SubSeq(h, 1, 5) = h
    BY <1>5, SubSeqFull
  <2> QED
    BY <2>1
<1>14. CASE i < 3 /\ i' = i + 1 /\ id' = ShiftedUp(id) /\ pc' = "id"
  <2>1. Expected' = Base \o SubSeq(h, 1, i + 2)
    <3>1. Expected' = Base' \o SubSeq(Heading', 1, i' + 1)
      BY <1>14 DEF Expected, Told, Base
    <3>2. i' + 1 = i + 2
      BY <1>1, <1>14
    <3> QED
      BY <1>3, <3>1, <3>2 DEF h
  <2>2. id' = (groups'[group'].id * Power(2, i' * OctetBits))
                 % Power(2, 4 * OctetBits)
    <3>1. groups'[group'].id = x
      BY <1>2 DEF program
    <3> HIDE DEF x
    <3>2. i \in Nat
      BY <1>1
    <3> QED
      BY <1>6, <1>7, <1>14, <3>1, <3>2, ShiftedAgain
  <2>3. Place'
    BY <1>14, <2>2 DEF Place
  <2>4. Matches'
    BY <1>2, <1>9, <1>12, <2>1, MatchesWrote DEF TypesKept
  <2> QED
    BY <1>3, <2>3, <2>4 DEF Good
<1>15. CASE i = 3 /\ pc' = "entry"
  <2>1. Expected' = Base \o h
    BY <1>3, <1>15 DEF Expected, Told, Base, h
  <2>2. Expected' = Append(Expected, octet)
    BY <1>12, <1>13, <1>15, <2>1
  <2>3. Place'
    BY <1>15 DEF Place
  <2>4. Matches'
    BY <1>2, <1>9, <2>2, MatchesWrote DEF TypesKept
  <2> QED
    BY <1>3, <2>3, <2>4 DEF Good
<1>16. CASE i = 3 /\ StartCases
  <2>1. Place' /\ Expected' = Base \o h
    BY <1>1, <1>2, <1>16, StartCasesFollowed DEF h
  <2>2. Expected' = Append(Expected, octet)
    BY <1>12, <1>13, <1>16, <2>1
  <2>4. Matches'
    BY <1>2, <1>9, <2>2, MatchesWrote DEF TypesKept
  <2> QED
    BY <1>3, <2>1, <2>4 DEF Good
<1> QED
  BY <1>2, <1>14, <1>15, <1>16

LEMMA EntryActionFollowed ==
    ASSUME Context, EntryAction, Live'
    PROVE  Good'
<1> USE DEF Context
<1>1. pc = "entry" /\ InGroup
  BY DEF EntryAction, InGroup
<1>2. StartCases /\ UNCHANGED <<program, group, log, written>>
  BY DEF EntryAction, Live, output
<1>3. Logged'
  BY <1>1, <1>2, GroupSame
<1>4. Place' /\ Expected' = Base \o Heading
  BY <1>1, <1>2, StartCasesFollowed
<1>5. Expected = Base \o Heading
  BY <1>1 DEF Expected, Told, Base
<1>6. Matches'
  BY <1>2, <1>4, <1>5, MatchesSilent
<1> QED
  BY <1>3, <1>4, <1>6 DEF Good
(* One verdict more: what resultBits says of the cases since the last      *)
(* octet, before and after.                                                *)
LEMMA VerdictTold ==
    ASSUME NEW list \in Seq(Verdict), NEW v \in Verdict, Len(list) = i,
           i \in Nat, BitsSoFar, Latest = list,
           resultBits' = IF v = "pass" THEN resultBits
                         ELSE SetBit(resultBits, i % OctetBits)
    PROVE  Tells(resultBits', Append(list, v),
                 (i \div OctetBits) * OctetBits + 1)
<1> DEFINE q == i \div OctetBits
           r == i % OctetBits
           n == q * OctetBits + 1
<1>1. /\ OctetBits \in Nat /\ q \in Nat /\ r \in 0..(OctetBits - 1)
      /\ i = OctetBits * q + r
  BY OctetBitsType, OctetCount
<1>2. n + r = i + 1 /\ n \in Nat
  BY <1>1
<1>3. Tells(resultBits, list, n)
  BY DEF BitsSoFar
<1> HIDE DEF q, r, n
<1>4. /\ DOMAIN list = 1..i /\ DOMAIN Append(list, v) = 1..(i + 1)
      /\ \A k \in 1..i : Append(list, v)[k] = list[k]
      /\ Append(list, v)[i + 1] = v
  BY AppendProperties, LenProperties
<1>5. ASSUME NEW b \in 0..(OctetBits - 1)
      PROVE  FailedAt(Append(list, v), n + b)
                <=> (b = r /\ v # "pass") \/ FailedAt(list, n + b)
  <2>1. n + b \in Nat /\ (n + b = i + 1 <=> b = r)
    BY <1>1, <1>2
  <2>2. FailedAt(list, n + b) <=> n + b \in 1..i /\ list[n + b] # "pass"
    BY <1>4 DEF FailedAt
  <2>3. FailedAt(Append(list, v), n + b)
           <=> n + b \in 1..(i + 1) /\ Append(list, v)[n + b] # "pass"
    BY <1>4 DEF FailedAt
  <2>4. CASE n + b = i + 1
    <3>1. n + b \in 1..(i + 1) /\ n + b \notin 1..i
      BY <2>4
    <3> QED
      BY <1>4, <2>1, <2>2, <2>3, <2>4, <3>1
  <2>5. CASE n + b # i + 1
    <3>1. n + b \in 1..(i + 1) <=> n + b \in 1..i
      BY <2>1, <2>5
    <3> QED
      BY <1>4, <2>1, <2>2, <2>3, <2>5, <3>1
  <2> QED
    BY <2>4, <2>5
<1>6. Tells(resultBits', Append(list, v), n)
  <2>1. CASE v = "pass"
    BY <1>3, <1>5, <2>1 DEF Tells
  <2>2. CASE v # "pass"
    <3>1. resultBits' = SetBit(resultBits, r)
      BY <2>2 DEF r
    <3>2. resultBits \in Octet
      BY <1>3 DEF Tells
    <3>3. /\ SetBit(resultBits, r) \in Octet
          /\ \A c \in Nat :
                HasBit(SetBit(resultBits, r), c) <=> c = r \/ HasBit(resultBits, c)
      BY <1>1, <3>2, SetBitSets
    <3>4. \A b \in 0..(OctetBits - 1) : b \in Nat
      BY <1>1
    <3> QED
      BY <1>3, <1>5, <2>2, <3>1, <3>3, <3>4 DEF Tells
  <2> QED
    BY <2>1, <2>2
<1> QED
  BY <1>6 DEF n, q

LEMMA TestCaseFollowed ==
    ASSUME Context, TestCase
    PROVE  Good'
<1> USE DEF Context
<1>1. pc = "case" /\ InGroup
  BY DEF TestCase, InGroup
<1>2. PICK v \in Verdict :
         /\ resultBits' = IF v = "pass" THEN resultBits
                          ELSE SetBit(resultBits, i % OctetBits)
         /\ log' = [log EXCEPT ![Len(log)] =
                       [group |-> group, verdicts |-> Append(@.verdicts, v)]]
  BY DEF TestCase
<1>3. /\ UNCHANGED <<program, group, written>>
      /\ \/ (i + 1) % OctetBits = 0 /\ pc' = "octet" /\ i' = i
         \/ (i + 1) % OctetBits # 0 /\ NextCase
  BY DEF TestCase, output
<1>4. /\ Len(log) \in Nat \ {0} /\ DOMAIN log = 1..Len(log)
      /\ group \in DOMAIN groups /\ Placed
      /\ log[Len(log)].group = group /\ groups \in Seq(Group)
      /\ Latest \in Seq(Verdict) /\ log \in Seq(Entry) /\ group \in Nat
  BY <1>1, GroupContext DEF Started
<1>5. groups' = groups /\ selection' = selection /\ group' = group
      /\ Selected' = Selected
  BY <1>3 DEF program, Selected, IsIn
<1>6. i \in Nat /\ Len(Latest) = i /\ i < Len(Cases) /\ BitsSoFar
  BY <1>1 DEF Place, TypesKept
<1> DEFINE new == [group |-> group, verdicts |-> Append(Latest, v)]
           list == Append(Latest, v)
<1>7. /\ list \in Seq(Verdict) /\ Len(list) = i + 1
  BY <1>4, <1>6, AppendProperties
<1> DEFINE n == Len(log)
<1>18. n \in Nat \ {0} /\ DOMAIN log = 1..n /\ n \in 1..n
       /\ \A k \in 1..(n - 1) : k \in 1..n /\ k # n
  <2>1. n \in Nat \ {0} /\ DOMAIN log = 1..n
    BY <1>4
  <2> HIDE DEF n
  <2> QED
    BY <2>1
<1>8. /\ Len(log') = n /\ DOMAIN log' = 1..n
      /\ \A k \in 1..n : log'[k] = IF k = n THEN new ELSE log[k]
  <2>1. log' = [log EXCEPT ![Len(log)] = new]
    BY <1>2 DEF Latest
  <2>2. new \in Entry
    BY <1>4, <1>7 DEF Entry
  <2> HIDE DEF new
  <2>4. /\ log' \in Seq(Entry) /\ Len(log') = Len(log)
        /\ \A k \in 1..Len(log) : log'[k] = IF k = Len(log) THEN new ELSE log[k]
    <3>1. log \in Seq(Entry) /\ Len(log) \in 1..Len(log)
      BY <1>4, <1>18
    <3> QED
      BY <2>1, <2>2, <3>1, ExceptSeq
  <2>5. DOMAIN log' = 1..n
    BY <2>4, LenProperties
  <2> QED
    BY <2>4, <2>5
<1> HIDE DEF n
<1>9. Latest' = list
  <2>1. log'[Len(log')] = new
    BY <1>8, <1>18
  <2> QED
    BY <2>1 DEF Latest
<1>10. \A k \in 1..n : log'[k].group = log[k].group
  <2>1. log[n].group = group
    BY <1>4 DEF n
  <2> QED
    BY <1>8, <2>1
<1>11. Logged'
  <2>1. log' # <<>>
    <3>1. Len(log') # 0
      BY <1>8, <1>18
    <3> QED
      BY <3>1, EmptySeq
  <2>2. log'[Len(log')].group = group
    BY <1>8, <1>18
  <2>3. Complete(Len(log) - 1)'
    <3>1. Complete(n - 1)
      BY <1>1 DEF Logged, n
    <3>2. \A k \in 1..(n - 1) :
             Len(log'[k].verdicts) = Len(groups'[log'[k].group].cases)
      BY <1>5, <1>8, <1>18, <3>1 DEF Complete
    <3> QED
      BY <1>8, <3>2 DEF Complete, n
  <2>4. Ordered'
    BY <1>1, <1>8, <1>10, <1>18 DEF Logged, Ordered
  <2>5. UpTo(group)'
    <3>1. UpTo(group)
      BY <1>1 DEF Logged
    <3> QED
      BY <1>5, <1>8, <1>10, <1>18, <3>1 DEF UpTo
  <2>6. group' \in Selected'
    BY <1>1, <1>5 DEF Logged
  <2> QED
    BY <1>5, <2>1, <2>2, <2>3, <2>4, <2>5, <2>6 DEF Logged
<1>12. Tells(resultBits', list, (i \div OctetBits) * OctetBits + 1)
  BY <1>2, <1>4, <1>6, VerdictTold
<1>13. Cases' = Cases
  BY <1>5 DEF Cases
<1>14. /\ (i + 1) % OctetBits # 0 =>
             (i + 1) \div OctetBits = i \div OctetBits
       /\ i \div OctetBits \in Nat
       /\ OctetBits * (i \div OctetBits) <= i
  <2>1. /\ i \div OctetBits \in Nat /\ i % OctetBits \in 0..(OctetBits - 1)
        /\ i = OctetBits * (i \div OctetBits) + (i % OctetBits)
        /\ (i + 1) % OctetBits # 0 =>
               (i + 1) \div OctetBits = i \div OctetBits
    BY <1>6, OctetCount
  <2> DEFINE q == i \div OctetBits
             r == i % OctetBits
  <2>2. q \in Nat /\ r \in Nat /\ i = OctetBits * q + r
    BY <2>1, OctetBitsType
  <2> HIDE DEF q, r
  <2>3. OctetBits * q <= i
    BY <2>2, OctetBitsType
  <2> QED
    BY <2>1, <2>3 DEF q
<1>15. /\ pc' \in {"octet", "case", "last"}
       /\ i' \div OctetBits = i \div OctetBits
       /\ Place'
  <2>1. CASE (i + 1) % OctetBits = 0 /\ pc' = "octet" /\ i' = i
    <3>1. BitsSoFar'
      BY <1>9, <1>12, <2>1 DEF BitsSoFar
    <3> QED
      BY <1>6, <1>7, <1>9, <1>13, <2>1, <3>1 DEF Place
  <2>2. CASE (i + 1) % OctetBits # 0 /\ NextCase
    <3>1. i' = i + 1 /\ pc' = IF i + 1 < Len(Cases) THEN "case" ELSE "last"
      BY <2>2 DEF NextCase
    <3>2. i' \div OctetBits = i \div OctetBits
      BY <1>14, <2>2, <3>1
    <3>3. BitsSoFar'
      BY <1>9, <1>12, <3>2 DEF BitsSoFar
    <3>4. Len(Cases) \in Nat
      BY <1>4, GroupFacts DEF Cases
    <3> QED
      BY <1>6, <1>7, <1>9, <1>13, <2>2, <3>1, <3>2, <3>3, <3>4 DEF Place
  <2> QED
    BY <1>3, <2>1, <2>2
<1>16. Expected' = Expected
  <2>1. Base' = Base
    <3>1. \A k \in 1..(n - 1) : GroupReport(log[k])' = GroupReport(log[k])
      <4> TAKE k \in 1..(n - 1)
      <4>1. log'[k] = log[k]
        BY <1>8, <1>18
      <4> QED
        BY <1>5, <4>1 DEF GroupReport
    <3> QED
      BY <1>8, <3>1 DEF Base, Reports, n
  <2>2. Heading' = Heading
    BY <1>5 DEF Heading
  <2>3. Octets(Latest', i' \div OctetBits) = Octets(Latest, i \div OctetBits)
    BY <1>4, <1>6, <1>9, <1>14, <1>15, OctetsKept
  <2>4. Expected = Base \o (Heading \o Octets(Latest, i \div OctetBits))
    BY <1>1 DEF Expected, Told, Base
  <2>5. Expected' = Base' \o (Heading' \o Octets(Latest', i' \div OctetBits))
    BY <1>15 DEF Expected, Told, Base, Octets
  <2> QED
    BY <2>1, <2>2, <2>3, <2>4, <2>5
<1>17. Matches'
  BY <1>3, <1>16, MatchesSilent
<1> QED
  BY <1>11, <1>15, <1>17 DEF Good

(* The octets of a group, and the next one. *)
LEMMA OctetToldNext ==
    ASSUME Logged, Started, InGroup, NEW q \in Nat, NEW x,
           x = OctetOf(Latest, q * OctetBits + 1)
    PROVE  /\ x \in Octet
           /\ Append(Base \o (Heading \o Octets(Latest, q)), x)
                 = Base \o (Heading \o Octets(Latest, q + 1))
<1> DEFINE o == Octets(Latest, q)
           h == Heading
           b == Base
<1>1. x \in Octet
  BY OctetOfTells DEF Tells
<1>2. o \in Seq(Octet) /\ Octets(Latest, q + 1) = Append(o, x)
  BY OctetsType
<1>3. h \in Seq(Octet) /\ b \in Seq(Octet)
  BY GroupContext, HeadingType
<1> HIDE DEF o, h, b
<1>4. h \o o \in Seq(Octet)
  BY <1>2, <1>3, ConcatProperties
<1>5. h \o Append(o, x) = Append(h \o o, x)
  BY <1>1, <1>2, <1>3, ConcatAppend
<1> DEFINE ho == h \o o
<1>6. ho \in Seq(Octet)
  BY <1>4
<1> HIDE DEF ho
<1>7. b \o Append(ho, x) = Append(b \o ho, x)
  BY <1>1, <1>3, <1>6, ConcatAppend
<1> QED
  BY <1>1, <1>2, <1>5, <1>7 DEF o, h, b, ho

LEMMA ResultOctetFollowed ==
    ASSUME Context, ResultOctet, Live'
    PROVE  Good'
<1> USE DEF Context
<1>1. pc = "octet" /\ InGroup /\ i \in Nat
  BY DEF ResultOctet, InGroup, TypesKept
<1>2. /\ WrOctet(resultBits, TRUE) /\ UNCHANGED <<program, group, log>>
      /\ resultBits' = 0 /\ NextCase
  BY DEF ResultOctet, Live, WrOctet
<1>3. /\ Logged' /\ Base' = Base /\ Heading' = Heading /\ Latest' = Latest
      /\ Cases' = Cases
  BY <1>1, <1>2, GroupSame
<1>4. /\ Len(Latest) = i + 1 /\ i < Len(Cases)
      /\ (i + 1) % OctetBits = 0 /\ BitsSoFar
  BY <1>1 DEF Place
<1> DEFINE q == i \div OctetBits
<1>5. /\ q \in Nat /\ i' = i + 1
      /\ i' \div OctetBits = q + 1
      /\ (Len(Latest) + OctetBits - 1) \div OctetBits = q + 1
      /\ OctetBits * q + OctetBits = i + 1
  <2>1. /\ i \div OctetBits \in Nat
        /\ i = OctetBits * (i \div OctetBits) + (i % OctetBits)
        /\ (i + 1) \div OctetBits = (i \div OctetBits) + 1
        /\ i % OctetBits = OctetBits - 1
        /\ ((i + 1) + OctetBits - 1) \div OctetBits = (i \div OctetBits) + 1
    BY <1>1, <1>4, OctetCount
  <2>2. i' = i + 1
    BY <1>2 DEF NextCase
  <2>3. OctetBits * q + OctetBits = i + 1
    <3> HIDE DEF q
    <3>1. q \in Nat /\ i = OctetBits * q + (OctetBits - 1)
      BY <2>1 DEF q
    <3> QED
      BY <1>1, <3>1, OctetBitsType
  <2> QED
    BY <1>4, <2>1, <2>2, <2>3
<1>6. resultBits = OctetOf(Latest, q * OctetBits + 1)
  BY <1>4, OctetIsKnown DEF BitsSoFar
<1>7. Expected = Base \o (Heading \o Octets(Latest, q))
  BY <1>1 DEF Expected, Told, Base
<1>8. /\ resultBits \in Octet
      /\ Append(Expected, resultBits) = Base \o (Heading \o Octets(Latest, q + 1))
  <2> HIDE DEF q
  <2> QED
    BY <1>1, <1>5, <1>6, <1>7, OctetToldNext
<1>9. pc' \in {"case", "exit", "endmark"}
      /\ (pc' = "case" => i + 1 < Len(Cases))
      /\ (pc' # "case" => ~(i + 1 < Len(Cases)))
  BY <1>2, <1>4 DEF NextCase, AfterCases
<1>10. Expected' = Base \o (Heading \o Octets(Latest, q + 1))
  <2>1. CASE pc' = "case"
    BY <1>3, <1>5, <2>1 DEF Expected, Told, Base, Octets
  <2>2. CASE pc' \in {"exit", "endmark"}
    <3>1. Expected' = Base' \o (Heading' \o ResultOctets(Latest'))
      BY <2>2 DEF Expected, Told, Base, ResultOctets
    <3>2. ResultOctets(Latest) = Octets(Latest, q + 1)
      BY <1>5, ResultOctetsIs
    <3> QED
      BY <1>3, <3>1, <3>2
  <2> QED
    BY <1>9, <2>1, <2>2
<1>11. Place'
  <2>0. Len(Cases) \in Nat
    BY <1>1, GroupContext, GroupFacts DEF Cases
  <2>1. CASE pc' = "case"
    <3>1. Tells(0, Latest, (i' \div OctetBits) * OctetBits + 1)
      <4>1. (i' \div OctetBits) * OctetBits + 1 = i + 2
        <5>1. (q + 1) * OctetBits = OctetBits * q + OctetBits
          <6> HIDE DEF q
          <6> QED
            BY <1>5, OctetBitsType
        <5> HIDE DEF q
        <5> QED
          BY <1>1, <1>5, <5>1
      <4>2. DOMAIN Latest = 1..(i + 1)
        BY <1>1, <1>4, GroupContext, LenProperties
      <4>3. \A b \in 0..(OctetBits - 1) : ~FailedAt(Latest, i + 2 + b)
        BY <1>1, <4>2, OctetBitsType DEF FailedAt
      <4>4. \A b \in 0..(OctetBits - 1) : b \in Nat
        BY OctetBitsType
      <4> QED
        BY <4>1, <4>3, <4>4, ZeroOctet DEF Tells
    <3>2. BitsSoFar'
      BY <1>2, <1>3, <3>1 DEF BitsSoFar
    <3> QED
      BY <1>3, <1>4, <1>5, <1>9, <2>1, <3>2 DEF Place
  <2>2. CASE pc' \in {"exit", "endmark"}
    <3>1. Len(Latest) = Len(Cases)
      BY <1>1, <1>4, <1>9, <2>0, <2>2
    <3> QED
      BY <1>3, <2>2, <3>1 DEF Place
  <2> QED
    BY <1>9, <2>1, <2>2
<1>12. Matches'
  BY <1>2, <1>8, <1>10, MatchesWrote DEF TypesKept
<1> QED
  BY <1>3, <1>11, <1>12 DEF Good

LEMMA LastOctetFollowed ==
    ASSUME Context, LastOctet, Live'
    PROVE  Good'
<1> USE DEF Context
<1>1. pc = "last" /\ InGroup /\ i \in Nat
  BY DEF LastOctet, InGroup, TypesKept
<1>2. /\ WrOctet(resultBits, TRUE) /\ UNCHANGED <<program, group, log>>
      /\ pc' = AfterCases
  <2>1. ret >= 0
    BY <1>1 DEF Refusal, Live
  <2> QED
    BY <2>1 DEF LastOctet, Live, WrOctet
<1>3. /\ Logged' /\ Base' = Base /\ Heading' = Heading /\ Latest' = Latest
      /\ Cases' = Cases
  BY <1>1, <1>2, GroupSame
<1>4. /\ Len(Latest) = i /\ i = Len(Cases)
      /\ i % OctetBits # 0 /\ BitsSoFar
  BY <1>1 DEF Place
<1> DEFINE q == i \div OctetBits
<1>5. q \in Nat /\ (Len(Latest) + OctetBits - 1) \div OctetBits = q + 1
  <2>1. /\ i \div OctetBits \in Nat
        /\ (i + OctetBits - 1) \div OctetBits = (i \div OctetBits) + 1
    BY <1>1, <1>4, OctetCount
  <2> QED
    BY <1>4, <2>1
<1>6. resultBits = OctetOf(Latest, q * OctetBits + 1)
  BY <1>4, OctetIsKnown DEF BitsSoFar
<1>7. Expected = Base \o (Heading \o Octets(Latest, q))
  BY <1>1 DEF Expected, Told, Base
<1>8. /\ resultBits \in Octet
      /\ Append(Expected, resultBits) = Base \o (Heading \o Octets(Latest, q + 1))
  <2> HIDE DEF q
  <2> QED
    BY <1>1, <1>5, <1>6, <1>7, OctetToldNext
<1>9. pc' \in {"exit", "endmark"}
  BY <1>2 DEF AfterCases
<1>10. Expected' = Base \o (Heading \o Octets(Latest, q + 1))
  <2>1. Expected' = Base' \o (Heading' \o ResultOctets(Latest'))
    BY <1>9 DEF Expected, Told, Base, ResultOctets
  <2>2. ResultOctets(Latest) = Octets(Latest, q + 1)
    BY <1>5, ResultOctetsIs
  <2> QED
    BY <1>3, <2>1, <2>2
<1>11. Place'
  BY <1>3, <1>4, <1>9 DEF Place
<1>12. Matches'
  BY <1>2, <1>8, <1>10, MatchesWrote DEF TypesKept
<1> QED
  BY <1>3, <1>11, <1>12 DEF Good

LEMMA ExitActionFollowed ==
    ASSUME Context, ExitAction, Live'
    PROVE  Good'
<1> USE DEF Context
<1>1. pc = "exit" /\ InGroup
  BY DEF ExitAction, InGroup
<1>2. pc' = "endmark" /\ UNCHANGED <<program, group, log, written>>
  BY DEF ExitAction, Live, output
<1>3. /\ Logged' /\ Base' = Base /\ Heading' = Heading /\ Latest' = Latest
      /\ Cases' = Cases
  BY <1>1, <1>2, GroupSame
<1>4. Place'
  BY <1>1, <1>2, <1>3 DEF Place
<1>5. Expected = Base \o (Heading \o ResultOctets(Latest))
  BY <1>1 DEF Expected, Told, Base
<1>6. Expected' = Base' \o (Heading' \o ResultOctets(Latest'))
  BY <1>2 DEF Expected, Told, Base, ResultOctets
<1>7. Matches'
  BY <1>2, <1>3, <1>5, <1>6, MatchesSilent
<1> QED
  BY <1>3, <1>4, <1>7 DEF Good

LEMMA ExitMarkFollowed ==
    ASSUME Context, ExitMark, Live'
    PROVE  Good'
<1> USE DEF Context
<1>1. pc = "endmark" /\ InGroup
  BY DEF ExitMark, InGroup
<1>2. /\ WrOctet(ExitGroup, TRUE) /\ UNCHANGED program
      /\ NextGroup(group)
  BY DEF ExitMark, Live, WrOctet
<1> DEFINE n == Len(log)
<1>3. /\ n \in Nat \ {0} /\ DOMAIN log = 1..n /\ Placed
      /\ group \in Nat /\ group \in DOMAIN groups /\ log[n].group = group
      /\ Reports(n - 1) \in Seq(Octet) /\ Base \in Seq(Octet)
      /\ Latest \in Seq(Verdict)
  BY <1>1, GroupContext
<1>4. Len(Latest) = Len(Cases) /\ Complete(n - 1) /\ Ordered /\ UpTo(group)
  BY <1>1 DEF Place, Logged
<1>5. Complete(n)
  <2>1. Len(log[n].verdicts) = Len(groups[log[n].group].cases)
    BY <1>3, <1>4 DEF Latest, Cases
  <2> HIDE DEF n
  <2>2. \A k \in 1..n : k \in 1..(n - 1) \/ k = n
    BY <1>3
  <2> QED
    BY <1>4, <2>1, <2>2 DEF Complete
<1>6. Logged' /\ Place' /\ Expected' = FourCC \o Reports(n)
  BY <1>2, <1>3, <1>4, <1>5, NextGroupFollowed
<1>7. Append(Expected, ExitGroup) = FourCC \o Reports(n)
  <2> DEFINE r == Reports(n - 1)
             h == Heading
             o == ResultOctets(Latest)
             x == <<ExitGroup>>
             ho == h \o o
  <2>1. Expected = (FourCC \o r) \o ho
    BY <1>1 DEF Expected, Told, Base
  <2>2. GroupReport(log[n]) = ho \o x
    BY <1>3 DEF GroupReport, Heading, Latest
  <2>3. Reports(n) = r \o GroupReport(log[n])
    <3>1. n - 1 \in 0..(n - 1) /\ (n - 1) + 1 = n
      <4> HIDE DEF n
      <4> QED
        BY <1>3
    <3>2. Reports((n - 1) + 1) = Reports(n - 1) \o GroupReport(log[(n - 1) + 1])
      BY <1>3, <3>1, ReportsNext
    <3> QED
      BY <3>1, <3>2
  <2>4. FourCC \in Seq(Octet) /\ ExitGroup \in Octet /\ x \in Seq(Octet)
    BY RTTestAssumption
  <2>5. h \in Seq(Octet)
    BY <1>3, HeadingType DEF Started
  <2>6. o \in Seq(Octet)
    <3> DEFINE m == Len(Latest) + OctetBits - 1
    <3>1. m \in Nat
      BY <1>3, LenProperties, OctetBitsType
    <3> HIDE DEF m
    <3>2. m \div OctetBits \in Nat
      BY <3>1, OctetBitsType
    <3> QED
      BY <3>2, ResultOctetsIs, OctetsType DEF m
  <2>7. r \in Seq(Octet)
    BY <1>3
  <2>8. FourCC \o r \in Seq(Octet) /\ ho \in Seq(Octet)
    BY <2>4, <2>5, <2>6, <2>7, ConcatProperties
  <2> DEFINE fr == FourCC \o r
             f == FourCC
  <2> HIDE DEF r, h, o, ho, fr, f
  <2>9. fr \o ho \in Seq(Octet) /\ Append(fr \o ho, ExitGroup) = (fr \o ho) \o x
    <3>1. fr \o ho \in Seq(Octet)
      BY <2>8, ConcatProperties DEF fr
    <3>2. Append(fr \o ho, ExitGroup) = (fr \o ho) \o x
      BY <2>4, <3>1, AppendIsConcat
    <3> QED
      BY <3>1, <3>2
  <2> HIDE DEF x
  <2>10. (fr \o ho) \o x = fr \o (ho \o x)
    BY <2>4, <2>8, ConcatAssociative, SMTT(30) DEF fr
  <2>11. ho \o x \in Seq(Octet)
    BY <2>4, <2>8, ConcatProperties
  <2> DEFINE hox == ho \o x
  <2> HIDE DEF hox
  <2>12. (f \o r) \o hox = f \o (r \o hox)
    BY <2>4, <2>7, <2>11, ConcatAssociative, SMTT(30) DEF f, hox
  <2> QED
    BY <2>1, <2>2, <2>3, <2>9, <2>10, <2>12 DEF fr, f, hox
<1>8. Matches'
  <2>1. ExitGroup \in Octet
    BY RTTestAssumption
  <2> QED
    BY <1>2, <1>6, <1>7, <2>1, MatchesWrote DEF TypesKept
<1> QED
  BY <1>6, <1>8 DEF Good

LEMMA WritePreambleFollowed ==
    ASSUME Context, WritePreamble, Live'
    PROVE  Good'
<1> USE DEF Context
<1>1. pc = "fourcc" /\ i \in 0..3 /\ log = <<>>
  BY DEF WritePreamble, Place, TypesKept
<1>2. /\ WrOctet(FourCC[i + 1], TRUE) /\ UNCHANGED program
      /\ \/ i < 3 /\ i' = i + 1 /\ UNCHANGED <<pc, group, log>>
         \/ i = 3 /\ NextGroup(0)
  BY DEF WritePreamble, Live, WrOctet
<1>3. FourCC \in Seq(Octet) /\ Len(FourCC) = 4
  BY RTTestAssumption
<1>4. /\ FourCC[i + 1] \in Octet
      /\ SubSeq(FourCC, 1, i + 1) = Append(SubSeq(FourCC, 1, i), FourCC[i + 1])
  <2>1. i \in 0..(Len(FourCC) - 1) /\ i + 1 \in 1..Len(FourCC)
    BY <1>1, <1>3
  <2> QED
    BY <1>3, <2>1, PrefixNext, ElementOfSeq
<1>5. Append(Expected, FourCC[i + 1]) = SubSeq(FourCC, 1, i + 1)
  BY <1>1, <1>4 DEF Expected
<1>6. CASE i < 3 /\ i' = i + 1 /\ UNCHANGED <<pc, group, log>>
  <2>1. Expected' = SubSeq(FourCC, 1, i + 1)
    BY <1>1, <1>6 DEF Expected
  <2>2. Matches'
    BY <1>2, <1>4, <1>5, <2>1, MatchesWrote DEF TypesKept
  <2>3. Logged' /\ Place'
    BY <1>1, <1>6 DEF Logged, InGroup, Place
  <2> QED
    BY <2>2, <2>3 DEF Good
<1>7. CASE i = 3 /\ NextGroup(0)
  <2>1. Len(log) = 0 /\ DOMAIN log = {}
    BY <1>1
  <2>2. Complete(Len(log)) /\ Ordered
    BY <2>1 DEF Complete, Ordered
  <2>3. UpTo(0)
    <3>1. \A k \in Selected : k \in Nat /\ k # 0
      BY LenProperties DEF Selected, Started
    <3> QED
      BY <2>1, <3>1 DEF UpTo
  <2>4. Logged' /\ Place' /\ Expected' = FourCC \o Reports(Len(log))
    BY <1>2, <1>7, <2>2, <2>3, NextGroupFollowed
  <2>5. FourCC \o Reports(Len(log)) = FourCC
    BY <1>3, <2>1, ReportsZero, ConcatEmptySeq
  <2>6. SubSeq(FourCC, 1, i + 1) = FourCC
    <3>1. SubSeq(FourCC, 1, 4) = FourCC
      BY <1>3, SubSeqFull
    <3> QED
      BY <1>7, <3>1
  <2>7. Matches'
    BY <1>2, <1>4, <1>5, <2>4, <2>5, <2>6, MatchesWrote DEF TypesKept
  <2> QED
    BY <2>4, <2>7 DEF Good
<1> QED
  BY <1>2, <1>6, <1>7

LEMMA WriteEndOfFileFollowed ==
    ASSUME Context, WriteEndOfFile, Live'
    PROVE  Good'
<1> USE DEF Context
<1>1. pc = "eof" /\ pc' = "done" /\ UNCHANGED <<program, group, log>>
      /\ WrOctet(EndOfFile, TRUE)
  BY DEF WriteEndOfFile, Live, WrOctet
<1>2. groups' = groups /\ selection' = selection /\ log' = log
  BY <1>1 DEF program
<1>3. EverythingRun
  BY <1>1 DEF Place
<1>4. EverythingRun'
  BY <1>2, <1>3 DEF EverythingRun, Selected, IsIn
<1>5. Logged' /\ Place'
  BY <1>1, <1>4 DEF Logged, InGroup, Place
<1>6. FullReport' = FullReport
  <2>1. \A k : GroupReport(log[k])' = GroupReport(log[k])
    BY <1>2 DEF GroupReport
  <2> QED
    BY <1>2, <2>1 DEF FullReport
<1>7. FullReport = (FourCC \o Reports(Len(log))) \o <<EndOfFile>>
  <2>1. DOMAIN log = 1..Len(log)
    BY LenProperties DEF Started
  <2> QED
    BY <2>1 DEF FullReport, Reports
<1>8. Expected = FourCC \o Reports(Len(log))
  BY <1>1 DEF Expected
<1>9. EndOfFile \in Octet /\ Expected \in Seq(Octet)
  BY RTTestAssumption DEF Matches
<1>10. Append(Expected, EndOfFile) = Expected \o <<EndOfFile>>
  BY <1>9, AppendIsConcat
<1>11. Expected' = FullReport'
  BY <1>1 DEF Expected
<1>12. Matches'
  BY <1>1, <1>6, <1>7, <1>8, <1>9, <1>10, <1>11, MatchesWrote DEF TypesKept
<1> QED
  BY <1>5, <1>12 DEF Good

(* No step brings a run to life again. *)
LEMMA LiveBefore ==
    ASSUME Running, Live'
    PROVE  Live /\ pc # "done"
<1>1. pc \notin {"done", "panic"}
  BY DEF Running, WritePreamble, EnterMark, IdOctet, EntryAction, TestCase,
         ResultOctet, LastOctet, ExitAction, ExitMark, WriteEndOfFile, Panic
<1>2. refused' = refused \/ refused' = TRUE
  BY DEF Running, WritePreamble, EnterMark, IdOctet, EntryAction, TestCase,
         ResultOctet, LastOctet, ExitAction, ExitMark, WriteEndOfFile, Panic,
         WrOctet, output
<1> QED
  BY <1>1, <1>2 DEF Live

LEMMA RunningFollowed ==
    ASSUME Followed, Started, TypesKept, Refusal, Running
    PROVE  Followed'
<1> SUFFICES ASSUME Live' PROVE Good'
  BY DEF Followed, Good
<1>1. Live
  BY LiveBefore
<1>2. Context
  BY <1>1 DEF Context, Followed
<1>3. ~Panic
  BY DEF Panic, Live
<1> QED
  BY <1>2, <1>3, WritePreambleFollowed, EnterMarkFollowed, IdOctetFollowed,
     EntryActionFollowed, TestCaseFollowed, ResultOctetFollowed,
     LastOctetFollowed, ExitActionFollowed, ExitMarkFollowed,
     WriteEndOfFileFollowed
  DEF Running

LEMMA StepFollowed ==
    ASSUME Followed, Started, TypesKept, Refusal, [Next]_vars
    PROVE  Followed'
<1>1. CASE UNCHANGED runner
  <2>1. UNCHANGED <<groups, selection, pc, group, i, id, resultBits, ret, written,
                    refused, log>>
    BY <1>1 DEF runner, program, results, output
  <2>2. Logged' = Logged
    BY <2>1 DEF Logged, InGroup, Complete, Ordered, UpTo, Selected, IsIn
  <2>3. Place' = Place
    BY <2>1 DEF Place, BitsSoFar, Tells, FailedAt, Latest, Cases, EverythingRun,
                Selected, IsIn
  <2>4. Expected' = Expected
    <3>1. \A k : GroupReport(log[k])' = GroupReport(log[k])
      BY <2>1 DEF GroupReport
    <3>2. Told' = Told
      BY <2>1 DEF Told, Heading, Latest, Octets, ResultOctets
    <3>3. FullReport' = FullReport
      BY <2>1, <3>1 DEF FullReport
    <3> QED
      BY <2>1, <3>1, <3>2, <3>3 DEF Expected, Reports
  <2>5. Matches' = Matches
    BY <2>1, <2>4 DEF Matches
  <2> QED
    BY <2>1, <2>2, <2>3, <2>5 DEF Followed, Live
<1>2. ASSUME NEW g \in Group, RTPrivTestRegisterGroup(g)
      PROVE  Followed'
  <2>1. pc = "off" /\ pc' \in {"off", "panic"}
        /\ UNCHANGED <<refused, log, written>>
    BY <1>2 DEF RTPrivTestRegisterGroup, output
  <2> SUFFICES ASSUME Live' PROVE Good'
    BY DEF Followed, Good
  <2>2. pc' = "off" /\ Live
    BY <2>1 DEF Live
  <2>3. Place /\ Matches
    BY <2>2 DEF Followed
  <2>4. Expected = <<>> /\ Expected' = <<>>
    BY <2>1, <2>2 DEF Expected
  <2>5. Matches'
    BY <2>1, <2>3, <2>4, MatchesSilent
  <2>6. Place' /\ Logged'
    BY <2>1, <2>2, <2>3 DEF Place, Logged, InGroup
  <2> QED
    BY <2>5, <2>6 DEF Good
<1>3. ASSUME NEW ids \in Selections, RTTestRun(ids)
      PROVE  Followed'
  <2>1. pc = "off" /\ pc' \in {"fourcc", "panic"} /\ i' = 0
        /\ UNCHANGED <<refused, log, written>>
    BY <1>3 DEF RTTestRun, output
  <2> SUFFICES ASSUME Live' PROVE Good'
    BY DEF Followed, Good
  <2>2. pc' = "fourcc" /\ Live
    BY <2>1 DEF Live
  <2>3. Place /\ Matches
    BY <2>2 DEF Followed
  <2>4. Expected = <<>> /\ Expected' = SubSeq(FourCC, 1, 0)
    BY <2>1, <2>2 DEF Expected
  <2>5. SubSeq(FourCC, 1, 0) = <<>>
    <3>1. FourCC \in Seq(Octet) /\ 0 \in 0..(Len(FourCC) - 1)
      BY RTTestAssumption
    <3> QED
      BY <3>1, PrefixNext
  <2>6. Matches'
    BY <2>1, <2>3, <2>4, <2>5, MatchesSilent
  <2>7. Place' /\ Logged'
    BY <2>1, <2>2, <2>3 DEF Place, Logged, InGroup
  <2> QED
    BY <2>6, <2>7 DEF Good
<1>4. CASE Running
  BY <1>4, RunningFollowed
<1> QED
  BY <1>1, <1>2, <1>3, <1>4
  DEF Next, vars, RunnerStep, ReaderStep, RunnerNext

LEMMA FollowedInvariant == Spec => []Followed
<1>1. Init => Followed
  <2> SUFFICES ASSUME RunnerInit PROVE Followed
    BY DEF Init
  <2>1. pc = "off" /\ log = <<>> /\ written = <<>>
    BY DEF RunnerInit
  <2>2. Expected = <<>> /\ <<>> \in Seq(Octet)
    BY <2>1, EmptySeq DEF Expected
  <2>3. Matches
    BY <2>1, <2>2 DEF Matches
  <2>4. Logged /\ Place
    BY <2>1 DEF Logged, InGroup, Place
  <2> QED
    BY <2>3, <2>4 DEF Followed
<1>2. Followed /\ Started /\ TypesKept /\ Refusal /\ [Next]_vars => Followed'
  BY StepFollowed
<1> QED
  BY <1>1, <1>2, StartedInvariant, TypesInvariant, RefusalInvariant, PTL DEF Spec

(* A run that returns no error has run every selected group to its last    *)
(* test case, in order, and the octets that wrOctet accepted from it are,  *)
(* one by one, what those groups are and what their cases did.             *)
THEOREM ReportIsWhatHappenedCorrect == Spec => []ReportIsWhatHappened
<1>1. Followed /\ Refusal => ReportIsWhatHappened
  <2> SUFFICES ASSUME Followed, Refusal, Finished PROVE
          /\ EverythingRun
          /\ written = FullReport
    BY DEF ReportIsWhatHappened
  <2>1. pc = "done" /\ Live
    BY DEF Finished, Refusal, Live
  <2>2. Place /\ Matches
    BY <2>1 DEF Followed
  <2>3. Expected = FullReport
    BY <2>1 DEF Expected
  <2> QED
    BY <2>1, <2>2, <2>3 DEF Place, Matches
<1> QED
  BY <1>1, FollowedInvariant, RefusalInvariant, PTL

(***************************************************************************)
(* The report by positions.  A group is read where its report begins, so   *)
(* what matters is which octet follows the groups before it.               *)
(***************************************************************************)

Starts(r, e) == Len(r) <= Len(e) /\ \A p \in 1..Len(r) : r[p] = e[p]

LEMMA PrefixStarts ==
    ASSUME NEW S, NEW r \in Seq(S), NEW e \in Seq(S), IsPrefix(r, e)
    PROVE  Starts(r, e)
<1>1. Len(r) \in Nat /\ Len(e) \in Nat
  BY LenProperties
<1>2. Len(r) <= Len(e) /\ SubSeq(r, 1, Len(r)) = SubSeq(e, 1, Len(r))
  BY DEF IsPrefix
<1>3. \A p \in 1..Len(r) : SubSeq(r, 1, Len(r))[p] = r[p]
  BY <1>1, SubSeqProperties
<1>4. \A p \in 1..Len(r) : SubSeq(e, 1, Len(r))[p] = e[p]
  BY <1>1, <1>2, SubSeqProperties
<1> QED
  BY <1>2, <1>3, <1>4 DEF Starts

LEMMA ConcatAt ==
    ASSUME NEW S, NEW a \in Seq(S), NEW b \in Seq(S), NEW c, c = a \o b
    PROVE  /\ c \in Seq(S) /\ Len(c) = Len(a) + Len(b)
           /\ Len(a) \in Nat /\ Len(b) \in Nat
           /\ \A p \in 1..Len(a) : c[p] = a[p]
           /\ \A p \in 1..Len(b) : c[Len(a) + p] = b[p]
<1>1. Len(a) \in Nat /\ Len(b) \in Nat
  BY LenProperties
<1>2. /\ c \in Seq(S) /\ Len(c) = Len(a) + Len(b)
      /\ \A p \in 1..(Len(a) + Len(b)) :
            c[p] = IF p <= Len(a) THEN a[p] ELSE b[p - Len(a)]
  BY ConcatProperties
<1>3. ASSUME NEW p \in 1..Len(b) PROVE c[Len(a) + p] = b[p]
  <2>1. Len(a) + p \in 1..(Len(a) + Len(b)) /\ ~(Len(a) + p <= Len(a))
        /\ (Len(a) + p) - Len(a) = p
    BY <1>1
  <2> QED
    BY <1>2, <2>1
<1> QED
  BY <1>1, <1>2, <1>3

(* The mark and the id of the k-th group of the log, its number of test    *)
(* cases and of octets of results.                                         *)
HeadingOf(k) == <<EnterGroup>> \o BigEndian(groups[log[k].group].id)
CasesOf(k) == Len(groups[log[k].group].cases)
Width(k) == (CasesOf(k) + OctetBits - 1) \div OctetBits

(* The report of the first n groups. *)
Body(n) == FourCC \o Reports(n)
Length(n) == Len(Body(n))

LEMMA EntryFacts ==
    ASSUME Started, Placed, NEW k \in 1..Len(log)
    PROVE  /\ log[k].group \in DOMAIN groups /\ log[k].verdicts \in Seq(Verdict)
           /\ Len(log[k].verdicts) \in Nat
           /\ groups[log[k].group].id \in GroupId
           /\ CasesOf(k) \in Nat \ {0}
<1>1. Len(log) \in Nat /\ DOMAIN log = 1..Len(log) /\ log[k] \in Entry
  BY LenProperties, ElementOfSeq DEF Started
<1>2. log[k].group \in DOMAIN groups
  BY <1>1 DEF Placed
<1>3. /\ groups[log[k].group].id \in GroupId
      /\ Len(groups[log[k].group].cases) \in Nat \ {0}
  BY <1>2, GroupFacts DEF Started
<1>4. log[k].verdicts \in Seq(Verdict)
  BY <1>1 DEF Entry
<1> QED
  BY <1>2, <1>3, <1>4, LenProperties DEF CasesOf

LEMMA HeadingOfType ==
    ASSUME Started, Placed, NEW k \in 1..Len(log)
    PROVE  /\ HeadingOf(k) \in Seq(Octet) /\ Len(HeadingOf(k)) = 5
           /\ HeadingOf(k)[1] = EnterGroup
           /\ \A j \in 1..4 :
                 HeadingOf(k)[j + 1] = BigEndian(groups[log[k].group].id)[j]
<1> DEFINE b == BigEndian(groups[log[k].group].id)
           e == <<EnterGroup>>
<1>1. b \in Seq(Octet) /\ Len(b) = 4
  BY EntryFacts, GroupIdNatural, BigEndianType
<1>2. e \in Seq(Octet) /\ Len(e) = 1 /\ e[1] = EnterGroup
  BY RTTestAssumption
<1> DEFINE h == HeadingOf(k)
<1>3. h = e \o b
  BY DEF HeadingOf
<1> HIDE DEF b, e, h
<1>4. /\ h \in Seq(Octet) /\ Len(h) = Len(e) + Len(b)
      /\ \A p \in 1..Len(e) : h[p] = e[p]
      /\ \A p \in 1..Len(b) : h[Len(e) + p] = b[p]
  <2>1. b \in Seq(Octet) /\ e \in Seq(Octet)
    BY <1>1, <1>2
  <2> QED
    BY <1>3, <2>1, ConcatAt
<1>5. ASSUME NEW j \in 1..4 PROVE h[j + 1] = b[j]
  <2>1. Len(e) + j = j + 1 /\ j \in 1..Len(b)
    BY <1>1, <1>2
  <2> QED
    BY <1>4, <2>1
<1> QED
  BY <1>1, <1>2, <1>4, <1>5 DEF b, h

LEMMA WidthOf ==
    ASSUME NEW n \in Nat
    PROVE  /\ (n + OctetBits - 1) \div OctetBits \in Nat
           /\ n > 0 => (n + OctetBits - 1) \div OctetBits > 0
           /\ \A m \in Nat : m * OctetBits <= n
                                => m <= (n + OctetBits - 1) \div OctetBits
           /\ \A m \in Nat : m * OctetBits < n
                                => m < (n + OctetBits - 1) \div OctetBits
           /\ \A m \in Nat : m * OctetBits >= n
                                => m >= (n + OctetBits - 1) \div OctetBits
<1> DEFINE q == (n + OctetBits - 1) \div OctetBits
           r == (n + OctetBits - 1) % OctetBits
<1>1. OctetBits \in Nat \ {0}
  BY OctetBitsType
<1>2. n + OctetBits - 1 \in Nat
  BY <1>1
<1>3. /\ q \in Nat /\ r \in 0..(OctetBits - 1)
      /\ n + OctetBits - 1 = OctetBits * q + r
  <2> DEFINE x == n + OctetBits - 1
  <2>1. x \in Nat /\ x \in Int
    BY <1>2
  <2> HIDE DEF x
  <2>2. /\ x \div OctetBits \in Nat /\ x % OctetBits \in 0..(OctetBits - 1)
        /\ x = OctetBits * (x \div OctetBits) + (x % OctetBits)
    BY <1>1, <2>1, Division
  <2> QED
    BY <2>2 DEF x
<1> HIDE DEF q, r
<1>4. OctetBits * q >= n /\ OctetBits * q <= n + OctetBits - 1
  BY <1>1, <1>3
<1>5. ASSUME NEW m \in Nat, m * OctetBits < n PROVE m < q
  <2>1. CASE m >= q
    <3>1. PICK d \in Nat : m = q + d
      BY <1>3, <2>1
    <3>2. m * OctetBits = OctetBits * q + d * OctetBits /\ d * OctetBits \in Nat
      BY <1>1, <1>3, <3>1
    <3> QED
      BY <1>1, <1>3, <1>4, <1>5, <3>2
  <2> QED
    BY <1>3, <2>1
<1>6. ASSUME NEW m \in Nat, m * OctetBits >= n PROVE m >= q
  <2>1. CASE m < q
    <3>1. PICK d \in Nat : q = m + 1 + d
      <4>1. q - m - 1 \in Nat /\ q = m + 1 + (q - m - 1)
        BY <1>3, <2>1
      <4> QED
        BY <4>1
    <3>2. OctetBits * q = m * OctetBits + OctetBits + d * OctetBits
          /\ d * OctetBits \in Nat /\ m * OctetBits \in Nat
      BY <1>1, <1>3, <3>1
    <3> QED
      BY <1>1, <1>3, <1>4, <1>6, <3>2
  <2> QED
    BY <1>3, <2>1
<1>7. ASSUME NEW m \in Nat, m * OctetBits <= n PROVE m <= q
  <2>1. CASE m * OctetBits < n
    BY <1>3, <1>5, <2>1
  <2>2. CASE m * OctetBits = n
    <3>1. CASE q < m
      <4>1. q * OctetBits < n
        <5>1. PICK d \in Nat : m = q + 1 + d
          <6>1. m - q - 1 \in Nat /\ m = q + 1 + (m - q - 1)
            BY <1>3, <3>1
          <6> QED
            BY <6>1
        <5>2. m * OctetBits = q * OctetBits + OctetBits + d * OctetBits
              /\ d * OctetBits \in Nat /\ q * OctetBits \in Nat
          BY <1>1, <1>3, <5>1
        <5> QED
          BY <1>1, <2>2, <5>2
      <4> QED
        BY <1>1, <1>3, <1>4, <4>1
    <3> QED
      BY <1>3, <3>1
  <2> QED
    BY <1>1, <1>7, <2>1, <2>2
<1>8. n > 0 => q > 0
  <2>1. 0 * OctetBits = 0
    BY <1>1
  <2> QED
    BY <1>5, <2>1
<1> QED
  BY <1>3, <1>5, <1>6, <1>7, <1>8 DEF q

LEMMA GroupReportAt ==
    ASSUME Started, Placed, NEW k \in 1..Len(log),
           Len(log[k].verdicts) = CasesOf(k)
    PROVE  LET g == GroupReport(log[k])
           IN  /\ g \in Seq(Octet) /\ Len(g) = 6 + Width(k) /\ Width(k) \in Nat \ {0}
               /\ \A p \in 1..5 : g[p] = HeadingOf(k)[p]
               /\ \A m \in 1..Width(k) :
                     g[5 + m] = OctetOf(log[k].verdicts, (m - 1) * OctetBits + 1)
               /\ g[6 + Width(k)] = ExitGroup
<1> DEFINE list == log[k].verdicts
           w == Width(k)
           h == HeadingOf(k)
           o == Octets(list, w)
           x == <<ExitGroup>>
<1>1. w \in Nat \ {0}
  <2>1. CasesOf(k) \in Nat /\ CasesOf(k) > 0
    BY EntryFacts
  <2>2. Width(k) \in Nat /\ Width(k) > 0
    BY <2>1, WidthOf DEF Width
  <2> QED
    BY <2>2
<1>2. h \in Seq(Octet) /\ Len(h) = 5
  BY HeadingOfType
<1>3. ResultOctets(list) = o
  BY ResultOctetsIs DEF Width
<1>4. o \in Seq(Octet) /\ Len(o) = w
      /\ \A m \in 1..w : o[m] = OctetOf(list, (m - 1) * OctetBits + 1)
  <2>1. o \in Seq(Octet)
    BY <1>1, OctetsType
  <2>2. o = [m \in 1..w |-> OctetOf(list, (m - 1) * OctetBits + 1)]
    BY DEF Octets
  <2> HIDE DEF o, w
  <2>3. DOMAIN o = 1..w
    BY <2>2
  <2>4. DOMAIN o = 1..Len(o) /\ Len(o) \in Nat
    BY <2>1, LenProperties
  <2>5. Len(o) = w
    BY <1>1, <2>3, <2>4
  <2> QED
    BY <2>1, <2>2, <2>5
<1>5. x \in Seq(Octet) /\ Len(x) = 1 /\ x[1] = ExitGroup
  BY RTTestAssumption
<1> DEFINE ho == h \o o
           g == GroupReport(log[k])
<1>6. g = ho \o x
  BY <1>3 DEF GroupReport, HeadingOf
<1>7. ho = h \o o
  OBVIOUS
<1> HIDE DEF list, w, h, o, x, ho, g
<1>8. /\ ho \in Seq(Octet) /\ Len(ho) = Len(h) + Len(o)
      /\ \A p \in 1..Len(h) : ho[p] = h[p]
      /\ \A p \in 1..Len(o) : ho[Len(h) + p] = o[p]
  <2>1. h \in Seq(Octet) /\ o \in Seq(Octet)
    BY <1>2, <1>4
  <2> QED
    BY <1>7, <2>1, ConcatAt
<1>9. /\ g \in Seq(Octet) /\ Len(g) = Len(ho) + Len(x)
      /\ \A p \in 1..Len(ho) : g[p] = ho[p]
      /\ \A p \in 1..Len(x) : g[Len(ho) + p] = x[p]
  <2>1. ho \in Seq(Octet) /\ x \in Seq(Octet)
    BY <1>5, <1>8
  <2> QED
    BY <1>6, <2>1, ConcatAt
<1>10. Len(g) = 6 + w /\ g[6 + w] = ExitGroup
  <2>1. Len(ho) + 1 = 6 + w
    BY <1>1, <1>2, <1>4, <1>8
  <2> QED
    BY <1>5, <1>9, <2>1
<1>11. ASSUME NEW p \in 1..5 PROVE g[p] = h[p]
  <2>1. p \in 1..Len(h) /\ p \in 1..Len(ho)
    BY <1>1, <1>2, <1>4, <1>8
  <2> QED
    BY <1>8, <1>9, <2>1
<1>12. ASSUME NEW m \in 1..w PROVE g[5 + m] = OctetOf(list, (m - 1) * OctetBits + 1)
  <2>1. 5 + m \in 1..Len(ho) /\ Len(h) + m = 5 + m
    BY <1>1, <1>2, <1>4, <1>8
  <2> QED
    BY <1>4, <1>8, <1>9, <2>1
<1> QED
  BY <1>1, <1>9, <1>10, <1>11, <1>12 DEF g, list, w, h

(***************************************************************************)
(* What follows the report of the first groups.                            *)
(***************************************************************************)

LEMMA BodyType ==
    ASSUME Started, Placed, NEW n \in 0..Len(log)
    PROVE  Body(n) \in Seq(Octet) /\ Length(n) \in Nat
<1> DEFINE r == Reports(n)
<1>1. r \in Seq(Octet) /\ FourCC \in Seq(Octet)
  BY ReportsType, RTTestAssumption
<1> HIDE DEF r
<1>2. FourCC \o r \in Seq(Octet)
  BY <1>1, ConcatProperties
<1> QED
  BY <1>2, LenProperties DEF Body, Length, r

LEMMA BodyNext ==
    ASSUME Started, Placed, NEW n \in 0..(Len(log) - 1)
    PROVE  /\ GroupReport(log[n + 1]) \in Seq(Octet)
           /\ Body(n + 1) = Body(n) \o GroupReport(log[n + 1])
<1> DEFINE r == Reports(n)
           g == GroupReport(log[n + 1])
           f == FourCC
<1>1. f \in Seq(Octet) /\ r \in Seq(Octet) /\ Reports(n + 1) = r \o g
  BY ReportsNext, RTTestAssumption
<1>2. g \in Seq(Octet)
  <2>1. n + 1 \in DOMAIN log
    BY LenProperties DEF Started
  <2> QED
    BY <2>1, GroupReportType DEF Placed
<1> HIDE DEF r, g, f
<1>3. (f \o r) \o g = f \o (r \o g)
  BY <1>1, <1>2, ConcatAssociative
<1> QED
  BY <1>1, <1>2, <1>3 DEF Body, r, g, f

LEMMA BodyStarts ==
    ASSUME Started, Placed, NEW g \in 0..Len(log), NEW h \in g..Len(log)
    PROVE  Starts(Body(g), Body(h))
<1> DEFINE N == Len(log)
           T == {n \in Nat : g + n <= N => Starts(Body(g), Body(g + n))}
<1>1. N \in Nat
  BY LenProperties DEF Started
<1> HIDE DEF N
<1>2. 0 \in T
  <2>1. g + 0 = g
    BY <1>1
  <2> QED
    BY <1>1, <2>1, BodyType DEF Starts, Length, N
<1>3. ASSUME NEW n \in Nat, n \in T PROVE n + 1 \in T
  <2> SUFFICES ASSUME g + (n + 1) <= N PROVE Starts(Body(g), Body(g + (n + 1)))
    OBVIOUS
  <2> DEFINE a == Body(g + n)
             b == GroupReport(log[g + n + 1])
             c == Body(g + (n + 1))
             d == Body(g)
  <2>1. g + n \in 0..(N - 1) /\ g + (n + 1) = (g + n) + 1 /\ g + n \in 0..N
    BY <1>1
  <2>2. b \in Seq(Octet) /\ c = a \o b
    BY <2>1, BodyNext DEF N
  <2>3. a \in Seq(Octet) /\ d \in Seq(Octet)
    BY <2>1, BodyType DEF N
  <2>4. Starts(d, a)
    BY <1>1, <1>3, <2>1
  <2> HIDE DEF a, b, c, d
  <2>5. /\ Len(c) = Len(a) + Len(b) /\ Len(a) \in Nat /\ Len(b) \in Nat
        /\ \A p \in 1..Len(a) : c[p] = a[p]
    BY <2>2, <2>3, ConcatAt
  <2>6. Len(d) \in Nat
    BY <2>3, LenProperties
  <2>7. Starts(d, c)
    BY <2>4, <2>5, <2>6 DEF Starts
  <2> QED
    BY <2>7 DEF c, d
<1> HIDE DEF T
<1>4. \A n \in Nat : n \in T
  BY <1>2, <1>3, NatSetInduction
<1>5. h - g \in Nat /\ g + (h - g) = h /\ h <= N
  BY <1>1 DEF N
<1> QED
  BY <1>4, <1>5 DEF T

LEMMA LengthNext ==
    ASSUME Started, Placed, NEW g \in 0..(Len(log) - 1),
           Len(log[g + 1].verdicts) = CasesOf(g + 1)
    PROVE  /\ Length(g + 1) = Length(g) + 6 + Width(g + 1)
           /\ \A p \in 1..(6 + Width(g + 1)) :
                 Body(g + 1)[Length(g) + p] = GroupReport(log[g + 1])[p]
<1> DEFINE a == Body(g)
           b == GroupReport(log[g + 1])
           c == Body(g + 1)
           w == Width(g + 1)
<1>1. g + 1 \in 1..Len(log) /\ g \in 0..Len(log)
  BY LenProperties DEF Started
<1>2. b \in Seq(Octet) /\ c = a \o b
  BY BodyNext
<1>3. a \in Seq(Octet)
  BY <1>1, BodyType
<1>4. Len(b) = 6 + w /\ w \in Nat
  BY <1>1, GroupReportAt
<1> HIDE DEF a, b, c, w
<1>5. /\ Len(c) = Len(a) + Len(b) /\ Len(a) \in Nat /\ Len(b) \in Nat
      /\ \A p \in 1..Len(b) : c[Len(a) + p] = b[p]
  BY <1>2, <1>3, ConcatAt
<1>6. Len(c) = Len(a) + 6 + w
      /\ \A p \in 1..(6 + w) : c[Len(a) + p] = b[p]
  BY <1>4, <1>5
<1> QED
  BY <1>6 DEF Length, a, b, c, w

Has(p, x) == p <= Len(written) => written[p] = x

(* Group g + 1 follows: as much of it as is written is its mark, its id,   *)
(* its results, as far as its cases have run, and the mark of its end.     *)
GoesOn(g) ==
    LET b == Length(g)
        k == g + 1
        list == log[k].verdicts
    IN  /\ g < Len(log)
        /\ \A p \in 1..5 : Has(b + p, HeadingOf(k)[p])
        /\ \A m \in 1..Width(k) :
              b + 5 + m <= Len(written) =>
                 /\ written[b + 5 + m] = OctetOf(list, (m - 1) * OctetBits + 1)
                 /\ m * OctetBits <= Len(list) \/ Len(list) = CasesOf(k)
        /\ b + 6 + Width(k) <= Len(written) =>
              /\ written[b + 6 + Width(k)] = ExitGroup
              /\ Len(list) = CasesOf(k)

LEMMA CompleteGoesOn ==
    ASSUME Started, Placed, written \in Seq(Octet),
           NEW h \in 0..Len(log), Complete(h), NEW t \in Seq(Octet),
           Starts(written, Body(h) \o t), NEW g \in 0..(h - 1)
    PROVE  GoesOn(g)
<1> DEFINE k == g + 1
           b == Length(g)
           w == Width(k)
           r == GroupReport(log[k])
           list == log[k].verdicts
           a == Body(h)
           e == a \o t
<1>1. /\ Len(log) \in Nat /\ h \in Nat /\ k \in 1..Len(log) /\ g \in 0..(Len(log) - 1)
      /\ h \in k..Len(log) /\ k \in 0..Len(log) /\ k \in 1..h /\ g < Len(log)
      /\ g \in 0..Len(log)
  BY LenProperties DEF Started
<1>2. Len(list) = CasesOf(k)
  BY <1>1 DEF Complete, CasesOf
<1>3. /\ \A p \in 1..5 : r[p] = HeadingOf(k)[p]
      /\ \A m \in 1..w : r[5 + m] = OctetOf(list, (m - 1) * OctetBits + 1)
      /\ r[6 + w] = ExitGroup /\ w \in Nat
  BY <1>1, <1>2, GroupReportAt
<1>4. Length(k) = b + 6 + w /\ \A p \in 1..(6 + w) : Body(k)[b + p] = r[p]
  BY <1>1, <1>2, LengthNext
<1>5. Starts(Body(k), a)
  BY <1>1, BodyStarts
<1>6. a \in Seq(Octet) /\ b \in Nat
  BY <1>1, BodyType
<1>7. e = a \o t
  OBVIOUS
<1>8. Starts(written, e)
  OBVIOUS
<1> HIDE DEF a, e
<1>9. Len(e) = Len(a) + Len(t) /\ Len(a) \in Nat /\ Len(t) \in Nat
      /\ \A p \in 1..Len(a) : e[p] = a[p]
  BY <1>6, <1>7, ConcatAt
<1>10. Len(written) \in Nat
  BY LenProperties
<1> HIDE DEF k, b, w, r, list
<1>11. ASSUME NEW p \in 1..(6 + w), b + p <= Len(written)
       PROVE  written[b + p] = r[p]
  <2>1. b + p \in 1..Len(Body(k)) /\ Len(Body(k)) <= Len(a)
    BY <1>3, <1>4, <1>5, <1>6 DEF Length, Starts
  <2>2. written[b + p] = e[b + p] /\ e[b + p] = a[b + p] /\ Body(k)[b + p] = a[b + p]
    BY <1>5, <1>6, <1>8, <1>9, <1>10, <1>11, <2>1 DEF Starts
  <2> QED
    BY <1>4, <2>2
<1>12. ASSUME NEW p \in 1..5 PROVE Has(b + p, HeadingOf(k)[p])
  <2>1. p \in 1..(6 + w)
    BY <1>3
  <2> QED
    BY <1>3, <1>11, <2>1 DEF Has
<1>13. ASSUME NEW m \in 1..w, b + 5 + m <= Len(written)
       PROVE  written[b + 5 + m] = OctetOf(list, (m - 1) * OctetBits + 1)
  <2>1. 5 + m \in 1..(6 + w) /\ b + (5 + m) = b + 5 + m
    BY <1>3, <1>6
  <2>2. written[b + (5 + m)] = r[5 + m]
    BY <1>11, <1>13, <2>1
  <2> QED
    BY <1>3, <2>1, <2>2
<1>14. ASSUME b + 6 + w <= Len(written) PROVE written[b + 6 + w] = ExitGroup
  <2>1. 6 + w \in 1..(6 + w) /\ b + (6 + w) = b + 6 + w
    <3>1. w \in Nat /\ b \in Nat
      BY <1>3, <1>6
    <3> QED
      BY <3>1
  <2>2. written[b + (6 + w)] = r[6 + w]
    BY <1>11, <1>14, <2>1
  <2> QED
    BY <1>3, <2>1, <2>2
<1> QED
  BY <1>1, <1>2, <1>12, <1>13, <1>14 DEF GoesOn, k, b, w, list

LEMMA PartGoesOn ==
    ASSUME Started, Placed, written \in Seq(Octet),
           NEW g \in 0..(Len(log) - 1), NEW m \in 0..Width(g + 1),
           \/ m * OctetBits <= Len(log[g + 1].verdicts)
           \/ Len(log[g + 1].verdicts) = CasesOf(g + 1),
           Starts(written, Body(g) \o (HeadingOf(g + 1) \o Octets(log[g + 1].verdicts, m)))
    PROVE  GoesOn(g) /\ Len(written) <= Length(g) + 5 + m
<1> DEFINE k == g + 1
           b == Length(g)
           w == Width(k)
           list == log[k].verdicts
           h == HeadingOf(k)
           o == Octets(list, m)
           a == Body(g)
           ho == h \o o
           e == a \o ho
<1>1. /\ Len(log) \in Nat /\ k \in 1..Len(log) /\ g \in 0..Len(log) /\ g < Len(log)
  BY LenProperties DEF Started
<1>2. a \in Seq(Octet) /\ b \in Nat
  BY <1>1, BodyType
<1>3. h \in Seq(Octet) /\ Len(h) = 5
  BY <1>1, HeadingOfType
<1>4. w \in Nat /\ Len(list) \in Nat /\ CasesOf(k) \in Nat
  <2>1. CasesOf(k) \in Nat /\ Len(list) \in Nat
    BY <1>1, EntryFacts
  <2> QED
    BY <2>1, WidthOf DEF Width
<1>5. m \in Nat
  BY <1>4
<1>6. o \in Seq(Octet) /\ Len(o) = m
      /\ \A n \in 1..m : o[n] = OctetOf(list, (n - 1) * OctetBits + 1)
  <2>1. o \in Seq(Octet)
    BY <1>5, OctetsType
  <2>2. o = [n \in 1..m |-> OctetOf(list, (n - 1) * OctetBits + 1)]
    BY DEF Octets
  <2> HIDE DEF o
  <2>3. DOMAIN o = 1..m
    BY <2>2
  <2>4. DOMAIN o = 1..Len(o) /\ Len(o) \in Nat
    BY <2>1, LenProperties
  <2>5. Len(o) = m
    BY <1>5, <2>3, <2>4
  <2> QED
    BY <2>1, <2>2, <2>5
<1>7. ho = h \o o /\ e = a \o ho
  OBVIOUS
<1>8. Starts(written, e)
  OBVIOUS
<1> HIDE DEF h, o, a, ho, e
<1>9. /\ ho \in Seq(Octet) /\ Len(ho) = Len(h) + Len(o)
      /\ \A p \in 1..Len(h) : ho[p] = h[p]
      /\ \A p \in 1..Len(o) : ho[Len(h) + p] = o[p]
  <2>1. h \in Seq(Octet) /\ o \in Seq(Octet)
    BY <1>3, <1>6
  <2> QED
    BY <1>7, <2>1, ConcatAt
<1>10. /\ Len(e) = Len(a) + Len(ho)
       /\ \A p \in 1..Len(ho) : e[Len(a) + p] = ho[p]
  <2>1. ho \in Seq(Octet)
    BY <1>9
  <2> QED
    BY <1>2, <1>7, <2>1, ConcatAt
<1>11. Len(a) = b
  BY DEF a, b, Length
<1> HIDE DEF k, b, w, list
<1>12. Len(written) \in Nat /\ Len(written) <= b + 5 + m
  BY <1>2, <1>3, <1>5, <1>6, <1>8, <1>9, <1>10, <1>11, LenProperties DEF Starts
<1>13. ASSUME NEW p \in 1..(5 + m), b + p <= Len(written)
       PROVE  written[b + p] = ho[p]
  <2>1. b + p \in 1..Len(written) /\ p \in 1..Len(ho)
    BY <1>2, <1>3, <1>5, <1>6, <1>9, <1>12, <1>13
  <2> QED
    BY <1>8, <1>10, <1>11, <2>1 DEF Starts
<1>14. ASSUME NEW p \in 1..5 PROVE Has(b + p, h[p])
  <2>1. p \in 1..(5 + m) /\ p \in 1..Len(h)
    BY <1>3, <1>5
  <2> QED
    BY <1>9, <1>13, <2>1 DEF Has
<1>15. ASSUME NEW n \in 1..w, b + 5 + n <= Len(written)
       PROVE  /\ written[b + 5 + n] = OctetOf(list, (n - 1) * OctetBits + 1)
              /\ n * OctetBits <= Len(list) \/ Len(list) = CasesOf(k)
  <2>1. n \in 1..m /\ 5 + n \in 1..(5 + m) /\ b + (5 + n) = b + 5 + n
    BY <1>2, <1>4, <1>5, <1>12, <1>15
  <2>2. written[b + (5 + n)] = ho[5 + n]
    BY <1>13, <1>15, <2>1
  <2>3. ho[Len(h) + n] = o[n] /\ Len(h) + n = 5 + n
    BY <1>3, <1>6, <1>9, <2>1
  <2>4. n * OctetBits <= m * OctetBits
    BY <2>1, <1>5, OctetBitsType
  <2>5. m * OctetBits <= Len(list) => n * OctetBits <= Len(list)
    <3>1. n * OctetBits \in Nat /\ m * OctetBits \in Nat
      BY <2>1, <1>5, OctetBitsType
    <3> QED
      BY <1>4, <2>4, <3>1
  <2> QED
    BY <1>6, <2>1, <2>2, <2>3, <2>5 DEF k, list
<1>16. ~(b + 6 + w <= Len(written))
  BY <1>2, <1>4, <1>5, <1>12 DEF k, w
<1> QED
  BY <1>1, <1>12, <1>14, <1>15, <1>16 DEF GoesOn, k, b, w, list, h

(* The run did all it was asked to, and its report was written.            *)
Whole == Finished /\ EverythingRun

(* All groups of the log are in the report: the mark of the end follows,   *)
(* or nothing yet.                                                         *)
Ends(g) ==
    /\ g = Len(log)
    /\ Length(g) < Len(written) =>
          /\ Len(written) = Length(g) + 1 /\ written[Len(written)] = EndOfFile
          /\ Whole

(* The mark of the group was refused: its id follows, or part of it.       *)
Torn(g) ==
    /\ refused /\ g + 1 = Len(log)
    /\ Len(written) <= Length(g) + 4
    /\ Has(Length(g) + 1, HeadingOf(g + 1)[2])

Follows(g) == GoesOn(g) \/ Ends(g) \/ Torn(g)

LogSelected == \A k \in DOMAIN log : log[k].group \in Selected

Preamble == \A p \in 1..4 : Has(p, FourCC[p])

(* The report has what a reader expects to follow, wherever it stands.     *)
Laid ==
    /\ LogSelected /\ Preamble
    /\ \A g \in 0..Len(log) : Complete(g) => Follows(g)

LEMMA StartsConcat ==
    ASSUME NEW S, NEW a \in Seq(S), NEW b \in Seq(S), NEW c \in Seq(S), Starts(b, c)
    PROVE  Starts(a \o b, a \o c)
<1> DEFINE d == a \o b
           e == a \o c
<1>1. d = a \o b /\ e = a \o c
  OBVIOUS
<1> HIDE DEF d, e
<1>2. /\ d \in Seq(S) /\ Len(d) = Len(a) + Len(b) /\ Len(a) \in Nat /\ Len(b) \in Nat
      /\ \A p \in 1..Len(a) : d[p] = a[p]
      /\ \A p \in 1..Len(b) : d[Len(a) + p] = b[p]
  BY <1>1, ConcatAt
<1>3. /\ e \in Seq(S) /\ Len(e) = Len(a) + Len(c) /\ Len(c) \in Nat
      /\ \A p \in 1..Len(a) : e[p] = a[p]
      /\ \A p \in 1..Len(c) : e[Len(a) + p] = c[p]
  BY <1>1, ConcatAt
<1>4. ASSUME NEW p \in 1..Len(d) PROVE d[p] = e[p]
  <2>1. CASE p <= Len(a)
    BY <1>2, <1>3, <2>1
  <2>2. CASE p > Len(a)
    <3>1. p - Len(a) \in 1..Len(b) /\ p - Len(a) \in 1..Len(c) /\ p = Len(a) + (p - Len(a))
      BY <1>2, <1>3, <2>2 DEF Starts
    <3>2. b[p - Len(a)] = c[p - Len(a)]
      BY <3>1 DEF Starts
    <3> QED
      BY <1>2, <1>3, <3>1, <3>2
  <2> QED
    BY <1>2, <2>1, <2>2
<1>5. Len(d) <= Len(e)
  BY <1>2, <1>3 DEF Starts
<1>6. Starts(d, e)
  BY <1>4, <1>5 DEF Starts
<1> QED
  BY <1>6 DEF d, e

LEMMA StartsTransitive ==
    ASSUME NEW S, NEW a \in Seq(S), NEW b \in Seq(S), NEW c \in Seq(S),
           Starts(a, b), Starts(b, c)
    PROVE  Starts(a, c)
<1>1. Len(a) \in Nat /\ Len(b) \in Nat /\ Len(c) \in Nat
  BY LenProperties
<1> QED
  BY <1>1 DEF Starts

LEMMA MatchesStarts ==
    ASSUME Matches, written \in Seq(Octet)
    PROVE  Expected \in Seq(Octet) /\ Starts(written, Expected)
<1>1. Len(written) \in Nat
  BY LenProperties
<1> QED
  BY <1>1 DEF Matches, Starts

LEMMA PreambleFirst ==
    ASSUME Started, Placed, written \in Seq(Octet),
           NEW h \in 0..Len(log), NEW t \in Seq(Octet), Starts(written, Body(h) \o t)
    PROVE  Preamble
<1> DEFINE r == Reports(h)
           b == Body(h)
           e == b \o t
<1>1. FourCC \in Seq(Octet) /\ r \in Seq(Octet)
  BY ReportsType, RTTestAssumption
<1>2. b = FourCC \o r /\ e = b \o t /\ Starts(written, e)
  BY DEF Body
<1> HIDE DEF r, b, e
<1>3. /\ b \in Seq(Octet) /\ Len(b) = Len(FourCC) + Len(r) /\ Len(r) \in Nat
      /\ \A p \in 1..Len(FourCC) : b[p] = FourCC[p]
  BY <1>1, <1>2, ConcatAt
<1>4. \A p \in 1..Len(b) : e[p] = b[p]
  <2>1. b \in Seq(Octet)
    BY <1>3
  <2> QED
    BY <1>2, <2>1, ConcatAt
<1>5. Len(FourCC) = 4 /\ Len(written) \in Nat
  BY RTTestAssumption, LenProperties
<1>6. ASSUME NEW p \in 1..4, p <= Len(written) PROVE written[p] = FourCC[p]
  <2>1. p \in 1..Len(written) /\ p \in 1..Len(FourCC) /\ p \in 1..Len(b)
    BY <1>3, <1>5, <1>6
  <2>2. written[p] = e[p]
    BY <1>2, <2>1 DEF Starts
  <2> QED
    BY <1>3, <1>4, <2>1, <2>2
<1> QED
  BY <1>6 DEF Preamble, Has

LEMMA UpToSelected ==
    ASSUME NEW n, UpTo(n)
    PROVE  LogSelected
BY DEF UpTo, LogSelected

LEMMA SelectedPlaced ==
    ASSUME LogSelected
    PROVE  Placed
BY DEF LogSelected, Placed, Selected

LEMMA StartsLonger ==
    ASSUME NEW S, NEW a \in Seq(S), NEW b \in Seq(S)
    PROVE  a \o b \in Seq(S) /\ Starts(a, a \o b)
<1> DEFINE c == a \o b
<1>1. c = a \o b
  OBVIOUS
<1> HIDE DEF c
<1>2. /\ c \in Seq(S) /\ Len(c) = Len(a) + Len(b) /\ Len(a) \in Nat /\ Len(b) \in Nat
      /\ \A p \in 1..Len(a) : c[p] = a[p]
  BY <1>1, ConcatAt
<1> QED
  BY <1>2 DEF Starts, c

LEMMA StartsSub ==
    ASSUME NEW S, NEW a \in Seq(S), NEW n \in 0..Len(a)
    PROVE  /\ SubSeq(a, 1, n) \in Seq(S) /\ Len(SubSeq(a, 1, n)) = n
           /\ Starts(SubSeq(a, 1, n), a)
<1>1. Len(a) \in Nat
  BY LenProperties
<1>2. /\ SubSeq(a, 1, n) \in Seq(S) /\ Len(SubSeq(a, 1, n)) = n
      /\ \A p \in 1..n : SubSeq(a, 1, n)[p] = a[p]
  <2>1. n \in Nat /\ 1 \in 1..(n + 1) /\ \A p \in 1..n : a[p] \in S
    BY <1>1, ElementOfSeq
  <2>2. CASE n = 0
    BY <1>1, <2>2, SubSeqProperties
  <2>3. CASE n # 0
    BY <1>1, <2>1, <2>3, SubSeqProperties
  <2> QED
    BY <2>2, <2>3
<1> QED
  BY <1>1, <1>2 DEF Starts

LEMMA StartsNone ==
    ASSUME NEW S, NEW a \in Seq(S)
    PROVE  Starts(<<>>, a)
<1>1. Len(a) \in Nat /\ Len(<<>>) = 0
  BY LenProperties
<1> QED
  BY <1>1 DEF Starts

(* Nothing has ended the run yet, and what has been told of the group      *)
(* under way is a beginning of its report.                                 *)
LEMMA ToldStarts ==
    ASSUME Logged, Place, Started, TypesKept, InGroup
    PROVE  /\ Heading = HeadingOf(Len(log))
           /\ \E m \in 0..Width(Len(log)) :
                 /\ m * OctetBits <= Len(Latest) \/ Len(Latest) = CasesOf(Len(log))
                 /\ Told \in Seq(Octet)
                 /\ Starts(Told, Heading \o Octets(Latest, m))
<1> DEFINE n == Len(log)
           h == Heading
           w == Width(n)
           cs == Len(Cases)
           Good2(m) == /\ m \in 0..w
                       /\ m * OctetBits <= Len(Latest) \/ Len(Latest) = cs
                       /\ Told \in Seq(Octet)
                       /\ Starts(Told, h \o Octets(Latest, m))
<1>1. /\ n \in Nat \ {0} /\ log[n].group = group /\ group \in DOMAIN groups
      /\ groups \in Seq(Group) /\ Placed /\ Len(Latest) \in Nat /\ n \in 1..Len(log)
  BY GroupContext
<1>2. h = HeadingOf(n)
  BY <1>1 DEF HeadingOf, Heading
<1>3. h \in Seq(Octet) /\ Len(h) = 5
  BY <1>1, HeadingType
<1>4. cs = CasesOf(n) /\ cs \in Nat \ {0} /\ w = (cs + OctetBits - 1) \div OctetBits
  BY <1>1, EntryFacts DEF CasesOf, Cases, Width
<1>5. /\ w \in Nat
      /\ \A m \in Nat : m * OctetBits <= cs => m <= w
  <2>1. cs \in Nat
    BY <1>4
  <2> HIDE DEF cs, w
  <2>2. /\ (cs + OctetBits - 1) \div OctetBits \in Nat
        /\ \A m \in Nat : m * OctetBits <= cs
                             => m <= (cs + OctetBits - 1) \div OctetBits
    BY <2>1, WidthOf
  <2> QED
    BY <1>4, <2>2
<1>6. 0 * OctetBits = 0 /\ 0 \in 0..w
  BY <1>5, OctetBitsType
<1>7. CASE pc = "mark"
  <2>1. Told = <<>> /\ <<>> \in Seq(Octet)
    BY <1>7 DEF Told
  <2>2. Octets(Latest, 0) \in Seq(Octet)
    BY OctetsType
  <2>3. h \o Octets(Latest, 0) \in Seq(Octet)
    BY <1>3, <2>2, ConcatProperties
  <2>4. Starts(<<>>, h \o Octets(Latest, 0))
    BY <2>3, StartsNone
  <2>5. Good2(0)
    BY <1>1, <1>6, <2>1, <2>4
  <2> QED
    BY <1>2, <1>4, <2>5
<1>8. CASE pc = "id"
  <2>1. Told = SubSeq(h, 1, i + 1) /\ i + 1 \in 0..Len(h)
    BY <1>3, <1>8 DEF Told, TypesKept
  <2>2. SubSeq(h, 1, i + 1) \in Seq(Octet) /\ Starts(SubSeq(h, 1, i + 1), h)
    BY <1>3, <2>1, StartsSub
  <2>3. Octets(Latest, 0) \in Seq(Octet)
    BY OctetsType
  <2>4. h \o Octets(Latest, 0) \in Seq(Octet) /\ Starts(h, h \o Octets(Latest, 0))
    BY <1>3, <2>3, StartsLonger
  <2>5. Starts(Told, h \o Octets(Latest, 0))
    BY <1>3, <2>1, <2>2, <2>4, StartsTransitive
  <2>6. Good2(0)
    BY <1>1, <1>6, <2>1, <2>2, <2>5
  <2> QED
    BY <1>2, <1>4, <2>6
<1>9. CASE pc = "entry"
  <2>1. Told = h
    BY <1>9 DEF Told
  <2>2. Octets(Latest, 0) \in Seq(Octet)
    BY OctetsType
  <2>3. h \o Octets(Latest, 0) \in Seq(Octet) /\ Starts(h, h \o Octets(Latest, 0))
    BY <1>3, <2>2, StartsLonger
  <2>4. Good2(0)
    BY <1>1, <1>3, <1>6, <2>1, <2>3
  <2> QED
    BY <1>2, <1>4, <2>4
<1>10. CASE pc \in {"case", "octet", "last"}
  <2> DEFINE m == i \div OctetBits
  <2>1. m \in Nat /\ m * OctetBits <= i /\ i \in Nat
    <3>1. i \in Nat
      BY DEF TypesKept
    <3>2. m \in Nat /\ i % OctetBits \in 0..(OctetBits - 1)
          /\ i = OctetBits * m + (i % OctetBits)
      BY <3>1, OctetCount
    <3> HIDE DEF m
    <3> QED
      BY <3>1, <3>2, OctetBitsType
  <2>2. i <= Len(Latest) /\ i <= cs
    BY <1>1, <1>4, <1>10, <2>1 DEF Place
  <2>3. Told = h \o Octets(Latest, m)
    BY <1>10 DEF Told
  <2>4. Octets(Latest, m) \in Seq(Octet)
    BY <2>1, OctetsType
  <2> HIDE DEF m, cs
  <2>5. m * OctetBits \in Nat
    BY <2>1, OctetBitsType
  <2>6. m * OctetBits <= Len(Latest) /\ m * OctetBits <= cs
    BY <1>1, <1>4, <2>1, <2>2, <2>5
  <2>7. m \in 0..w
    BY <1>5, <2>1, <2>6
  <2>8. h \o Octets(Latest, m) \in Seq(Octet)
    BY <1>3, <2>4, ConcatProperties
  <2>9. Starts(h \o Octets(Latest, m), h \o Octets(Latest, m))
    BY <2>8, LenProperties DEF Starts
  <2>10. Good2(m)
    BY <2>3, <2>6, <2>7, <2>8, <2>9
  <2> QED
    BY <1>2, <1>4, <2>10
<1>11. CASE pc \in {"exit", "endmark"}
  <2>1. Told = h \o ResultOctets(Latest) /\ Len(Latest) = cs
    BY <1>11 DEF Told, Place
  <2>2. ResultOctets(Latest) = Octets(Latest, w)
    BY <1>4, <2>1, ResultOctetsIs
  <2>3. Octets(Latest, w) \in Seq(Octet)
    BY <1>5, OctetsType
  <2> HIDE DEF w
  <2>4. h \o Octets(Latest, w) \in Seq(Octet)
    BY <1>3, <2>3, ConcatProperties
  <2>5. Starts(h \o Octets(Latest, w), h \o Octets(Latest, w))
    BY <2>4, LenProperties DEF Starts
  <2>6. Good2(w)
    BY <1>5, <2>1, <2>2, <2>4, <2>5
  <2> QED
    BY <1>2, <1>4, <2>6 DEF w
<1> QED
  BY <1>7, <1>8, <1>9, <1>10, <1>11 DEF InGroup

LEMMA LogComplete ==
    ASSUME EverythingRun
    PROVE  LogSelected /\ Complete(Len(log))
<1>1. LogSelected
  <2>1. ASSUME NEW k \in DOMAIN log PROVE log[k].group \in Selected
    <3>1. log[k].group \in ToSet([j \in DOMAIN log |-> log[j].group])
      BY DEF ToSet
    <3> QED
      BY <3>1 DEF EverythingRun
  <2> QED
    BY <2>1 DEF LogSelected
<1>2. Complete(Len(log))
  <2>1. \A k \in DOMAIN log :
           Len(log[k].verdicts) = Len(groups[log[k].group].cases)
    BY DEF EverythingRun
  <2> QED
    BY <2>1 DEF Complete
<1> QED
  BY <1>1, <1>2

(* The last group of the log is in the report up to some octet of its      *)
(* results.                                                                *)
PartWritten(m) ==
    /\ m \in 0..Width(Len(log))
    /\ m * OctetBits <= Len(Latest) \/ Len(Latest) = CasesOf(Len(log))
    /\ Starts(written, Body(Len(log) - 1)
                         \o (HeadingOf(Len(log)) \o Octets(Latest, m)))

LEMMA PartLaid ==
    ASSUME Started, LogSelected, written \in Seq(Octet), log # <<>>,
           Complete(Len(log) - 1), NEW m, PartWritten(m)
    PROVE  Laid
<1> DEFINE n == Len(log)
           t == HeadingOf(n) \o Octets(Latest, m)
           b == Body(n - 1)
<1>1. /\ n \in Nat \ {0} /\ Len(written) \in Nat /\ Placed
  BY LenProperties, EmptySeq, SelectedPlaced DEF Started
<1>2. n \in 1..Len(log) /\ n - 1 \in 0..(Len(log) - 1) /\ n - 1 \in 0..Len(log)
      /\ (n - 1) + 1 = n
  BY <1>1
<1>3. HeadingOf(n) \in Seq(Octet) /\ CasesOf(n) \in Nat
  BY <1>1, <1>2, HeadingOfType, EntryFacts
<1>4. Width(n) \in Nat
  BY <1>3, WidthOf DEF Width
<1>5. Octets(Latest, m) \in Seq(Octet)
  BY <1>4, OctetsType DEF PartWritten
<1>6. t \in Seq(Octet)
  BY <1>3, <1>5, ConcatProperties
<1>7. Starts(written, b \o t)
  BY DEF PartWritten
<1>8. b \in Seq(Octet)
  BY <1>1, <1>2, BodyType
<1> HIDE DEF t, b
<1>9. Preamble
  BY <1>1, <1>2, <1>6, <1>7, PreambleFirst DEF b
<1>10. ASSUME NEW g \in 0..(n - 2) PROVE GoesOn(g)
  <2>1. g \in 0..((n - 1) - 1)
    BY <1>1
  <2> QED
    BY <1>1, <1>2, <1>6, <1>7, <2>1, CompleteGoesOn DEF b
<1>11. GoesOn(n - 1) /\ Len(written) <= Length(n - 1) + 5 + m
  <2> DEFINE g == n - 1
  <2>1. g \in 0..(Len(log) - 1) /\ g + 1 = n
    BY <1>2
  <2>2. m \in 0..Width(g + 1)
        /\ (\/ m * OctetBits <= Len(log[g + 1].verdicts)
            \/ Len(log[g + 1].verdicts) = CasesOf(g + 1))
    <3> HIDE DEF g
    <3> QED
      BY <2>1 DEF Latest, PartWritten
  <2>3. Starts(written, Body(g) \o (HeadingOf(g + 1) \o Octets(log[g + 1].verdicts, m)))
    <3>1. Starts(written, Body(g) \o (HeadingOf(n) \o Octets(log[n].verdicts, m)))
      BY <1>7 DEF b, t, Latest
    <3> HIDE DEF g
    <3> QED
      BY <2>1, <3>1
  <2> HIDE DEF g
  <2>4. GoesOn(g) /\ Len(written) <= Length(g) + 5 + m
    BY <1>1, <2>1, <2>2, <2>3, PartGoesOn
  <2> QED
    BY <2>4 DEF g
<1>12. ASSUME Complete(n) PROVE Ends(n)
  <2>1. Len(Latest) = CasesOf(n)
    BY <1>2, <1>12 DEF Complete, CasesOf, Latest
  <2>2. Length(n) = Length(n - 1) + 6 + Width(n)
    <3> DEFINE g == n - 1
    <3>1. g \in 0..(Len(log) - 1) /\ g + 1 = n
      BY <1>2
    <3>2. Len(log[n].verdicts) = CasesOf(n)
      BY <2>1 DEF Latest
    <3> HIDE DEF g
    <3>3. Length(g + 1) = Length(g) + 6 + Width(g + 1)
      BY <1>1, <3>1, <3>2, LengthNext
    <3> QED
      BY <3>1, <3>3 DEF g
  <2>3. Length(n - 1) \in Nat
    BY <1>1, <1>2, BodyType
  <2>4. m \in 0..Width(n)
    BY DEF PartWritten
  <2>5. ~(Length(n) < Len(written))
    BY <1>1, <1>4, <1>11, <2>2, <2>3, <2>4
  <2> QED
    BY <2>5 DEF Ends
<1>13. ASSUME NEW g \in 0..n, Complete(g) PROVE Follows(g)
  <2>1. g \in 0..(n - 2) \/ g = n - 1 \/ g = n
    BY <1>1
  <2> QED
    BY <1>10, <1>11, <1>12, <1>13, <2>1 DEF Follows
<1> QED
  BY <1>9, <1>13 DEF Laid

LEMMA LiveLaid ==
    ASSUME Live, Logged, Place, Matches, Started, TypesKept
    PROVE  Laid
<1> DEFINE n == Len(log)
<1>1. n \in Nat /\ DOMAIN log = 1..n
  BY LenProperties DEF Started
<1>2. written \in Seq(Octet) /\ Len(written) \in Nat /\ Starts(written, Expected)
  BY MatchesStarts, LenProperties DEF TypesKept
<1>3. FourCC \in Seq(Octet) /\ Len(FourCC) = 4
  BY RTTestAssumption
<1>4. CASE pc \in {"off", "fourcc"}
  <2>1. log = <<>>
    BY <1>4 DEF Place
  <2>2. Starts(written, FourCC)
    <3>1. CASE pc = "off"
      <4>1. Starts(written, <<>>)
        BY <1>2, <3>1 DEF Expected
      <4> QED
        BY <1>2, <1>3, <4>1 DEF Starts
    <3>2. CASE pc = "fourcc"
      <4>1. i \in 0..Len(FourCC)
        BY <1>3, <3>2 DEF TypesKept
      <4>2. SubSeq(FourCC, 1, i) \in Seq(Octet) /\ Starts(SubSeq(FourCC, 1, i), FourCC)
        BY <1>3, <4>1, StartsSub
      <4>3. Starts(written, SubSeq(FourCC, 1, i))
        BY <1>2, <3>2 DEF Expected
      <4> QED
        BY <1>2, <1>3, <4>2, <4>3, StartsTransitive
    <3> QED
      BY <1>4, <3>1, <3>2
  <2>3. Length(0) = 4
    <3>1. Reports(0) = <<>>
      BY ReportsZero
    <3>2. FourCC \o <<>> = FourCC
      BY <1>3, ConcatEmptySeq
    <3> QED
      BY <1>3, <3>1, <3>2 DEF Length, Body
  <2>4. n = 0 /\ DOMAIN log = {}
    BY <1>1, <2>1
  <2>5. Ends(0)
    BY <1>2, <1>3, <2>2, <2>3, <2>4 DEF Ends, Starts
  <2>6. Preamble
    BY <1>2, <1>3, <2>2 DEF Preamble, Has, Starts
  <2>7. LogSelected
    BY <2>4 DEF LogSelected
  <2> QED
    BY <2>4, <2>5, <2>6, <2>7 DEF Laid, Follows
<1>5. CASE InGroup
  <2>1. /\ n \in Nat \ {0} /\ Placed /\ Base \in Seq(Octet) /\ Complete(n - 1)
        /\ Base = Body(n - 1) /\ log # <<>>
    BY <1>1, <1>5, GroupContext DEF Logged, Base, Body
  <2>2. PICK m \in 0..Width(n) :
           /\ m * OctetBits <= Len(Latest) \/ Len(Latest) = CasesOf(n)
           /\ Told \in Seq(Octet)
           /\ Starts(Told, Heading \o Octets(Latest, m))
    BY <1>5, ToldStarts
  <2>3. Heading = HeadingOf(n)
    BY <1>5, ToldStarts
  <2>4. n \in 1..Len(log)
    BY <2>1
  <2>5. HeadingOf(n) \in Seq(Octet) /\ CasesOf(n) \in Nat
    BY <2>1, <2>4, HeadingOfType, EntryFacts
  <2>6. Width(n) \in Nat
    BY <2>5, WidthOf DEF Width
  <2>7. Octets(Latest, m) \in Seq(Octet)
    BY <2>6, OctetsType
  <2> DEFINE t == HeadingOf(n) \o Octets(Latest, m)
             b == Body(n - 1)
  <2>8. t \in Seq(Octet)
    BY <2>5, <2>7, ConcatProperties
  <2>9. Expected = b \o Told
    BY <1>5, <2>1 DEF Expected, InGroup, Base
  <2> HIDE DEF t
  <2>10. Starts(Told, t)
    BY <2>2, <2>3 DEF t
  <2>11. b \in Seq(Octet)
    BY <2>1
  <2> HIDE DEF b
  <2>12. Starts(b \o Told, b \o t) /\ b \o Told \in Seq(Octet) /\ b \o t \in Seq(Octet)
    BY <2>2, <2>8, <2>10, <2>11, StartsConcat, ConcatProperties
  <2>13. Starts(written, b \o t)
    BY <1>2, <2>9, <2>12, StartsTransitive
  <2>14. LogSelected
    BY <1>5, UpToSelected DEF Logged
  <2>15. PartWritten(m)
    BY <2>2, <2>13 DEF PartWritten, b, t
  <2> QED
    BY <1>2, <2>1, <2>14, <2>15, PartLaid
<1>6. CASE pc \in {"eof", "done"}
  <2>1. EverythingRun
    BY <1>6 DEF Place
  <2>2. LogSelected /\ Complete(n)
    BY <2>1, LogComplete
  <2>3. Placed
    BY <2>2, SelectedPlaced
  <2> DEFINE t == IF pc = "eof" THEN <<>> ELSE <<EndOfFile>>
             b == Body(n)
             e == b \o t
  <2>4. t \in Seq(Octet) /\ Len(t) = (IF pc = "eof" THEN 0 ELSE 1)
        /\ (pc = "done" => t[1] = EndOfFile)
    BY <1>6, RTTestAssumption
  <2>5. b \in Seq(Octet) /\ n \in 0..Len(log)
    BY <1>1, <2>3, BodyType
  <2>6. Expected = e
    <3>1. CASE pc = "eof"
      <4>1. b \o <<>> = b
        BY <2>5, ConcatEmptySeq
      <4> QED
        BY <3>1, <4>1 DEF Expected, Body
    <3>2. CASE pc = "done"
      <4>1. FullReport = (FourCC \o FlattenSeq([k \in DOMAIN log |-> GroupReport(log[k])]))
                            \o <<EndOfFile>>
        BY DEF FullReport
      <4> QED
        BY <1>1, <3>2, <4>1 DEF Expected, Body, Reports
    <3> QED
      BY <1>6, <3>1, <3>2
  <2>7. e = b \o t /\ Starts(written, e)
    BY <1>2, <2>6
  <2>8. Preamble
    BY <1>2, <2>3, <2>4, <2>5, <2>7, PreambleFirst
  <2>9. ASSUME NEW g \in 0..(n - 1) PROVE GoesOn(g)
    BY <1>2, <2>2, <2>3, <2>4, <2>5, <2>7, CompleteGoesOn
  <2>10. Ends(n)
    <3> HIDE DEF t, b, e
    <3>1. /\ Len(e) = Len(b) + Len(t) /\ Len(b) \in Nat
          /\ \A p \in 1..Len(t) : e[Len(b) + p] = t[p]
      <4>1. t \in Seq(Octet) /\ b \in Seq(Octet)
        BY <2>4, <2>5
      <4> QED
        BY <2>7, <4>1, ConcatAt
    <3>2. ASSUME Length(n) < Len(written)
          PROVE  /\ Len(written) = Length(n) + 1 /\ written[Len(written)] = EndOfFile
                 /\ Whole
      <4>1. Length(n) = Len(b)
        BY DEF Length, b
      <4>2. Len(written) <= Len(e)
        BY <2>7 DEF Starts
      <4>3. pc = "done" /\ Len(written) = Len(b) + 1
        BY <1>2, <1>6, <2>4, <3>1, <3>2, <4>1, <4>2
      <4>4. Len(b) + 1 \in 1..Len(written) /\ 1 \in 1..Len(t)
        BY <2>4, <3>1, <4>3
      <4>5. written[Len(b) + 1] = EndOfFile
        BY <2>4, <2>7, <3>1, <4>3, <4>4 DEF Starts
      <4>6. ret >= 0
        BY <4>3 DEF Live
      <4> QED
        BY <2>1, <4>1, <4>3, <4>5, <4>6 DEF Whole, Finished
    <3> QED
      BY <3>2 DEF Ends
  <2>11. ASSUME NEW g \in 0..n PROVE Follows(g)
    <3>1. g \in 0..(n - 1) \/ g = n
      <4> HIDE DEF n
      <4> QED
        BY <1>1
    <3> QED
      BY <2>9, <2>10, <3>1 DEF Follows
  <2> QED
    BY <2>2, <2>8, <2>11 DEF Laid
<1> QED
  BY <1>4, <1>5, <1>6 DEF TypesKept, InGroup, Live

LEMMA BodyKept ==
    ASSUME NEW n, \A k \in 1..n : log'[k] = log[k], UNCHANGED groups
    PROVE  Body(n)' = Body(n) /\ Length(n)' = Length(n)
<1>1. Reports(n)' = Reports(n)
  BY ReportsKept
<1> QED
  BY <1>1 DEF Body, Length

(* The id of the last group of the log is in the report, up to some octet  *)
(* of it, without a mark before it.                                        *)
TornWritten(j) ==
    written = Body(Len(log) - 1)
                \o SubSeq(BigEndian(groups[log[Len(log)].group].id), 1, j)

LEMMA TornLaid ==
    ASSUME Started, LogSelected, written \in Seq(Octet), log # <<>>, refused,
           Complete(Len(log) - 1), NEW j \in 0..4, TornWritten(j)
    PROVE  Laid
<1> DEFINE n == Len(log)
           x == BigEndian(groups[log[n].group].id)
           t == SubSeq(x, 1, j)
           b == Body(n - 1)
           e == b \o t
<1>1. /\ n \in Nat \ {0} /\ Len(written) \in Nat /\ Placed
  BY LenProperties, EmptySeq, SelectedPlaced DEF Started
<1>2. n \in 1..Len(log) /\ n - 1 \in 0..(Len(log) - 1) /\ n - 1 \in 0..Len(log)
      /\ (n - 1) + 1 = n
  BY <1>1
<1>3. /\ CasesOf(n) \in Nat /\ HeadingOf(n)[1 + 1] = x[1]
      /\ groups[log[n].group].id \in GroupId
  BY <1>1, <1>2, HeadingOfType, EntryFacts
<1>4. Width(n) \in Nat
  BY <1>3, WidthOf DEF Width
<1>5. x \in Seq(Octet) /\ Len(x) = 4
  BY <1>3, GroupIdNatural, BigEndianType
<1>6. t \in Seq(Octet) /\ Len(t) = j /\ \A p \in 1..j : t[p] = x[p]
  BY <1>5, StartsSub DEF Starts
<1>7. b \in Seq(Octet)
  BY <1>1, <1>2, BodyType
<1>8. written = e /\ e = b \o t
  BY DEF TornWritten
<1> HIDE DEF x, t, b, e
<1>9. /\ Len(e) = Len(b) + Len(t) /\ Len(b) \in Nat
      /\ \A p \in 1..Len(t) : e[Len(b) + p] = t[p]
  <2>1. t \in Seq(Octet)
    BY <1>6
  <2> QED
    BY <1>7, <1>8, <2>1, ConcatAt
<1>10. Starts(written, b \o t)
  BY <1>1, <1>8 DEF Starts
<1>11. t \in Seq(Octet)
  BY <1>6
<1>12. Preamble
  BY <1>1, <1>2, <1>10, <1>11, PreambleFirst DEF b
<1>13. ASSUME NEW g \in 0..(n - 2) PROVE GoesOn(g)
  <2>1. g \in 0..((n - 1) - 1)
    BY <1>1
  <2> QED
    BY <1>1, <1>2, <1>10, <1>11, <2>1, CompleteGoesOn DEF b
<1>14. Len(b) = Length(n - 1) /\ Len(written) = Length(n - 1) + j
  BY <1>6, <1>8, <1>9 DEF b, Length
<1>15. Torn(n - 1)
  <2> DEFINE g == n - 1
             l == Length(g)
  <2>1. g + 1 = Len(log) /\ g + 1 = n
    BY <1>2
  <2>2. l \in Nat /\ Len(written) <= l + 4
    BY <1>9, <1>14
  <2>3. ASSUME l + 1 <= Len(written) PROVE written[l + 1] = x[1]
    <3>1. 1 \in 1..Len(t) /\ 1 \in 1..j
      BY <1>6, <1>9, <1>14, <2>3
    <3> QED
      BY <1>6, <1>8, <1>9, <1>14, <3>1
  <2>4. HeadingOf(g + 1)[2] = x[1]
    <3> HIDE DEF g
    <3> QED
      BY <1>3, <2>1
  <2> HIDE DEF g, l
  <2>5. Has(Length(g) + 1, HeadingOf(g + 1)[2])
    BY <2>3, <2>4 DEF Has, l
  <2>6. Torn(g)
    BY <2>1, <2>2, <2>5 DEF Torn, l
  <2> QED
    BY <2>6 DEF g
<1>16. ASSUME Complete(n) PROVE Ends(n)
  <2>1. Len(log[n].verdicts) = CasesOf(n)
    BY <1>2, <1>16 DEF Complete, CasesOf
  <2>2. Length(n) = Length(n - 1) + 6 + Width(n)
    <3> DEFINE g == n - 1
    <3>1. g \in 0..(Len(log) - 1) /\ g + 1 = n
      BY <1>2
    <3> HIDE DEF g
    <3>2. Length(g + 1) = Length(g) + 6 + Width(g + 1)
      BY <1>1, <2>1, <3>1, LengthNext
    <3> QED
      BY <3>1, <3>2 DEF g
  <2>3. ~(Length(n) < Len(written))
    BY <1>4, <1>9, <1>14, <2>2
  <2> QED
    BY <2>3 DEF Ends
<1>17. ASSUME NEW g \in 0..n, Complete(g) PROVE Follows(g)
  <2>1. g \in 0..(n - 2) \/ g = n - 1 \/ g = n
    BY <1>1
  <2> QED
    BY <1>13, <1>15, <1>16, <1>17, <2>1 DEF Follows
<1> QED
  BY <1>12, <1>17 DEF Laid

(* What is written after a refusal. *)
Strays ==
    /\ Started /\ LogSelected /\ written \in Seq(Octet) /\ log # <<>>
    /\ Complete(Len(log) - 1)
    /\ \/ refused /\ \E j \in 0..4 : TornWritten(j)
       \/ \E m \in 0..Width(Len(log)) : PartWritten(m)

LEMMA StraysLaid == Strays => Laid
  BY TornLaid, PartLaid DEF Strays

LEMMA StraysLaidNext == Strays' => Laid'
<1>1. Strays => Laid
  BY StraysLaid
<1> QED
  BY <1>1, PTL

(* What the runner still writes once an octet has been refused: the id     *)
(* behind a refused mark, or once more the octet that was refused.         *)
Astray ==
    refused =>
       /\ Logged
       /\ pc = "id" =>
             /\ id = (groups[group].id * Power(2, i * OctetBits))
                        % Power(2, 4 * OctetBits)
             /\ written = Base \o SubSeq(BigEndian(groups[group].id), 1, i)
       /\ pc = "last" =>
             /\ Len(Latest) = i + 1 /\ (i + 1) % OctetBits = 0 /\ i < Len(Cases)
             /\ resultBits = OctetOf(Latest, (i \div OctetBits) * OctetBits + 1)
             /\ written = Base \o (Heading \o Octets(Latest, i \div OctetBits))

(* The next octet of an id, and what is left of it. *)
LEMMA IdNext ==
    ASSUME groups \in Seq(Group), group \in DOMAIN groups, i \in 0..3,
           NEW b \in Seq(Octet),
           id = (groups[group].id * Power(2, i * OctetBits)) % Power(2, 4 * OctetBits)
    PROVE  LET x == groups[group].id
               octet == id \div Power(2, 3 * OctetBits)
           IN  /\ octet = BigEndian(x)[i + 1] /\ octet \in Octet
               /\ b \o SubSeq(BigEndian(x), 1, i + 1)
                     = Append(b \o SubSeq(BigEndian(x), 1, i), octet)
               /\ ShiftedUp(id) = (x * Power(2, (i + 1) * OctetBits))
                                      % Power(2, 4 * OctetBits)
<1> DEFINE x == groups[group].id
           h == BigEndian(x)
           octet == id \div Power(2, 3 * OctetBits)
           told == SubSeq(h, 1, i)
<1>1. x \in Nat
  BY GroupFacts, GroupIdNatural
<1>2. h \in Seq(Octet) /\ Len(h) = 4
  BY <1>1, BigEndianType
<1>3. octet = h[i + 1]
  <2>1. octet = (x \div Power(2, (3 - i) * OctetBits)) % Power(2, OctetBits)
    <3> HIDE DEF x
    <3> QED
      BY <1>1, ShiftedOctet DEF x
  <2>2. i + 1 \in 1..4 /\ 4 - (i + 1) = 3 - i
    OBVIOUS
  <2>3. h[i + 1]
          = (x \div Power(2, (4 - (i + 1)) * OctetBits)) % Power(2, OctetBits)
    BY <2>2 DEF BigEndian
  <2> HIDE DEF octet, h, x
  <2> QED
    BY <2>1, <2>2, <2>3
<1>4. octet \in Octet
  <2>1. i + 1 \in 1..4
    OBVIOUS
  <2> HIDE DEF octet, h
  <2> QED
    BY <1>2, <1>3, <2>1, ElementOfSeq
<1>5. ShiftedUp(id) = (x * Power(2, (i + 1) * OctetBits)) % Power(2, 4 * OctetBits)
  <2>1. i \in Nat
    OBVIOUS
  <2> HIDE DEF x
  <2> QED
    BY <1>1, <2>1, ShiftedAgain DEF x
<1>6. b \o SubSeq(h, 1, i + 1) = Append(b \o told, octet)
  <2> HIDE DEF h, octet, x
  <2>1. i \in 0..(Len(h) - 1)
    BY <1>2
  <2>2. told \in Seq(Octet) /\ SubSeq(h, 1, i + 1) = Append(told, octet)
    BY <1>2, <1>3, <2>1, PrefixNext
  <2> HIDE DEF told
  <2>3. told \in Seq(Octet)
    BY <2>2
  <2>4. b \o Append(told, octet) = Append(b \o told, octet)
    BY <1>4, <2>3, ConcatAppend
  <2> QED
    BY <2>2, <2>4
<1> QED
  BY <1>3, <1>4, <1>5, <1>6

LEMMA RunningAstray ==
    ASSUME Astray, Followed, Started, TypesKept, Refusal, Running
    PROVE  Astray'
<1>1. Refusal'
  BY RunningRefusal
<1> SUFFICES ASSUME refused', pc' # "done" PROVE Astray'
  <2>1. CASE refused' /\ pc' = "done"
    BY <2>1 DEF Astray, Logged, InGroup
  <2> QED
    BY <2>1 DEF Astray
<1>2. pc' \in {"id", "last"}
  BY <1>1 DEF Refusal
<1> SUFFICES ASSUME pc' \in {"id", "last"} PROVE Astray'
  BY <1>2
<1>3. refused => pc \in {"id", "last", "done"}
  BY DEF Refusal
<1>4. CASE EnterMark
  <2>1. pc = "mark" /\ pc' = "id" /\ i' = 0 /\ id' = groups[group].id
        /\ UNCHANGED <<program, group, log>> /\ InGroup
    BY <1>4 DEF EnterMark, InGroup
  <2>2. ~refused
    BY <1>3, <2>1
  <2>3. UNCHANGED written
    BY <1>4, <2>2 DEF EnterMark, WrOctet
  <2>4. Logged /\ Matches
    BY <2>1, <2>2 DEF Followed, Live
  <2>5. Logged' /\ Base' = Base
    BY <2>1, <2>4, GroupSame
  <2>6. Base \in Seq(Octet) /\ groups \in Seq(Group) /\ group \in DOMAIN groups
    BY <2>1, <2>4, GroupContext
  <2>7. groups[group].id \in GroupId
    BY <2>6, GroupFacts
  <2> DEFINE x == groups[group].id
             w == Power(2, 4 * OctetBits)
  <2>8. x = (x * Power(2, 0 * OctetBits)) % w
    <3>1. w \in Nat \ {0}
      BY OctetBitsType, PowerType
    <3>2. x \in 0..(w - 1)
      BY <2>7 DEF GroupId
    <3>3. Power(2, 0 * OctetBits) = 1
      BY OctetBitsType, PowerZero
    <3> HIDE DEF x, w
    <3>4. (x * 1) % w = x
      <4>1. x * 1 = w * 0 + x
        BY <3>1, <3>2
      <4> QED
        BY <3>1, <3>2, <4>1
    <3> QED
      BY <3>3, <3>4
  <2>9. id' = (groups'[group'].id * Power(2, i' * OctetBits))
                 % Power(2, 4 * OctetBits)
    BY <2>1, <2>8 DEF program
  <2>10. written = Base \o <<>>
    <3>1. Expected = Base \o <<>>
      BY <2>1 DEF Expected, Told, Base
    <3> QED
      BY <2>4, <3>1 DEF Matches
  <2>11. SubSeq(BigEndian(x), 1, 0) = <<>>
    <3>1. x \in Nat
      BY <2>7, GroupIdNatural
    <3>2. BigEndian(x) \in Seq(Octet) /\ Len(BigEndian(x)) = 4
      BY <3>1, BigEndianType
    <3>3. 0 \in 0..(Len(BigEndian(x)) - 1)
      BY <3>2
    <3> QED
      BY <3>2, <3>3, PrefixNext
  <2>12. written' = Base' \o SubSeq(BigEndian(groups'[group'].id), 1, i')
    BY <2>1, <2>3, <2>5, <2>10, <2>11 DEF program
  <2> QED
    BY <2>1, <2>5, <2>9, <2>12 DEF Astray
<1>5. CASE IdOctet
  <2>1. pc = "id" /\ UNCHANGED <<program, group, log>> /\ InGroup
    BY <1>5 DEF IdOctet, InGroup
  <2> DEFINE octet == id \div Power(2, 3 * OctetBits)
  <2>2. /\ pc' = "id" /\ i < 3 /\ i' = i + 1 /\ id' = ShiftedUp(id)
        /\ WrOctet(octet, TRUE)
    BY <1>5 DEF IdOctet, StartCases
  <2>3. refused
    BY <2>2 DEF WrOctet
  <2>4. Logged /\ id = (groups[group].id * Power(2, i * OctetBits))
                          % Power(2, 4 * OctetBits)
        /\ written = Base \o SubSeq(BigEndian(groups[group].id), 1, i)
    BY <2>1, <2>3 DEF Astray
  <2>5. Logged' /\ Base' = Base
    BY <2>1, <2>4, GroupSame
  <2>6. Base \in Seq(Octet) /\ groups \in Seq(Group) /\ group \in DOMAIN groups
        /\ i \in 0..3
    BY <2>1, <2>4, GroupContext DEF TypesKept
  <2> DEFINE x == groups[group].id
             b == Base
  <2>7. /\ b \o SubSeq(BigEndian(x), 1, i + 1)
              = Append(b \o SubSeq(BigEndian(x), 1, i), octet)
        /\ ShiftedUp(id) = (x * Power(2, (i + 1) * OctetBits)) % Power(2, 4 * OctetBits)
    <3> HIDE DEF b
    <3> QED
      BY <2>4, <2>6, IdNext DEF b
  <2>8. written' = Append(written, octet)
    BY <2>2 DEF WrOctet
  <2>9. groups'[group'].id = x
    BY <2>1 DEF program
  <2> HIDE DEF x, octet
  <2>10. written' = Base' \o SubSeq(BigEndian(groups'[group'].id), 1, i')
    BY <2>2, <2>4, <2>5, <2>7, <2>8, <2>9 DEF x
  <2>11. id' = (groups'[group'].id * Power(2, i' * OctetBits)) % Power(2, 4 * OctetBits)
    BY <2>2, <2>7, <2>9
  <2> QED
    BY <2>2, <2>5, <2>10, <2>11 DEF Astray
<1>6. CASE ResultOctet
  <2>1. pc = "octet" /\ UNCHANGED <<program, group, log>> /\ InGroup
    BY <1>6 DEF ResultOctet, InGroup
  <2>2. ~refused
    BY <1>3, <2>1
  <2>3. UNCHANGED <<written, resultBits, i>> /\ pc' = "last"
    BY <1>6, <2>2 DEF ResultOctet, WrOctet, AfterRefusal
  <2>4. Logged /\ Matches /\ Place
    BY <2>1, <2>2 DEF Followed, Live
  <2>5. /\ Logged' /\ Base' = Base /\ Heading' = Heading /\ Latest' = Latest
        /\ Cases' = Cases
    BY <2>1, <2>4, GroupSame
  <2>6. Len(Latest) = i + 1 /\ i < Len(Cases) /\ (i + 1) % OctetBits = 0 /\ BitsSoFar
    BY <2>1, <2>4 DEF Place
  <2>7. resultBits = OctetOf(Latest, (i \div OctetBits) * OctetBits + 1)
    BY <2>6, OctetIsKnown DEF BitsSoFar
  <2>8. written = Base \o (Heading \o Octets(Latest, i \div OctetBits))
    <3>1. Expected = Base \o (Heading \o Octets(Latest, i \div OctetBits))
      BY <2>1 DEF Expected, Told, Base
    <3> QED
      BY <2>4, <3>1 DEF Matches
  <2>9. Octets(Latest, i \div OctetBits)' = Octets(Latest, i \div OctetBits)
    BY <2>3, <2>5 DEF Octets
  <2>10. written' = Base' \o (Heading' \o Octets(Latest, i \div OctetBits)')
    BY <2>3, <2>5, <2>8, <2>9
  <2> QED
    BY <2>3, <2>5, <2>6, <2>7, <2>10 DEF Astray
<1>7. ~LastOctet
  BY <1>1 DEF LastOctet, AfterCases
<1>8. ~WritePreamble /\ ~EntryAction /\ ~ExitAction /\ ~ExitMark /\ ~WriteEndOfFile
      /\ ~Panic
  <2>1. ~WritePreamble
    BY DEF WritePreamble, NextGroup
  <2>2. ~EntryAction
    BY DEF EntryAction, StartCases
  <2>3. ~ExitMark
    BY DEF ExitMark, NextGroup
  <2> QED
    BY <2>1, <2>2, <2>3 DEF ExitAction, WriteEndOfFile, Panic
<1>9. ~TestCase
  <2>1. TestCase => pc = "case" /\ UNCHANGED refused
    BY DEF TestCase, output
  <2> QED
    BY <1>3, <2>1
<1> QED
  BY <1>4, <1>5, <1>6, <1>7, <1>8, <1>9 DEF Running

LEMMA LatestSame ==
    ASSUME UNCHANGED <<groups, group, log, i>>
    PROVE  /\ Latest' = Latest /\ Heading' = Heading /\ Cases' = Cases
           /\ Base' = Base
           /\ Octets(Latest, i \div OctetBits)' = Octets(Latest, i \div OctetBits)
<1>1. \A n : Reports(n)' = Reports(n)
  BY ReportsKept
<1> QED
  BY <1>1 DEF Latest, Heading, Cases, Base, Octets

LEMMA StepAstray ==
    ASSUME Astray, Followed, Started, TypesKept, Refusal, [Next]_vars
    PROVE  Astray'
<1>1. CASE UNCHANGED runner
  <2>1. UNCHANGED <<groups, selection, pc, group, i, id, resultBits, written,
                    refused, log>>
    BY <1>1 DEF runner, program, results, output
  <2>2. Logged' = Logged
    BY <2>1 DEF Logged, InGroup, Complete, Ordered, UpTo, Selected, IsIn
  <2>3. /\ Latest' = Latest /\ Heading' = Heading /\ Cases' = Cases
        /\ Base' = Base
        /\ Octets(Latest, i \div OctetBits)' = Octets(Latest, i \div OctetBits)
    BY <2>1, LatestSame
  <2> QED
    BY <2>1, <2>2, <2>3 DEF Astray
<1>2. CASE Running
  BY <1>2, RunningAstray
<1>3. CASE pc = "off" /\ UNCHANGED refused
  BY <1>3 DEF Refusal, Astray
<1>4. Running \/ UNCHANGED runner \/ (pc = "off" /\ UNCHANGED refused)
  BY DEF Next, RunnerStep, ReaderStep, RunnerNext, RTPrivTestRegisterGroup,
      RTTestRun,
         vars, output
<1> QED
  BY <1>1, <1>2, <1>3, <1>4

(* A run that has met a refusal or a failure leaves the groups and their   *)
(* verdicts alone, and writes only what strays.                            *)
LEMMA RunningStill ==
    ASSUME Followed, Refusal, TypesKept, Running, ~Live'
    PROVE  /\ UNCHANGED <<groups, selection, log>>
           /\ \/ UNCHANGED written
              \/ refused /\ UNCHANGED <<group, i>> /\ pc = "last"
                    /\ written' = Append(written, resultBits)
              \/ /\ refused /\ UNCHANGED group /\ pc = "id"
                 /\ written' = Append(written, id \div Power(2, 3 * OctetBits))
<1>1. UNCHANGED <<groups, selection>>
  BY DEF Running, WritePreamble, EnterMark, IdOctet, EntryAction, TestCase,
      ResultOctet,
         LastOctet, ExitAction, ExitMark, WriteEndOfFile, Panic, program
<1>2. Refusal'
  BY RunningRefusal
<1>3. \/ refused' /\ ret' = -1 /\ pc' \in {"id", "last", "done"}
      \/ pc' = "panic"
      \/ ~refused' /\ pc' = "done" /\ ret' < 0
  <2>1. ret' \in Int
    BY <1>2 DEF Refusal
  <2> QED
    BY <1>2, <2>1 DEF Refusal, Live
<1>4. refused => pc \in {"id", "last", "done"}
  BY DEF Refusal
<1>5. ~refused => (pc # "done" => ret >= 0) /\ ret \in Int
  BY DEF Refusal
<1>6. CASE WritePreamble
  <2>1. ~refused
    BY <1>4, <1>6 DEF WritePreamble
  <2> QED
    BY <1>1, <1>3, <1>6, <2>1 DEF WritePreamble, WrOctet, NextGroup
<1>7. CASE EnterMark
  <2>1. ~refused
    BY <1>4, <1>7 DEF EnterMark
  <2> QED
    <3>1. UNCHANGED log /\ pc' = "id"
      BY <1>7 DEF EnterMark
    <3>2. UNCHANGED written
      <4>1. PICK ok \in BOOLEAN : WrOctet(EnterGroup, ok)
        BY <1>7 DEF EnterMark
      <4>2. refused'
        BY <1>3, <3>1
      <4> QED
        BY <2>1, <4>1, <4>2 DEF WrOctet
    <3> QED
      BY <1>1, <3>1, <3>2
<1>8. CASE IdOctet
  <2> DEFINE octet == id \div Power(2, 3 * OctetBits)
  <2>1. PICK ok \in BOOLEAN :
          /\ WrOctet(octet, ok) /\ ret' = Answered(ok, ret)
          /\ pc' = "done" => ~ok \/ (i = 3 /\ ret < 0)
          /\ pc' \in {"id", "done", "entry", "case"}
    BY <1>8 DEF IdOctet, StartCases
  <2>2. pc = "id" /\ UNCHANGED <<group, log>>
    BY <1>8 DEF IdOctet
  <2> HIDE DEF octet
  <2>3. CASE ok
    <3>1. refused' => refused
      BY <2>1, <2>3 DEF WrOctet
    <3>2. refused
      BY <1>3, <1>5, <2>1, <2>2, <2>3, <3>1 DEF Answered
    <3>3. UNCHANGED written \/ (written' = Append(written, octet))
      BY <2>1, <2>3 DEF WrOctet
    <3> QED
      BY <1>1, <2>2, <3>2, <3>3 DEF octet
  <2>4. CASE ~ok
    BY <1>1, <2>1, <2>2, <2>4 DEF WrOctet
  <2> QED
    BY <2>3, <2>4
<1>9. CASE EntryAction \/ ExitAction \/ Panic
  BY <1>1, <1>9 DEF EntryAction, ExitAction, Panic, output
<1>10. CASE TestCase
  <2>1. ~refused /\ pc = "case" /\ UNCHANGED refused
    BY <1>4, <1>10 DEF TestCase, output
  <2>2. pc' \notin {"done", "panic"}
    BY <1>10 DEF TestCase, NextCase, AfterCases
  <2> QED
    BY <1>3, <2>1, <2>2
<1>11. CASE ResultOctet
  <2>1. ~refused /\ pc = "octet"
    BY <1>4, <1>11 DEF ResultOctet
  <2>2. UNCHANGED log
    BY <1>11 DEF ResultOctet
  <2> QED
    BY <1>1, <1>3, <1>11, <2>1, <2>2
    DEF ResultOctet, WrOctet, Answered, NextCase, AfterCases
<1>12. CASE LastOctet
  <2>1. PICK ok \in BOOLEAN :
          /\ WrOctet(resultBits, ok) /\ ret' = Answered(ok, ret)
          /\ pc' = IF ok /\ ret >= 0 THEN AfterCases ELSE "done"
    BY <1>12 DEF LastOctet
  <2>2. pc = "last" /\ UNCHANGED <<group, i, log>>
    BY <1>12 DEF LastOctet
  <2>3. CASE ok
    <3>1. refused' => refused
      BY <2>1, <2>3 DEF WrOctet
    <3>2. refused
      BY <1>3, <1>5, <2>1, <2>2, <2>3, <3>1 DEF Answered, AfterCases
    <3>3. UNCHANGED written \/ (written' = Append(written, resultBits))
      BY <2>1, <2>3 DEF WrOctet
    <3> QED
      BY <1>1, <2>2, <3>2, <3>3
  <2>4. CASE ~ok
    BY <1>1, <2>1, <2>2, <2>4 DEF WrOctet
  <2> QED
    BY <2>3, <2>4
<1>13. CASE ExitMark
  <2>1. ~refused
    BY <1>4, <1>13 DEF ExitMark
  <2> QED
    BY <1>1, <1>3, <1>13, <2>1 DEF ExitMark, WrOctet, NextGroup
<1>14. CASE WriteEndOfFile
  <2>1. ~refused /\ pc = "eof" /\ UNCHANGED log
    BY <1>4, <1>14 DEF WriteEndOfFile
  <2> QED
    BY <1>1, <1>3, <1>5, <1>14, <2>1 DEF WriteEndOfFile, WrOctet, Answered
<1> QED
  BY <1>6, <1>7, <1>8, <1>9, <1>10, <1>11, <1>12, <1>13, <1>14 DEF Running

LEMMA FollowsKept ==
    ASSUME Laid, UNCHANGED <<groups, selection, log, written>>, refused => refused',
           pc = "done" => UNCHANGED <<pc, ret>>
    PROVE  Laid'
<1>1. \A n : Body(n)' = Body(n) /\ Length(n)' = Length(n)
  BY BodyKept
<1>2. \A n : HeadingOf(n)' = HeadingOf(n) /\ Width(n)' = Width(n)
             /\ CasesOf(n)' = CasesOf(n) /\ Complete(n)' = Complete(n)
  BY DEF HeadingOf, Width, CasesOf, Complete
<1>3. LogSelected' /\ Preamble'
  BY DEF Laid, LogSelected, Preamble, Has, Selected, IsIn
<1>4. ASSUME NEW g \in 0..Len(log), Complete(g) PROVE Follows(g)'
  <2>1. CASE GoesOn(g)
    <3> HIDE DEF Length, Width, HeadingOf, CasesOf
    <3>1. GoesOn(g)'
      BY <1>1, <1>2, <2>1 DEF GoesOn, Has
    <3> QED
      BY <3>1 DEF Follows
  <2>2. CASE Ends(g)
    <3>1. Whole => Whole'
      <4>1. EverythingRun => EverythingRun'
        BY DEF EverythingRun, Selected, IsIn
      <4> QED
        BY <4>1 DEF Whole, Finished
    <3>2. Ends(g)'
      BY <1>1, <2>2, <3>1 DEF Ends
    <3> QED
      BY <3>2 DEF Follows
  <2>3. CASE Torn(g)
    <3>1. Torn(g)'
      BY <1>1, <1>2, <2>3 DEF Torn, Has
    <3> QED
      BY <3>1 DEF Follows
  <2> QED
    BY <1>4, <2>1, <2>2, <2>3 DEF Laid, Follows
<1> QED
  BY <1>2, <1>3, <1>4 DEF Laid

(* The same holds of a run that met a refusal, a failure or a panic: what  *)
(* the report has of the groups it has as before.                          *)
LEMMA StepStrayed ==
    ASSUME Laid, Astray, Followed, Started, TypesKept, Refusal, [Next]_vars, ~Live'
    PROVE  Laid'
<1>1. CASE UNCHANGED runner
  <2>1. /\ UNCHANGED <<groups, selection, log, written>>
        /\ UNCHANGED <<pc, ret>> /\ UNCHANGED refused
    BY <1>1 DEF runner, program, output
  <2> QED
    BY <2>1, FollowsKept
<1>2. CASE Running
  <2>1. pc # "done"
    BY <1>2 DEF Running, WritePreamble, EnterMark, IdOctet, EntryAction, TestCase,
                ResultOctet, LastOctet, ExitAction, ExitMark, WriteEndOfFile, Panic
  <2>2. refused => refused'
    BY <1>2 DEF Running, WritePreamble, EnterMark, IdOctet, EntryAction, TestCase,
                ResultOctet, LastOctet, ExitAction, ExitMark, WriteEndOfFile, Panic,
                WrOctet, output
  <2>3. /\ UNCHANGED <<groups, selection, log>>
        /\ \/ UNCHANGED written
           \/ refused /\ UNCHANGED <<group, i>> /\ pc = "last"
                 /\ written' = Append(written, resultBits)
           \/ /\ refused /\ UNCHANGED group /\ pc = "id"
              /\ written' = Append(written, id \div Power(2, 3 * OctetBits))
    BY <1>2, RunningStill
  <2>4. CASE UNCHANGED written
    BY <2>1, <2>2, <2>3, <2>4, FollowsKept
  <2>8. PICK n : n = Len(log)
    OBVIOUS
  <2>9. Len(log') = n
    BY <2>3, <2>8
  <2>5. ASSUME refused, pc \in {"last", "id"}
        PROVE  /\ InGroup /\ Logged /\ log # <<>>
               /\ Started' /\ LogSelected' /\ written' \in Seq(Octet) /\ log' # <<>>
               /\ Complete(n - 1)'
               /\ Body(n - 1)' = Base
    <3>1. InGroup /\ Logged
      BY <2>5 DEF InGroup, Astray
    <3>2. Started' /\ TypesKept'
      BY NextStarted, StepTypes
    <3>3. log # <<>> /\ Complete(Len(log) - 1)
      BY <3>1 DEF Logged
    <3>4. Complete(n - 1)'
      BY <2>3, <2>8, <3>3 DEF Complete
    <3>5. Body(n - 1)' = Base
      <4>1. \A j : Body(j)' = Body(j)
        BY <2>3, BodyKept
      <4> QED
        BY <2>8, <4>1 DEF Base, Body
    <3>6. LogSelected'
      BY <2>3 DEF Laid, LogSelected, Selected, IsIn
    <3> QED
      BY <2>3, <3>1, <3>2, <3>3, <3>4, <3>5, <3>6 DEF TypesKept
  <2>6. CASE refused /\ pc = "id" /\ UNCHANGED group
             /\ written' = Append(written, id \div Power(2, 3 * OctetBits))
    <3>1. /\ id = (groups[group].id * Power(2, i * OctetBits))
                     % Power(2, 4 * OctetBits)
          /\ written = Base \o SubSeq(BigEndian(groups[group].id), 1, i)
      BY <2>6 DEF Astray
    <3>2. /\ InGroup /\ Logged /\ log # <<>>
          /\ Started' /\ LogSelected' /\ written' \in Seq(Octet) /\ log' # <<>>
          /\ Complete(n - 1)'
          /\ Body(n - 1)' = Base
      BY <2>5, <2>6
    <3>3. /\ Base \in Seq(Octet) /\ groups \in Seq(Group) /\ group \in DOMAIN groups
          /\ log[Len(log)].group = group /\ i \in 0..3
      BY <2>6, <3>2, GroupContext DEF TypesKept
    <3> DEFINE b == Base
               x == BigEndian(groups[group].id)
    <3>4. b \o SubSeq(x, 1, i + 1)
             = Append(b \o SubSeq(x, 1, i), id \div Power(2, 3 * OctetBits))
      <4>1. b \in Seq(Octet)
        BY <3>3
      <4> HIDE DEF b
      <4> QED
        BY <3>1, <3>3, <4>1, IdNext
    <3>5. written' = b \o SubSeq(x, 1, i + 1)
      BY <2>6, <3>1, <3>4
    <3>6. BigEndian(groups'[log'[Len(log')].group].id) = x
      BY <2>3, <3>3
    <3>7. PICK j \in 0..4 : j = i + 1
      BY <3>3
    <3>8. TornWritten(j)'
      <4> HIDE DEF x, b
      <4>1. TornWritten(j)' <=> written' = Body(n - 1)'
                        \o SubSeq(BigEndian(groups'[log'[Len(log')].group].id), 1, j)
        BY <2>9 DEF TornWritten
      <4> QED
        BY <3>2, <3>5, <3>6, <3>7, <4>1 DEF b
    <3>9. Strays'
      BY <2>2, <2>6, <2>9, <3>2, <3>8 DEF Strays
    <3> QED
      BY <3>9, StraysLaidNext
  <2>7. CASE refused /\ pc = "last" /\ UNCHANGED <<group, i>>
             /\ written' = Append(written, resultBits)
    <3>0. PICK q : q = i \div OctetBits
      OBVIOUS
    <3>1. /\ Len(Latest) = i + 1 /\ (i + 1) % OctetBits = 0 /\ i < Len(Cases)
          /\ resultBits = OctetOf(Latest, q * OctetBits + 1)
          /\ written = Base \o (Heading \o Octets(Latest, q))
      BY <2>7, <3>0 DEF Astray
    <3>2. /\ InGroup /\ Logged /\ log # <<>>
          /\ Started' /\ LogSelected' /\ written' \in Seq(Octet) /\ log' # <<>>
          /\ Complete(n - 1)'
          /\ Body(n - 1)' = Base
      BY <2>5, <2>7
    <3>3. /\ i \in Nat /\ log[n].group = group /\ n \in 1..Len(log) /\ Placed
      <4>1. /\ log[n].group = group /\ n \in Nat \ {0} /\ Placed
        BY <2>8, <3>2, GroupContext
      <4> QED
        BY <2>8, <4>1 DEF TypesKept
    <3>4. q \in Nat /\ (q + 1) * OctetBits = i + 1
      <4>1. /\ q \in Nat /\ i % OctetBits = OctetBits - 1
            /\ i = OctetBits * q + (i % OctetBits)
        BY <3>0, <3>1, <3>3, OctetCount
      <4> QED
        BY <3>3, <4>1, OctetBitsType
    <3>5. written' = Base \o (Heading \o Octets(Latest, q + 1))
      BY <2>7, <3>1, <3>2, <3>4, OctetToldNext
    <3>6. CasesOf(n) = Len(Cases) /\ CasesOf(n) \in Nat
      BY <3>3, EntryFacts DEF CasesOf, Cases
    <3>7. q + 1 \in 0..Width(n)
      <4>1. q + 1 \in Nat /\ (q + 1) * OctetBits <= CasesOf(n)
        BY <3>1, <3>3, <3>4, <3>6
      <4>2. /\ Width(n) \in Nat
            /\ \A m \in Nat : m * OctetBits <= CasesOf(n) => m <= Width(n)
        BY <3>6, WidthOf DEF Width
      <4> QED
        BY <4>1, <4>2
    <3>8. Latest' = Latest /\ Octets(Latest, q + 1)' = Octets(Latest, q + 1)
      <4>1. Latest' = Latest
        BY <2>3 DEF Latest
      <4> QED
        BY <4>1 DEF Octets
    <3>9. HeadingOf(n)' = Heading
      BY <2>3, <3>3 DEF HeadingOf, Heading
    <3>10. Width(n)' = Width(n)
      BY <2>3 DEF Width, CasesOf
    <3>11. (q + 1) * OctetBits <= Len(Latest')
      BY <3>1, <3>3, <3>4, <3>8
    <3>12. Starts(written', Body(n - 1)' \o (HeadingOf(n)' \o Octets(Latest, q + 1)'))
      <4>1. written' = Body(n - 1)' \o (HeadingOf(n)' \o Octets(Latest, q + 1)')
        BY <3>2, <3>5, <3>8, <3>9
      <4>2. Starts(written', written')
        BY <3>2, LenProperties DEF Starts
      <4> QED
        BY <4>1, <4>2
    <3>13. PartWritten(q + 1)'
      BY <2>9, <3>7, <3>10, <3>11, <3>12 DEF PartWritten
    <3>14. Strays'
      BY <2>9, <3>2, <3>7, <3>10, <3>13 DEF Strays
    <3> QED
      BY <3>14, StraysLaidNext
  <2> QED
    BY <2>3, <2>4, <2>6, <2>7
<1>3. CASE pc = "off"
  <2>1. ~refused
    BY <1>3 DEF Refusal
  <2>2. Place
    BY <1>3, <2>1 DEF Followed, Live
  <2>3. log = <<>> /\ written = <<>> 
    <3>1. Matches /\ Expected = <<>>
      BY <1>3, <2>1 DEF Followed, Live, Expected
    <3>2. Starts(written, <<>>) /\ written \in Seq(Octet)
      BY <3>1, MatchesStarts DEF TypesKept
    <3> QED
      BY <1>3, <2>2, <3>2, LenProperties, EmptySeq DEF Place, Starts
  <2>4. CASE UNCHANGED runner
    BY <1>1, <2>4
  <2>5. CASE ~UNCHANGED runner
    <3>1. UNCHANGED <<log, written, refused>>
      BY <1>3, <2>5
      DEF Next, RunnerStep, ReaderStep, RunnerNext, RTPrivTestRegisterGroup,
         RTTestRun, vars, output, Running, WritePreamble, EnterMark, IdOctet, EntryAction,
         TestCase, ResultOctet, LastOctet, ExitAction, ExitMark, WriteEndOfFile, Panic
    <3>2. log' = <<>> /\ written' = <<>>
      BY <2>3, <3>1
    <3>3. Len(log') = 0 /\ Len(written') = 0 /\ DOMAIN log' = {}
      BY <3>2
    <3>4. Length(0)' \in Nat
      <4>1. FourCC \in Seq(Octet) /\ FlattenSeq(<<>>) = <<>>
        BY RTTestAssumption, ReportsZero DEF Reports
      <4> QED
        BY DEF Length
    <3>5. Ends(0)'
      BY <3>3, <3>4 DEF Ends
    <3>6. LogSelected' /\ Preamble'
      BY <3>3 DEF LogSelected, Preamble, Has
    <3> QED
      BY <3>3, <3>5, <3>6 DEF Laid, Follows
  <2> QED
    BY <2>4, <2>5
<1>4. Running \/ UNCHANGED runner \/ pc = "off"
  BY DEF Next, RunnerStep, ReaderStep, RunnerNext, RTPrivTestRegisterGroup,
      RTTestRun,
         vars
<1> QED
  BY <1>1, <1>2, <1>3, <1>4

LEMMA StepLaid ==
    ASSUME Laid, Astray, Followed, Started, TypesKept, Refusal, [Next]_vars
    PROVE  ~Live' => Laid'
BY StepStrayed

LEMMA LaidInvariant == Spec => [](Laid /\ Astray)
<1> DEFINE Strayed == ~Live => Laid
<1>1. Init => Astray /\ Strayed
  BY DEF Init, RunnerInit, Astray, Live
<1>2. Followed /\ Started /\ TypesKept /\ Strayed => Laid
  BY LiveLaid DEF Followed
<1>3. Followed /\ Started /\ TypesKept /\ Refusal /\ Astray /\ Laid /\ [Next]_vars
        => Astray' /\ Strayed'
  BY StepAstray, StepLaid
<1> HIDE DEF Strayed
<1> QED
  BY <1>1, <1>2, <1>3, FollowedInvariant, StartedInvariant, TypesInvariant,
     RefusalInvariant, PTL DEF Spec

(***************************************************************************)
(* The run goes on while its report is read: nothing that was read before  *)
(* is changed.                                                             *)
(***************************************************************************)

LogGrows ==
    /\ Len(log) <= Len(log')
    /\ \A k \in 1..Len(log) :
          /\ log'[k].group = log[k].group
          /\ Starts(log[k].verdicts, log'[k].verdicts)
          /\ Len(log[k].verdicts) = CasesOf(k) => log'[k] = log[k]

Grows ==
    /\ UNCHANGED <<groups, selection>>
    /\ LogGrows
    /\ Starts(written, written')
    /\ Starts(report, report')
    /\ Starts(report', written') => Starts(report, written)
    /\ Len(report) < Len(written) => Len(report') < Len(written')
    /\ refused => refused'

LEMMA LogKeptGrows ==
    ASSUME Started, Len(log) <= Len(log'), \A k \in 1..Len(log) : log'[k] = log[k]
    PROVE  LogGrows
<1>1. ASSUME NEW k \in 1..Len(log) PROVE Starts(log[k].verdicts, log'[k].verdicts)
  <2>1. log[k] \in Entry
    BY LenProperties, ElementOfSeq DEF Started
  <2>2. Len(log[k].verdicts) \in Nat
    BY <2>1, LenProperties DEF Entry
  <2> QED
    BY <1>1, <2>2 DEF Starts
<1> QED
  BY <1>1 DEF LogGrows

LEMMA LogSameGrows ==
    ASSUME Started, UNCHANGED log
    PROVE  LogGrows
<1>1. Len(log) \in Nat
  BY LenProperties DEF Started
<1> QED
  BY <1>1, LogKeptGrows

LEMMA NextGroupGrows ==
    ASSUME Started, NEW k, NextGroup(k)
    PROVE  LogGrows
<1>1. UNCHANGED log \/ \E e : log' = Append(log, e)
  BY DEF NextGroup
<1>2. ASSUME NEW e, log' = Append(log, e) PROVE LogGrows
  <2> DEFINE S == Entry \cup {e}
  <2>1. log \in Seq(S) /\ e \in S
    BY ElementOfSeq, SeqDef, LenProperties DEF Started
  <2> HIDE DEF S
  <2>2. Len(log') = Len(log) + 1 /\ \A j \in 1..Len(log) : log'[j] = log[j]
    BY <1>2, <2>1, AppendProperties
  <2>3. Len(log) \in Nat
    BY <2>1, LenProperties
  <2> QED
    BY <2>2, <2>3, LogKeptGrows
<1> QED
  BY <1>1, <1>2, LogSameGrows

LEMMA TestCaseGrows ==
    ASSUME Followed, Started, TypesKept, Refusal, TestCase
    PROVE  LogGrows
<1>1. pc = "case" /\ InGroup
  BY DEF TestCase, InGroup
<1>2. Logged /\ Place
  BY <1>1 DEF Followed, Live, Refusal
<1> DEFINE n == Len(log)
<1>3. /\ n \in Nat \ {0} /\ DOMAIN log = 1..n /\ log[n].group = group
      /\ Latest \in Seq(Verdict) /\ Len(Latest) \in Nat
  BY <1>1, <1>2, GroupContext
<1>4. Len(Latest) = i /\ i < Len(Cases)
  BY <1>1, <1>2 DEF Place
<1>5. PICK v \in Verdict :
         log' = [log EXCEPT ![n] = [group |-> group, verdicts |-> Append(@.verdicts, v)]]
  BY DEF TestCase
<1>6. log \in Seq(Entry)
  BY DEF Started
<1> HIDE DEF n
<1>7. /\ \A k \in 1..n : k # n => log'[k] = log[k]
      /\ log'[n] = [group |-> group, verdicts |-> Append(log[n].verdicts, v)]
      /\ DOMAIN log' = 1..n
  <2> DEFINE e == [group |-> group, verdicts |-> Append(log[n].verdicts, v)]
  <2>1. log' = [log EXCEPT ![n] = e]
    BY <1>5
  <2>2. n \in DOMAIN log /\ DOMAIN log = 1..n
    BY <1>3
  <2> HIDE DEF e
  <2>3. DOMAIN log' = DOMAIN log /\ log'[n] = e
        /\ \A k \in DOMAIN log : k # n => log'[k] = log[k]
    BY <2>1, <2>2
  <2> QED
    BY <2>2, <2>3 DEF e
<1>8. Len(log') = n
  <2>1. log' = [k \in 1..n |-> log'[k]]
    BY <1>3, <1>5
  <2> DEFINE l == log'
  <2>2. l \in Seq({l[k] : k \in 1..n})
    BY <1>3, <2>1
  <2> HIDE DEF l
  <2>3. DOMAIN l = 1..Len(l) /\ Len(l) \in Nat
    BY <2>2, LenProperties
  <2> QED
    BY <1>3, <1>7, <2>3 DEF l
<1>9. ASSUME NEW k \in 1..n
      PROVE  /\ log'[k].group = log[k].group
             /\ Starts(log[k].verdicts, log'[k].verdicts)
             /\ Len(log[k].verdicts) = CasesOf(k) => log'[k] = log[k]
  <2>1. CASE k # n
    <3>1. log[k] \in Entry
      BY <1>3, <1>6, ElementOfSeq DEF n
    <3>2. Len(log[k].verdicts) \in Nat
      BY <3>1, LenProperties DEF Entry
    <3> QED
      BY <1>7, <2>1, <3>2 DEF Starts
  <2>2. CASE k = n
    <3> DEFINE a == log[n].verdicts
               b == Append(a, v)
    <3>1. a \in Seq(Verdict)
      BY <1>3 DEF Latest, n
    <3> HIDE DEF a
    <3>2. Starts(a, b)
      <4>1. /\ Len(b) = Len(a) + 1 /\ Len(a) \in Nat
            /\ \A j \in 1..Len(a) : b[j] = a[j]
        BY <3>1, AppendProperties, LenProperties
      <4> HIDE DEF b
      <4> QED
        BY <4>1 DEF Starts
    <3>3. log'[k].group = group /\ log'[k].verdicts = b
      BY <1>7, <2>2 DEF a
    <3>4. Len(a) # CasesOf(k)
      BY <1>3, <1>4, <2>2 DEF a, Latest, n, CasesOf, Cases
    <3> QED
      BY <1>3, <2>2, <3>2, <3>3, <3>4 DEF a
  <2> QED
    BY <2>1, <2>2
<1> QED
  BY <1>3, <1>8, <1>9 DEF LogGrows, n

LEMMA AppendStarts ==
    ASSUME NEW r \in Seq(Octet), NEW octet
    PROVE  Len(Append(r, octet)) = Len(r) + 1 /\ Starts(r, Append(r, octet))
<1> DEFINE S == Octet \cup {octet}
<1>1. r \in Seq(S) /\ octet \in S
  BY ElementOfSeq, SeqDef, LenProperties
<1> HIDE DEF S
<1>2. /\ Len(Append(r, octet)) = Len(r) + 1 /\ Len(r) \in Nat
      /\ \A j \in 1..Len(r) : Append(r, octet)[j] = r[j]
  BY <1>1, AppendProperties, LenProperties
<1> QED
  BY <1>2 DEF Starts

(* A gap in the output is never closed again. *)
LEMMA WroteStarts ==
    ASSUME written \in Seq(Octet), report \in Seq(Octet), Len(report) <= Len(written),
           NEW octet, NEW ok, WrOctet(octet, ok)
    PROVE  /\ Starts(written, written') /\ Starts(report, report')
           /\ Starts(report', written') => Starts(report, written)
           /\ Len(report) < Len(written) => Len(report') < Len(written')
           /\ refused => refused'
<1>1. /\ Len(written) \in Nat /\ Len(report) \in Nat
      /\ Starts(written, written) /\ Starts(report, report)
  BY LenProperties DEF Starts
<1>2. /\ \/ written' = written /\ report' = report
         \/ written' = Append(written, octet) /\ report' \in {report, Append(report, octet)}
      /\ refused => refused'
  BY DEF WrOctet
<1>3. Starts(written, written') /\ Starts(report, report')
  BY <1>1, <1>2, AppendStarts
<1>4. ASSUME Starts(report', written') PROVE Starts(report, written)
  BY <1>1, <1>3, <1>4 DEF Starts
<1>5. Len(report) < Len(written) => Len(report') < Len(written')
  BY <1>1, <1>2, AppendStarts
<1> QED
  BY <1>2, <1>3, <1>4, <1>5

LEMMA RunningGrows ==
    ASSUME Followed, Started, TypesKept, Refusal, Running
    PROVE  Grows
<1>1. UNCHANGED <<groups, selection>>
  BY DEF Running, WritePreamble, EnterMark, IdOctet, EntryAction, TestCase,
      ResultOctet,
         LastOctet, ExitAction, ExitMark, WriteEndOfFile, Panic, program
<1>2. (\E octet, ok : WrOctet(octet, ok)) \/ UNCHANGED <<written, report, refused>>
  BY DEF Running, WritePreamble, EnterMark, IdOctet, EntryAction, TestCase,
      ResultOctet,
         LastOctet, ExitAction, ExitMark, WriteEndOfFile, Panic, output
<1>3. /\ Starts(written, written') /\ Starts(report, report')
      /\ Starts(report', written') => Starts(report, written)
      /\ Len(report) < Len(written) => Len(report') < Len(written')
      /\ refused => refused'
  <2>1. Starts(written, written) /\ Starts(report, report)
    BY LenProperties DEF TypesKept, Starts
  <2> QED
    BY <1>2, <2>1, WroteStarts DEF TypesKept
<1>4. UNCHANGED log \/ TestCase \/ NextGroup(0) \/ NextGroup(group)
  BY DEF Running, WritePreamble, EnterMark, IdOctet, EntryAction, ResultOctet,
         LastOctet, ExitAction, ExitMark, WriteEndOfFile, Panic
<1>5. LogGrows
  BY <1>4, LogSameGrows, TestCaseGrows, NextGroupGrows
<1> QED
  BY <1>1, <1>3, <1>5 DEF Grows
=============================================================================
