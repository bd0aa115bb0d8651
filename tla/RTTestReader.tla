---------------------------- MODULE RTTestReader ----------------------------
(***************************************************************************)
(* The reader of a test report, rttest2text.py.  It builds a map of the    *)
(* test groups from the source files, line by line, then takes the report  *)
(* apart octet by octet and prints the test cases that failed.  The report *)
(* may still be growing (a pipe) or be a file; a read at its end is an     *)
(* error.                                                                  *)
(*                                                                         *)
(* A line of a source file is a record: "start" of a group with its id,    *)
(* which may not be a valid number, "test" with its name, "end" of a       *)
(* group; and each file begins with a line "file".  The other lines say    *)
(* nothing to the reader.                                                  *)
(***************************************************************************)
EXTENDS Powers, Sublists, SequencesExt

CONSTANTS
    OctetBits, FourCC, EnterGroup, ExitGroup, EndOfFile,
    Sources         \* what the files on the command line may hold

VARIABLES
    input, ended,   \* what the runner wrote, and whether it is all
    source,         \* the files that were read
    rttmap,         \* the names of the test cases of each group id
    at,             \* what is read next
    pos,            \* octets read so far
    gid, count,     \* the group id, and how many of its octets were read
    testno,
    failures,       \* the names printed as FAIL, in order
    verdict         \* "none", then "pass" or "fail", or "error" if it raises

files == <<source, rttmap>>
parser == <<gid, count, testno>>

Conclude(v) == at' = "stopped" /\ verdict' = v

Continue(next) == at' = next /\ UNCHANGED verdict

-----------------------------------------------------------------------------
(* MapBuilder.  b holds its groups and the locals of parse. *)

NoGroup == <<>>
NewFile(b) == [b EXCEPT !.inGroup = FALSE, !.group = NoGroup]

(* Faulty variant: a group left open goes on in the next file. *)
ParseFileLeavingOpen(b) == b

ParseFile(b) == NewFile(b)

ParseStart(b, line) ==
    IF b.inGroup \/ ~line.valid \/ line.id \in DOMAIN b.groups
    THEN [b EXCEPT !.raised = TRUE]
    ELSE [b EXCEPT !.inGroup = TRUE, !.group = [gid |-> line.id, cases |-> <<>>]]

ParseTest(b, line) ==
    IF b.inGroup THEN [b EXCEPT !.group.cases = Append(@, line.name)]
    ELSE [b EXCEPT !.raised = TRUE]

With(map, x, list) ==
    [y \in DOMAIN map \cup {x} |-> IF y = x THEN list ELSE map[y]]

(* The group joins the map when it ends. *)
ParseEnd(b) ==
    IF b.group = NoGroup THEN [b EXCEPT !.raised = TRUE]
    ELSE [b EXCEPT !.groups = With(@, b.group.gid, b.group.cases),
                   !.inGroup = FALSE]

ParseLine(b, line) ==
    IF b.raised THEN b
    ELSE CASE line.kind = "file"  -> ParseFile(b)
           [] line.kind = "start" -> ParseStart(b, line)
           [] line.kind = "test"  -> ParseTest(b, line)
           [] line.kind = "end"   -> ParseEnd(b)

NewMap ==
    [groups |-> <<>>, inGroup |-> FALSE, group |-> NoGroup, raised |-> FALSE]

MapOf(lines) ==
    LET after[n \in 0..Len(lines)] ==
            IF n = 0 THEN NewMap ELSE ParseLine(after[n - 1], lines[n])
    IN  after[Len(lines)]

(* The map is built before the report is opened, in one step with the      *)
(* start of the reader.                                                    *)
ReaderInit ==
    /\ source \in Sources
    /\ LET b == MapOf(source)
       IN  IF b.raised THEN rttmap = <<>> /\ at = "stopped" /\ verdict = "error"
           ELSE rttmap = b.groups /\ at = "fourcc" /\ verdict = "none"
    /\ pos = 0 /\ gid = 0 /\ count = 0 /\ testno = 0
    /\ failures = <<>>

-----------------------------------------------------------------------------
(* RttParser. *)

(* Faulty variant: a report without four octets is waited for. *)
FourCCWaited == Len(input) >= Len(FourCC)

(* f.read(4) returns less only at the end of the file. *)
FourCCRead == Len(input) >= Len(FourCC) \/ ended

ReadFourCC ==
    /\ at = "fourcc"
    /\ FourCCRead
    /\ IF IsPrefix(FourCC, input) THEN Continue("start") ELSE Conclude("error")
    /\ pos' = Len(FourCC)
    /\ UNCHANGED <<files, parser, failures>>

HasByte == pos < Len(input)
Byte == input[pos + 1]

Score == IF failures = <<>> THEN "pass" ELSE "fail"

(* Faulty variant: the end of the file does for the mark of the end. *)
PastEndQuietly == IF at = "start" THEN Score ELSE "error"

PastEnd == "error"

ReadPastEnd ==
    /\ at \in {"start", "id", "results", "end"}
    /\ ended /\ ~HasByte
    /\ Conclude(PastEnd)
    /\ UNCHANGED <<files, pos, parser, failures>>

ReadGroupStart ==
    /\ at = "start" /\ HasByte
    /\ CASE Byte = EndOfFile  -> Conclude(Score)
         [] Byte = EnterGroup -> Continue("id")
         [] OTHER             -> Conclude("error")
    /\ pos' = pos + 1
    /\ gid' = 0 /\ count' = 0
    /\ UNCHANGED <<files, testno, failures>>

Written(x) == Len(rttmap[x])

ReadId ==
    /\ at = "id" /\ HasByte
    /\ gid' = gid * Power(2, OctetBits) + Byte
    /\ count' = count + 1
    /\ pos' = pos + 1
    /\ testno' = 0
    /\ IF count' < 4 THEN UNCHANGED <<at, verdict>>
       ELSE IF gid' \notin DOMAIN rttmap THEN Conclude("error")
       ELSE Continue(IF Written(gid') = 0 THEN "end" ELSE "results")
    /\ UNCHANGED <<files, failures>>

(* Faulty variant: highest bit first. *)
FailsInTop(octet, b) == (octet \div Power(2, OctetBits - 1 - b)) % 2 = 1

FailsIn(octet, b) == HasBit(octet, b)

(* One octet is about at most as many test cases as it has bits, the       *)
(* lowest first.                                                           *)
Covered ==
    LET left == Written(gid) - testno
    IN  IF left < OctetBits THEN left ELSE OctetBits

FailedInOctet ==
    Picked(rttmap[gid], {k \in (testno + 1)..(testno + Covered) :
                            FailsIn(Byte, k - testno - 1)})

(* Faulty variant: one octet more when the last one is full. *)
MoreResultsAtFull(n) == n < Written(gid) \/ (n % OctetBits = 0 /\ n > testno)

MoreResults(n) == n < Written(gid)

ReadResults ==
    /\ at = "results" /\ HasByte
    /\ testno' = testno + Covered
    /\ failures' = failures \o FailedInOctet
    /\ Continue(IF MoreResults(testno') THEN "results" ELSE "end")
    /\ pos' = pos + 1
    /\ UNCHANGED <<files, gid, count>>

ReadGroupEnd ==
    /\ at = "end" /\ HasByte
    /\ IF Byte = ExitGroup THEN Continue("start") ELSE Conclude("error")
    /\ pos' = pos + 1
    /\ UNCHANGED <<files, parser, failures>>

ReaderNext ==
    \/ ReadFourCC \/ ReadPastEnd \/ ReadGroupStart \/ ReadId
    \/ ReadResults \/ ReadGroupEnd

-----------------------------------------------------------------------------
(* What the source files declare. *)

Between(k, n, kinds) == \E j \in (k + 1)..(n - 1) : source[j].kind \in kinds

(* The line of the group's start, and that of its end. *)
Declaration(k, n) ==
    /\ k < n /\ source[k].kind = "start" /\ source[n].kind = "end"
    /\ ~Between(k, n, {"file", "start", "end"})

Declared(x) ==
    \E k, n \in DOMAIN source : Declaration(k, n) /\ source[k].id = x

CasesBetween(k, n) ==
    LET tests == Picked(source, {j \in k..n : source[j].kind = "test"})
    IN  [j \in DOMAIN tests |-> tests[j].name]

Orderly(n) ==
    LET open(kinds) == \E k \in 1..(n - 1) :
                          source[k].kind = "start" /\ ~Between(k, n, kinds)
    IN  CASE source[n].kind = "start" ->
               /\ source[n].valid
               /\ ~open({"file", "end"})
               /\ ~\E k, e \in 1..(n - 1) :
                      Declaration(k, e) /\ source[k].id = source[n].id
          [] source[n].kind = "test" -> open({"file", "end"})
          [] source[n].kind = "end"  -> open({"file"})
          [] OTHER -> TRUE

(* Each group between its start and its end in one file is in the map with *)
(* its test cases in order, and no other; a file with a group inside       *)
(* another, an id that is taken or no number, or a test case outside a     *)
(* group is refused (rttest2text.py:75-125).                               *)
MapIsDeclared ==
    pos = 0 =>
        IF \A n \in DOMAIN source : Orderly(n)
        THEN /\ \A x \in DOMAIN rttmap : Declared(x)
             /\ \A k, n \in DOMAIN source :
                   Declaration(k, n) =>
                      /\ source[k].id \in DOMAIN rttmap
                      /\ rttmap[source[k].id] = CasesBetween(k, n)
        ELSE verdict = "error"
=============================================================================
