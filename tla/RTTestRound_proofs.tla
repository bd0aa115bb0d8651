------------------------- MODULE RTTestRound_proofs -------------------------
(***************************************************************************)
(* Proofs about the reader of a report: the map it makes of the source     *)
(* files, whatever they hold, and its verdict on the report of any run.    *)
(***************************************************************************)
EXTENDS RTTest_proofs

(***************************************************************************)
(* The elements picked out of a list.                                      *)
(***************************************************************************)

(* What the recursion of Picked computes. *)
Picks(f, list, places, S) ==
    /\ f \in [0..Len(list) -> Seq(S)]
    /\ f[0] = <<>>
    /\ \A n \in 0..(Len(list) - 1) :
          f[n + 1] = IF n + 1 \in places THEN Append(f[n], list[n + 1]) ELSE f[n]

LEMMA PickedPicks ==
    ASSUME NEW S, NEW list \in Seq(S), NEW places
    PROVE  \E f : Picks(f, list, places, S) /\ Picked(list, places) = f[Len(list)]
<1> DEFINE N == Len(list)
           Fixed(f) == f = [n \in 0..N |->
                              IF n = 0 THEN <<>>
                              ELSE IF n \in places THEN Append(f[n - 1], list[n])
                              ELSE f[n - 1]]
           chosen == CHOOSE f : Fixed(f)
           step == [n \in Nat |-> [v \in Seq(S) |->
                       IF n + 1 <= N /\ n + 1 \in places
                       THEN Append(v, list[n + 1]) ELSE v]]
<1>1. N \in Nat /\ \A n \in 1..N : list[n] \in S
  BY LenProperties, ElementOfSeq
<1>2. Picked(list, places) = chosen[N]
  BY DEF Picked
<1> HIDE DEF N
<1>3. \E g : Iterates(g, Seq(S), <<>>, step)
  <2>1. <<>> \in Seq(S)
    BY EmptySeq
  <2>2. ASSUME NEW n \in Nat, NEW v \in Seq(S)
        PROVE  (IF n + 1 <= N /\ n + 1 \in places
                THEN Append(v, list[n + 1]) ELSE v) \in Seq(S)
    <3>1. CASE n + 1 <= N
      <4>1. list[n + 1] \in S
        BY <1>1, <3>1
      <4> QED
        BY <3>1, <4>1, AppendProperties
    <3> QED
      BY <3>1
  <2>3. step \in [Nat -> [Seq(S) -> Seq(S)]]
    BY <2>2
  <2> HIDE DEF step
  <2> DEFINE base == <<>>
  <2>4. base \in Seq(S)
    BY <2>1
  <2> HIDE DEF base
  <2>5. \E g : Iterates(g, Seq(S), base, step)
    BY <2>3, <2>4, Recursion
  <2> QED
    BY <2>5 DEF base
<1>4. PICK g : /\ g \in [Nat -> Seq(S)] /\ g[0] = <<>>
               /\ \A n \in Nat : g[n + 1] = step[n][g[n]]
  BY <1>3 DEF Iterates
<1> DEFINE h == [n \in 0..N |-> g[n]]
<1>5. ASSUME NEW n \in 0..N, n # 0
      PROVE  h[n] = IF n \in places THEN Append(h[n - 1], list[n]) ELSE h[n - 1]
  <2>1. n - 1 \in Nat /\ (n - 1) + 1 = n /\ n - 1 \in 0..N
    BY <1>1, <1>5
  <2>2. g[n - 1] \in Seq(S)
    BY <1>4, <2>1
  <2>3. g[n] = IF n \in places THEN Append(g[n - 1], list[n]) ELSE g[n - 1]
    <3>1. g[(n - 1) + 1] = step[n - 1][g[n - 1]]
      BY <1>4, <2>1
    <3>2. g[n] = step[n - 1][g[n - 1]]
      BY <2>1, <3>1
    <3>3. n <= N
      BY <1>1
    <3> QED
      BY <2>1, <2>2, <3>2, <3>3
  <2> QED
    BY <2>1, <2>3
<1>6. Fixed(h)
  BY <1>1, <1>4, <1>5
<1>7. Fixed(chosen)
  <2> HIDE DEF Fixed
  <2> QED
    BY <1>6
<1> HIDE DEF chosen
<1>8. /\ chosen[0] = <<>>
      /\ \A n \in 1..N : chosen[n] = IF n \in places THEN Append(chosen[n - 1], list[n])
                                     ELSE chosen[n - 1]
  <2>1. \A n \in 0..N : chosen[n] = IF n = 0 THEN <<>>
                                    ELSE IF n \in places THEN Append(chosen[n - 1], list[n])
                                    ELSE chosen[n - 1]
    BY <1>7
  <2>2. 0 \in 0..N /\ \A n \in 1..N : n \in 0..N /\ n # 0
    BY <1>1
  <2> QED
    BY <2>1, <2>2
<1>9. \A n \in 0..N : chosen[n] \in Seq(S)
  <2> DEFINE T == {n \in 0..N : chosen[n] \in Seq(S)}
  <2>1. 0 \in T
    <3>1. <<>> \in Seq(S) /\ 0 \in 0..N
      BY <1>1, EmptySeq
    <3>2. chosen[0] \in Seq(S)
      BY <1>8, <3>1
    <3> QED
      BY <3>1, <3>2
  <2>2. ASSUME NEW n \in 0..(N - 1), n \in T PROVE n + 1 \in T
    <3>1. n + 1 \in 1..N /\ (n + 1) - 1 = n /\ list[n + 1] \in S
      BY <1>1
    <3>2. chosen[n + 1] = IF n + 1 \in places THEN Append(chosen[n], list[n + 1])
                          ELSE chosen[n]
      BY <1>8, <3>1
    <3>3. chosen[n] \in Seq(S) /\ n + 1 \in 0..N
      BY <1>1, <2>2
    <3>4. Append(chosen[n], list[n + 1]) \in Seq(S)
      BY <3>1, <3>3, AppendProperties
    <3>5. chosen[n + 1] \in Seq(S)
      BY <3>2, <3>3, <3>4
    <3> QED
      BY <3>3, <3>5
  <2> HIDE DEF T
  <2>3. \A n \in 0..N : n \in T
    BY <1>1, <2>1, <2>2, IntervalInduction
  <2> QED
    BY <2>3 DEF T
<1>10. ASSUME NEW n \in 0..(N - 1)
       PROVE  chosen[n + 1] = IF n + 1 \in places THEN Append(chosen[n], list[n + 1])
                              ELSE chosen[n]
  <2>1. n + 1 \in 1..N /\ (n + 1) - 1 = n
    BY <1>1
  <2> QED
    BY <1>8, <2>1
<1>11. chosen \in [0..N -> Seq(S)]
  BY <1>7, <1>9
<1>12. Picks(chosen, list, places, S)
  BY <1>8, <1>10, <1>11 DEF Picks, N
<1> QED
  BY <1>2, <1>12 DEF N

LEMMA PickedType ==
    ASSUME NEW S, NEW list \in Seq(S), NEW places
    PROVE  Picked(list, places) \in Seq(S)
<1>1. PICK f : Picks(f, list, places, S) /\ Picked(list, places) = f[Len(list)]
  BY PickedPicks
<1>2. Len(list) \in 0..Len(list)
  BY LenProperties
<1> QED
  BY <1>1, <1>2 DEF Picks

LEMMA PickedNone ==
    ASSUME NEW S, NEW list \in Seq(S), NEW places,
           \A n \in 1..Len(list) : n \notin places
    PROVE  Picked(list, places) = <<>>
<1> DEFINE N == Len(list)
<1>1. N \in Nat
  BY LenProperties
<1>2. PICK f : Picks(f, list, places, S) /\ Picked(list, places) = f[Len(list)]
  BY PickedPicks
<1> HIDE DEF N
<1> DEFINE T == {n \in 0..N : f[n] = <<>>}
<1>3. 0 \in T
  BY <1>1, <1>2 DEF Picks
<1>4. ASSUME NEW n \in 0..(N - 1), n \in T PROVE n + 1 \in T
  <2>1. n + 1 \in 1..N /\ n + 1 \in 0..N
    BY <1>1
  <2>2. n + 1 \notin places
    BY <2>1 DEF N
  <2>3. f[n + 1] = f[n]
    BY <1>2, <2>2 DEF Picks, N
  <2> QED
    BY <1>4, <2>1, <2>3
<1> HIDE DEF T
<1>5. \A n \in 0..N : n \in T
  BY <1>1, <1>3, <1>4, IntervalInduction
<1>6. N \in T
  BY <1>1, <1>5
<1> QED
  BY <1>2, <1>6 DEF T, N

LEMMA PickedOne ==
    ASSUME NEW S, NEW list \in Seq(S), NEW x \in 1..Len(list)
    PROVE  Picked(list, {x}) = <<list[x]>>
<1> DEFINE N == Len(list)
           empty == <<>>
           one == <<list[x]>>
<1>1. N \in Nat /\ x \in 1..N
  BY LenProperties
<1>2. PICK f : Picks(f, list, {x}, S) /\ Picked(list, {x}) = f[Len(list)]
  BY PickedPicks
<1>3. /\ f[0] = empty
      /\ \A n \in 0..(N - 1) :
            f[n + 1] = IF n + 1 = x THEN Append(f[n], list[n + 1]) ELSE f[n]
  BY <1>2 DEF Picks
<1>4. Append(empty, list[x]) = one
  OBVIOUS
<1> HIDE DEF N, empty, one
<1> DEFINE T == {n \in 0..N : f[n] = IF n < x THEN empty ELSE one}
<1>5. 0 \in T
  BY <1>1, <1>3
<1>6. ASSUME NEW n \in 0..(N - 1), n \in T PROVE n + 1 \in T
  <2>1. n + 1 \in 0..N /\ n \in 0..N
    BY <1>1
  <2>2. f[n] = IF n < x THEN empty ELSE one
    BY <1>6
  <2>3. f[n + 1] = IF n + 1 = x THEN Append(f[n], list[n + 1]) ELSE f[n]
    BY <1>3
  <2>4. CASE n + 1 = x
    <3>1. n < x /\ ~(n + 1 < x)
      BY <1>1, <2>1, <2>4
    <3>2. f[n + 1] = Append(empty, list[x])
      BY <2>2, <2>3, <2>4, <3>1
    <3> QED
      BY <1>4, <2>1, <3>1, <3>2
  <2>5. CASE n + 1 # x
    <3>1. n < x <=> n + 1 < x
      BY <1>1, <2>1, <2>5
    <3> QED
      BY <2>1, <2>2, <2>3, <2>5, <3>1
  <2> QED
    BY <2>4, <2>5
<1> HIDE DEF T
<1>7. \A n \in 0..N : n \in T
  BY <1>1, <1>5, <1>6, IntervalInduction
<1>8. N \in T /\ ~(N < x)
  BY <1>1, <1>7
<1>9. f[N] = one
  BY <1>8 DEF T
<1> QED
  BY <1>2, <1>9 DEF N, one

(* What is picked at some places, then what is picked behind them.         *)
LEMMA PickedSplit ==
    ASSUME NEW S, NEW list \in Seq(S), NEW A \in SUBSET Nat, NEW B \in SUBSET Nat,
           \A a \in A, b \in B : a < b
    PROVE  Picked(list, A \cup B) = Picked(list, A) \o Picked(list, B)
<1> DEFINE N == Len(list)
<1>1. N \in Nat /\ \A n \in 1..N : list[n] \in S
  BY LenProperties, ElementOfSeq
<1>2. PICK f : Picks(f, list, A \cup B, S) /\ Picked(list, A \cup B) = f[N]
  BY PickedPicks
<1>3. PICK g : Picks(g, list, A, S) /\ Picked(list, A) = g[N]
  BY PickedPicks
<1>4. PICK h : Picks(h, list, B, S) /\ Picked(list, B) = h[N]
  BY PickedPicks
<1>5. /\ f[0] = <<>> /\ g[0] = <<>> /\ h[0] = <<>>
      /\ \A n \in 0..N : g[n] \in Seq(S) /\ h[n] \in Seq(S)
      /\ \A n \in 0..(N - 1) :
            /\ f[n + 1] = IF n + 1 \in A \cup B THEN Append(f[n], list[n + 1]) ELSE f[n]
            /\ g[n + 1] = IF n + 1 \in A THEN Append(g[n], list[n + 1]) ELSE g[n]
            /\ h[n + 1] = IF n + 1 \in B THEN Append(h[n], list[n + 1]) ELSE h[n]
  BY <1>2, <1>3, <1>4 DEF Picks
<1> HIDE DEF N
<1> DEFINE T == {n \in 0..N : f[n] = g[n] \o h[n]
                            /\ ((\E a \in A : n <= a) => h[n] = <<>>)}
<1>6. 0 \in T
  <2>1. 0 \in 0..N
    BY <1>1
  <2>2. g[0] \in Seq(S)
    BY <1>5, <2>1
  <2>3. g[0] \o <<>> = g[0]
    BY <2>2, ConcatEmptySeq
  <2> QED
    BY <1>5, <2>1, <2>3
<1>7. ASSUME NEW n \in 0..(N - 1), n \in T PROVE n + 1 \in T
  <2>1. n \in 0..N /\ n + 1 \in 0..N /\ n + 1 \in Nat /\ list[n + 1] \in S
    BY <1>1
  <2>2. g[n] \in Seq(S) /\ h[n] \in Seq(S) /\ g[n + 1] \in Seq(S)
    BY <1>5, <2>1
  <2>3. f[n] = g[n] \o h[n] /\ ((\E a \in A : n <= a) => h[n] = <<>>)
    BY <1>7
  <2>4. CASE n + 1 \in A
    <3>1. (\E a \in A : n <= a) /\ n + 1 \notin B
      BY <2>1, <2>4
    <3>2. h[n] = <<>> /\ h[n + 1] = <<>>
      BY <1>5, <2>3, <3>1
    <3>3. f[n] = g[n]
      BY <2>2, <2>3, <3>2, ConcatEmptySeq
    <3>4. f[n + 1] = g[n + 1]
      BY <1>5, <2>4, <3>3
    <3>5. f[n + 1] = g[n + 1] \o h[n + 1]
      BY <2>2, <3>2, <3>4, ConcatEmptySeq
    <3> QED
      BY <2>1, <3>2, <3>5
  <2>5. CASE n + 1 \in B
    <3>1. ~(\E a \in A : n + 1 <= a) /\ n + 1 \notin A
      BY <2>1, <2>5
    <3>2. /\ f[n + 1] = Append(g[n] \o h[n], list[n + 1])
          /\ g[n + 1] = g[n] /\ h[n + 1] = Append(h[n], list[n + 1])
      BY <1>5, <2>3, <2>5, <3>1
    <3> DEFINE a == g[n]
               b == h[n]
               x == list[n + 1]
    <3>3. a \in Seq(S) /\ b \in Seq(S) /\ x \in S
      BY <2>1, <2>2
    <3> HIDE DEF a, b, x
    <3>4. a \o Append(b, x) = Append(a \o b, x)
      BY <3>3, ConcatAppend
    <3> QED
      BY <2>1, <3>1, <3>2, <3>4 DEF a, b, x
  <2>6. CASE n + 1 \notin A /\ n + 1 \notin B
    <3>1. f[n + 1] = f[n] /\ g[n + 1] = g[n] /\ h[n + 1] = h[n]
      BY <1>5, <2>6
    <3>2. (\E a \in A : n + 1 <= a) => (\E a \in A : n <= a)
      BY <2>1
    <3> QED
      BY <2>1, <2>3, <3>1, <3>2
  <2> QED
    BY <2>4, <2>5, <2>6
<1> HIDE DEF T
<1>8. \A n \in 0..N : n \in T
  BY <1>1, <1>6, <1>7, IntervalInduction
<1>9. N \in T
  BY <1>1, <1>8
<1> QED
  BY <1>2, <1>3, <1>4, <1>9 DEF T

LEMMA PickedNext ==
    ASSUME NEW S, NEW list \in Seq(S), NEW x \in 1..Len(list), NEW A \in SUBSET Nat,
           \A k \in A : k < x
    PROVE  Picked(list, A \cup {x}) = Append(Picked(list, A), list[x])
<1> DEFINE B == {x}
<1>1. B \in SUBSET Nat /\ \A a \in A, b \in B : a < b
  BY LenProperties
<1>2. Picked(list, B) = <<list[x]>>
  BY PickedOne
<1> HIDE DEF B
<1>3. Picked(list, A \cup B) = Picked(list, A) \o Picked(list, B)
  BY <1>1, PickedSplit
<1>4. Picked(list, A) \in Seq(S)
  BY PickedType
<1>5. list[x] \in S
  BY ElementOfSeq
<1>6. Picked(list, A) \o <<list[x]>> = Append(Picked(list, A), list[x])
  BY <1>4, <1>5, AppendIsConcat
<1> QED
  BY <1>2, <1>3, <1>6 DEF B

LEMMA PickedSome ==
    ASSUME NEW S, NEW list \in Seq(S), NEW places \in SUBSET Nat,
           NEW x \in 1..Len(list), x \in places
    PROVE  Picked(list, places) # <<>>
<1> DEFINE A == {k \in places : k < x}
           B == {k \in places : k > x}
           C == A \cup {x}
<1>1. x \in Nat
  BY LenProperties
<1>2. A \in SUBSET Nat /\ \A k \in A : k < x
  OBVIOUS
<1> HIDE DEF A
<1>3. Picked(list, C) = Append(Picked(list, A), list[x])
  BY <1>2, PickedNext
<1>4. \A k \in Nat : k \in places <=> k \in C \cup B
  BY <1>1 DEF A
<1>5. C \in SUBSET Nat /\ B \in SUBSET Nat
  BY <1>1, <1>2
<1>6. ASSUME NEW a \in C, NEW b \in B PROVE a < b
  <2>1. a \in Nat /\ b \in Nat /\ b > x /\ (a = x \/ a < x)
    BY <1>1, <1>2
  <2> QED
    BY <1>1, <2>1
<1>7. list[x] \in S
  BY ElementOfSeq
<1> HIDE DEF B, C
<1>8. places = C \cup B
  BY <1>4, <1>5
<1>9. Picked(list, C \cup B) = Picked(list, C) \o Picked(list, B)
  BY <1>5, <1>6, PickedSplit
<1>10. Picked(list, A) \in Seq(S) /\ Picked(list, B) \in Seq(S) /\ Picked(list, C) \in Seq(S)
  BY PickedType
<1>11. Len(Picked(list, C)) = Len(Picked(list, A)) + 1
  BY <1>3, <1>7, <1>10, AppendProperties
<1>12. Len(Picked(list, places)) = Len(Picked(list, C)) + Len(Picked(list, B))
  BY <1>8, <1>9, <1>10, ConcatProperties
<1> QED
  BY <1>10, <1>11, <1>12, LenProperties, EmptySeq

(***************************************************************************)
(* The map of the source files.                                            *)
(***************************************************************************)

LineNames == {source[n].name : n \in DOMAIN source}
LineIds == {source[n].id : n \in DOMAIN source}

Lines ==
    /\ source \in Seq(ToSet(source))
    /\ \A n \in DOMAIN source :
          source[n].kind \in {"file", "start", "test", "end"}

Maps == UNION {[D -> Seq(LineNames)] : D \in SUBSET LineIds}

SomeGroup == [gid : LineIds, cases : Seq(LineNames)]

Builder ==
    {b \in [groups : Maps, inGroup : BOOLEAN, group : {<<>>} \cup SomeGroup,
            raised : BOOLEAN] :
        b.inGroup => b.group \in SomeGroup}

(* A group that joins the map. *)
LEMMA Joined ==
    ASSUME NEW m \in Maps, NEW x \in LineIds, NEW list \in Seq(LineNames)
    PROVE  /\ Reader!With(m, x, list) \in Maps
           /\ DOMAIN Reader!With(m, x, list) = DOMAIN m \cup {x}
           /\ Reader!With(m, x, list)[x] = list
           /\ \A y \in DOMAIN m : y # x => Reader!With(m, x, list)[y] = m[y]
<1> DEFINE new == Reader!With(m, x, list)
<1>1. PICK D \in SUBSET LineIds : m \in [D -> Seq(LineNames)]
  BY DEF Maps
<1>2. new = [y \in D \cup {x} |-> IF y = x THEN list ELSE m[y]]
  BY <1>1 DEF Reader!With
<1> HIDE DEF new
<1>3. new \in [D \cup {x} -> Seq(LineNames)] /\ D \cup {x} \in SUBSET LineIds
  BY <1>1, <1>2
<1>4. new \in Maps
  BY <1>3 DEF Maps
<1>5. DOMAIN new = DOMAIN m \cup {x}
  BY <1>1, <1>2
<1>6. new[x] = list /\ \A y \in DOMAIN m : y # x => new[y] = m[y]
  BY <1>1, <1>2
<1> QED
  BY <1>4, <1>5, <1>6 DEF new

LEMMA GroupIsSome ==
    ASSUME NEW g \in SomeGroup
    PROVE  g # <<>>
<1>1. DOMAIN g = {"gid", "cases"}
  BY DEF SomeGroup
<1>2. DOMAIN <<>> = {}
  OBVIOUS
<1> QED
  BY <1>1, <1>2

LEMMA ParseLineType ==
    ASSUME Lines, NEW n \in DOMAIN source, NEW b \in Builder
    PROVE  Reader!ParseLine(b, source[n]) \in Builder
<1> DEFINE line == source[n]
<1>1. /\ line.kind \in {"file", "start", "test", "end"}
      /\ line.kind = "start" => line.id \in LineIds
      /\ line.kind = "test" => line.name \in LineNames
  BY DEF Lines, LineIds, LineNames
<1> HIDE DEF line
<1>2. CASE b.raised
  BY <1>2 DEF Reader!ParseLine
<1>3. CASE ~b.raised /\ line.kind = "file"
  <2>1. Reader!ParseLine(b, line) = [b EXCEPT !.inGroup = FALSE, !.group = <<>>]
    BY <1>3 DEF Reader!ParseLine, Reader!ParseFile, Reader!NewFile, Reader!NoGroup
  <2> QED
    BY <2>1 DEF line, Builder
<1>4. CASE ~b.raised /\ line.kind = "start"
  <2>1. Reader!ParseLine(b, line) = Reader!ParseStart(b, line)
    BY <1>4 DEF Reader!ParseLine
  <2>2. <<>> \in Seq(LineNames)
    BY EmptySeq
  <2>3. [gid |-> line.id, cases |-> <<>>] \in SomeGroup
    BY <1>1, <1>4, <2>2 DEF SomeGroup
  <2> QED
    BY <2>1, <2>3 DEF line, Builder, Reader!ParseStart
<1>5. CASE ~b.raised /\ line.kind = "test"
  <2>1. Reader!ParseLine(b, line) = Reader!ParseTest(b, line)
    BY <1>5 DEF Reader!ParseLine
  <2>2. b.group \in SomeGroup =>
           [b.group EXCEPT !.cases = Append(b.group.cases, line.name)] \in SomeGroup
    BY <1>1, <1>5, AppendProperties DEF SomeGroup
  <2> QED
    BY <2>1, <2>2 DEF line, Builder, Reader!ParseTest
<1>6. CASE ~b.raised /\ line.kind = "end"
  <2>1. Reader!ParseLine(b, line) = Reader!ParseEnd(b)
    BY <1>6 DEF Reader!ParseLine
  <2>2. ASSUME b.group # <<>>
        PROVE  Reader!With(b.groups, b.group.gid, b.group.cases) \in Maps
    <3>1. b.groups \in Maps /\ b.group \in SomeGroup
      BY <2>2 DEF Builder
    <3>2. b.group.gid \in LineIds /\ b.group.cases \in Seq(LineNames)
      BY <3>1 DEF SomeGroup
    <3> QED
      BY <3>1, <3>2, Joined
  <2> QED
    BY <2>1, <2>2 DEF line, Builder, Reader!ParseEnd, Reader!NoGroup
<1> QED
  BY <1>1, <1>2, <1>3, <1>4, <1>5, <1>6 DEF line

(* What the recursion of MapOf computes. *)
Parses(f) ==
    /\ f \in [0..Len(source) -> Builder]
    /\ f[0] = Reader!NewMap
    /\ \A n \in 0..(Len(source) - 1) :
          f[n + 1] = Reader!ParseLine(f[n], source[n + 1])

LEMMA MapOfParses ==
    ASSUME Lines
    PROVE  \E f : Parses(f) /\ Reader!MapOf(source) = f[Len(source)]
<1> DEFINE N == Len(source)
           Fixed(f) == f = [n \in 0..N |->
                              IF n = 0 THEN Reader!NewMap
                              ELSE Reader!ParseLine(f[n - 1], source[n])]
           chosen == CHOOSE f : Fixed(f)
           step == [n \in Nat |-> [v \in Builder |->
                       IF n + 1 <= N THEN Reader!ParseLine(v, source[n + 1]) ELSE v]]
<1>1. N \in Nat /\ DOMAIN source = 1..N
  BY LenProperties DEF Lines
<1>2. Reader!MapOf(source) = chosen[N]
  BY DEF Reader!MapOf
<1>3. Reader!NewMap \in Builder
  <2> DEFINE none == <<>>
  <2>1. none = [y \in {} |-> none]
    OBVIOUS
  <2> HIDE DEF none
  <2>2. none \in [{} -> Seq(LineNames)]
    BY <2>1
  <2>3. none \in Maps
    BY <2>2 DEF Maps
  <2> QED
    BY <2>3 DEF none, Builder, Reader!NewMap, Reader!NoGroup
<1> HIDE DEF N
<1>4. \E g : Iterates(g, Builder, Reader!NewMap, step)
  <2>1. ASSUME NEW n \in Nat, NEW v \in Builder
        PROVE  (IF n + 1 <= N THEN Reader!ParseLine(v, source[n + 1]) ELSE v) \in Builder
    <3>1. CASE n + 1 <= N
      <4>1. n + 1 \in DOMAIN source
        BY <1>1, <3>1
      <4> QED
        BY <3>1, <4>1, ParseLineType
    <3> QED
      BY <3>1
  <2>2. step \in [Nat -> [Builder -> Builder]]
    BY <2>1
  <2> HIDE DEF step
  <2> QED
    BY <1>3, <2>2, Recursion
<1>5. PICK g : /\ g \in [Nat -> Builder] /\ g[0] = Reader!NewMap
               /\ \A n \in Nat : g[n + 1] = step[n][g[n]]
  BY <1>4 DEF Iterates
<1> DEFINE h == [n \in 0..N |-> g[n]]
<1>6. ASSUME NEW n \in 0..N, n # 0
      PROVE  h[n] = Reader!ParseLine(h[n - 1], source[n])
  <2>1. n - 1 \in Nat /\ (n - 1) + 1 = n /\ n - 1 \in 0..N /\ n <= N
    BY <1>1, <1>6
  <2>2. g[(n - 1) + 1] = step[n - 1][g[n - 1]]
    BY <1>5, <2>1
  <2>3. g[n - 1] \in Builder
    BY <1>5, <2>1
  <2>4. step[n - 1][g[n - 1]] = Reader!ParseLine(g[n - 1], source[n])
    BY <2>1, <2>3
  <2> QED
    BY <2>1, <2>2, <2>4
<1>7. Fixed(h)
  BY <1>1, <1>5, <1>6
<1>8. Fixed(chosen)
  <2> HIDE DEF Fixed
  <2> QED
    BY <1>7
<1> HIDE DEF chosen
<1>9. \A n \in 0..N : chosen[n] = IF n = 0 THEN Reader!NewMap
                                  ELSE Reader!ParseLine(chosen[n - 1], source[n])
  BY <1>8
<1>10. chosen[0] = Reader!NewMap
  <2>1. 0 \in 0..N
    BY <1>1
  <2> QED
    BY <1>9, <2>1
<1>11. ASSUME NEW n \in 0..(N - 1)
       PROVE  chosen[n + 1] = Reader!ParseLine(chosen[n], source[n + 1])
  <2>1. n + 1 \in 0..N /\ n + 1 # 0 /\ (n + 1) - 1 = n
    BY <1>1
  <2> QED
    BY <1>9, <2>1
<1>12. \A n \in 0..N : chosen[n] \in Builder
  <2> DEFINE T == {n \in 0..N : chosen[n] \in Builder}
  <2>1. 0 \in T
    BY <1>1, <1>3, <1>10
  <2>2. ASSUME NEW n \in 0..(N - 1), n \in T PROVE n + 1 \in T
    <3>1. n + 1 \in DOMAIN source /\ n + 1 \in 0..N /\ chosen[n] \in Builder
      BY <1>1, <2>2
    <3>2. Reader!ParseLine(chosen[n], source[n + 1]) \in Builder
      BY <3>1, ParseLineType
    <3> QED
      BY <1>11, <3>1, <3>2
  <2> HIDE DEF T
  <2>3. \A n \in 0..N : n \in T
    BY <1>1, <2>1, <2>2, IntervalInduction
  <2> QED
    BY <2>3 DEF T
<1>13. chosen \in [0..N -> Builder]
  BY <1>8, <1>12
<1>14. Parses(chosen)
  BY <1>10, <1>11, <1>13 DEF Parses, N
<1> QED
  BY <1>2, <1>14 DEF N

(* The start of a group and none of these lines since. *)
Opens(k, n, kinds) ==
    /\ source[k].kind = "start"
    /\ ~\E j \in (k + 1)..n : source[j].kind \in kinds

Open(n, kinds) == \E k \in 1..n : Opens(k, n, kinds)

LEMMA OpensNext ==
    ASSUME NEW n \in Nat, NEW kinds
    PROVE  /\ \A k \in 1..n : Opens(k, n + 1, kinds)
                                <=> Opens(k, n, kinds) /\ source[n + 1].kind \notin kinds
           /\ Opens(n + 1, n + 1, kinds) <=> source[n + 1].kind = "start"
           /\ Open(n + 1, kinds)
                 <=> \/ source[n + 1].kind = "start"
                     \/ Open(n, kinds) /\ source[n + 1].kind \notin kinds
<1>1. ASSUME NEW k \in 1..n
      PROVE  Opens(k, n + 1, kinds)
                <=> Opens(k, n, kinds) /\ source[n + 1].kind \notin kinds
  <2>1. \A j : j \in (k + 1)..(n + 1) <=> j \in (k + 1)..n \/ j = n + 1
    OBVIOUS
  <2> QED
    BY <2>1 DEF Opens
<1>2. Opens(n + 1, n + 1, kinds) <=> source[n + 1].kind = "start"
  <2>1. \A j \in (n + 1 + 1)..(n + 1) : FALSE
    OBVIOUS
  <2> QED
    BY <2>1 DEF Opens
<1>3. \A k : k \in 1..(n + 1) <=> k \in 1..n \/ k = n + 1
  OBVIOUS
<1>4. Open(n + 1, kinds) <=> (\E k \in 1..n : Opens(k, n + 1, kinds))
                             \/ Opens(n + 1, n + 1, kinds)
  BY <1>3 DEF Open
<1> QED
  BY <1>1, <1>2, <1>4 DEF Open

LEMMA OrderlyIs ==
    ASSUME NEW n \in Nat
    PROVE  /\ source[n + 1].kind = "file" => Reader!Orderly(n + 1)
           /\ source[n + 1].kind = "test" =>
                 (Reader!Orderly(n + 1) <=> Open(n, {"file", "end"}))
           /\ source[n + 1].kind = "end" =>
                 (Reader!Orderly(n + 1) <=> Open(n, {"file"}))
           /\ source[n + 1].kind = "start" =>
                 (Reader!Orderly(n + 1) <=>
                    /\ source[n + 1].valid
                    /\ ~Open(n, {"file", "end"})
                    /\ ~\E k, e \in 1..n : /\ Reader!Declaration(k, e)
                                           /\ source[k].id = source[n + 1].id)
<1>1. (n + 1) - 1 = n
  OBVIOUS
<1> QED
  BY <1>1 DEF Reader!Orderly, Reader!Between, Open, Opens

LEMMA DeclarationFacts ==
    /\ \A k, e \in Nat : Reader!Declaration(k, e) =>
          k < e /\ source[k].kind = "start" /\ source[e].kind = "end"
    /\ \A n \in Nat : \A k \in 1..n :
          Reader!Declaration(k, n + 1) <=>
             source[n + 1].kind = "end" /\ Opens(k, n, {"file", "start", "end"})
    /\ \A k, e, d \in Nat :
          Reader!Declaration(k, e) /\ Reader!Declaration(k, d) => e = d
    /\ \A n \in Nat : \A k, e \in 1..n :
          Reader!Declaration(k, e) => ~Opens(k, n, {"file", "start", "end"})
    /\ \A n \in Nat : \A k, e, h \in 1..n :
          Reader!Declaration(k, e) /\ Opens(h, n, {"file", "start"}) /\ k # h
             => k < h /\ e < h
<1>1. \A k, e \in Nat : Reader!Declaration(k, e) =>
         k < e /\ source[k].kind = "start" /\ source[e].kind = "end"
  BY DEF Reader!Declaration
<1>2. ASSUME NEW n \in Nat, NEW k \in 1..n
      PROVE  Reader!Declaration(k, n + 1) <=>
                source[n + 1].kind = "end" /\ Opens(k, n, {"file", "start", "end"})
  <2>1. (n + 1) - 1 = n /\ k < n + 1
    OBVIOUS
  <2> QED
    BY <2>1 DEF Reader!Declaration, Reader!Between, Opens
<1>3. ASSUME NEW k \in Nat, NEW e \in Nat, NEW d \in Nat,
             Reader!Declaration(k, e), Reader!Declaration(k, d), e < d
      PROVE  FALSE
  <2>1. e \in (k + 1)..(d - 1) /\ source[e].kind = "end"
    BY <1>1, <1>3
  <2> QED
    BY <1>3, <2>1 DEF Reader!Declaration, Reader!Between
<1>4. ASSUME NEW n \in Nat, NEW k \in 1..n, NEW e \in 1..n, Reader!Declaration(k, e)
      PROVE  ~Opens(k, n, {"file", "start", "end"})
  <2>1. e \in (k + 1)..n /\ source[e].kind = "end"
    BY <1>1, <1>4
  <2> QED
    BY <2>1 DEF Opens
<1>5. ASSUME NEW n \in Nat, NEW k \in 1..n, NEW e \in 1..n, NEW h \in 1..n,
             Reader!Declaration(k, e), Opens(h, n, {"file", "start"}), k # h
      PROVE  k < h /\ e < h
  <2>1. k < e /\ source[k].kind = "start" /\ source[e].kind = "end"
    BY <1>1, <1>5
  <2>2. source[h].kind = "start"
    BY <1>5 DEF Opens
  <2>3. ~(k > h)
    <3> SUFFICES ASSUME k > h PROVE FALSE
      OBVIOUS
    <3>1. k \in (h + 1)..n
      OBVIOUS
    <3> QED
      BY <1>5, <2>1, <3>1 DEF Opens
  <2>4. ~(e > h)
    <3> SUFFICES ASSUME e > h PROVE FALSE
      OBVIOUS
    <3>1. h \in (k + 1)..(e - 1)
      BY <1>5, <2>3
    <3> QED
      BY <1>5, <2>2, <3>1 DEF Reader!Declaration, Reader!Between
  <2> QED
    BY <1>5, <2>1, <2>2, <2>3, <2>4
<1>6. \A k, e, d \in Nat :
         Reader!Declaration(k, e) /\ Reader!Declaration(k, d) => e = d
  <2> TAKE k, e, d \in Nat
  <2> QED
    BY <1>3
<1> QED
  BY <1>1, <1>2, <1>4, <1>5, <1>6

LEMMA ReaderPicks ==
    \A list, places : Reader!Picked(list, places) = Picked(list, places)
BY DEF Reader!Picked, Picked

(* The test cases as the lines go by.                                      *)
LEMMA CasesNext ==
    ASSUME Lines, NEW n \in 0..(Len(source) - 1), NEW k \in 1..n
    PROVE  Reader!CasesBetween(k, n + 1)
              = IF source[n + 1].kind = "test"
                THEN Append(Reader!CasesBetween(k, n), source[n + 1].name)
                ELSE Reader!CasesBetween(k, n)
<1> DEFINE A == {j \in k..n : source[j].kind = "test"}
           B == {j \in k..(n + 1) : source[j].kind = "test"}
           S == ToSet(source)
           s == Picked(source, A)
           x == source[n + 1]
<1>1. Len(source) \in Nat /\ n \in Nat /\ k \in Nat /\ n + 1 \in 1..Len(source)
  BY LenProperties DEF Lines
<1>2. source \in Seq(S)
  BY DEF Lines
<1>3. \A j : j \in k..(n + 1) <=> j \in k..n \/ j = n + 1
  BY <1>1
<1>4. A \in SUBSET Nat /\ \A j \in A : j < n + 1
  BY <1>1
<1>5. CASE source[n + 1].kind = "test"
  <2>1. \A j : j \in B <=> j \in A \cup {n + 1}
    BY <1>3, <1>5
  <2> HIDE DEF A, B
  <2>2. B = A \cup {n + 1}
    BY <2>1
  <2> HIDE DEF S
  <2>3. Picked(source, A \cup {n + 1}) = Append(s, x)
    BY <1>1, <1>2, <1>4, PickedNext
  <2>4. s \in Seq(S) /\ x \in S
    BY <1>1, <1>2, PickedType, ElementOfSeq
  <2> HIDE DEF s
  <2>5. /\ Len(Append(s, x)) = Len(s) + 1 /\ Len(s) \in Nat
        /\ DOMAIN s = 1..Len(s) /\ DOMAIN Append(s, x) = 1..(Len(s) + 1)
        /\ \A j \in 1..Len(s) : Append(s, x)[j] = s[j]
        /\ Append(s, x)[Len(s) + 1] = x
    BY <2>4, AppendProperties, LenProperties
  <2> DEFINE t == [j \in DOMAIN s |-> s[j].name]
             u == [j \in DOMAIN Append(s, x) |-> Append(s, x)[j].name]
             N == {s[j].name : j \in DOMAIN s} \cup {x.name}
  <2>6. t \in Seq(N) /\ Len(t) = Len(s) /\ x.name \in N
    BY <2>5, IsASeq, LenProperties
  <2>7. u \in Seq(N) /\ Len(u) = Len(s) + 1
    <3>1. \A j \in 1..(Len(s) + 1) : Append(s, x)[j].name \in N
      BY <2>5
    <3> DEFINE m == Len(s) + 1
               e == Append(s, x)
    <3>2. m \in Nat /\ DOMAIN e = 1..m /\ \A j \in 1..m : e[j].name \in N
      BY <2>5, <3>1
    <3> HIDE DEF m, e, N
    <3>3. [j \in DOMAIN e |-> e[j].name] = [j \in 1..m |-> e[j].name]
      BY <3>2
    <3>4. [j \in 1..m |-> e[j].name] \in Seq(N)
      BY <3>2, IsASeq
    <3>5. Len([j \in 1..m |-> e[j].name]) = m
      BY <3>2, <3>4, LenProperties
    <3> QED
      BY <3>3, <3>4, <3>5 DEF m, e
  <2>8. \A j \in 1..Len(s) : u[j] = t[j]
    BY <2>5
  <2>9. u[Len(s) + 1] = x.name
    BY <2>5
  <2>10. /\ Append(t, x.name) \in Seq(N) /\ Len(Append(t, x.name)) = Len(s) + 1
         /\ \A j \in 1..Len(s) : Append(t, x.name)[j] = t[j]
         /\ Append(t, x.name)[Len(s) + 1] = x.name
    BY <2>6, AppendProperties
  <2>11. Reader!CasesBetween(k, n) = t
    BY ReaderPicks DEF Reader!CasesBetween, s, A
  <2>12. Reader!CasesBetween(k, n + 1) = u
    <3>1. Picked(source, B) = Append(s, x)
      BY <2>2, <2>3
    <3> QED
      BY <3>1, ReaderPicks DEF Reader!CasesBetween, B
  <2> HIDE DEF t, u, N, x
  <2>13. \A j \in 1..(Len(s) + 1) : u[j] = Append(t, x.name)[j]
    <3> TAKE j \in 1..(Len(s) + 1)
    <3>1. j \in 1..Len(s) \/ j = Len(s) + 1
      BY <2>5
    <3> QED
      BY <2>8, <2>9, <2>10, <3>1
  <2>14. u = Append(t, x.name)
    BY <2>7, <2>10, <2>13, SeqEqual
  <2> QED
    BY <1>5, <2>11, <2>12, <2>14 DEF x
<1>6. CASE source[n + 1].kind # "test"
  <2>1. \A j : j \in B <=> j \in A
    BY <1>3, <1>6
  <2> HIDE DEF A, B
  <2>2. B = A
    BY <2>1
  <2> QED
    BY <1>6, <2>2 DEF A, B, Reader!CasesBetween
<1> QED
  BY <1>5, <1>6

LEMMA CasesStart ==
    ASSUME Lines, NEW n \in 1..Len(source), source[n].kind = "start"
    PROVE  Reader!CasesBetween(n, n) = <<>>
<1> DEFINE A == {j \in n..n : source[j].kind = "test"}
<1>1. n \in Nat
  BY LenProperties DEF Lines
<1>2. \A j : j \notin A
  BY <1>1
<1> HIDE DEF A
<1>3. Picked(source, A) = <<>>
  BY <1>2, PickedNone DEF Lines
<1> DEFINE p == Reader!Picked(source, A)
<1>4. p = <<>>
  BY <1>3, ReaderPicks
<1>5. Reader!CasesBetween(n, n) = [j \in DOMAIN p |-> p[j].name]
  BY DEF A, Reader!CasesBetween
<1> HIDE DEF p
<1>6. [j \in DOMAIN p |-> p[j].name] = <<>>
  BY <1>4
<1> QED
  BY <1>5, <1>6

(* What the builder knows of the first n lines. *)
OpenGroup(b, k, n) ==
    /\ b.group \in SomeGroup /\ b.group.gid = source[k].id
    /\ \/ /\ b.inGroup /\ Opens(k, n, {"file", "start", "end"})
          /\ b.group.cases = Reader!CasesBetween(k, n)
       \/ /\ ~b.inGroup
          /\ \E e \in 1..n : /\ Reader!Declaration(k, e)
                             /\ b.group.cases = Reader!CasesBetween(k, e)

Places(b, n) ==
    /\ b.inGroup <=> Open(n, {"file", "end"})
    /\ b.group # <<>> <=> Open(n, {"file"})
    /\ b.group # <<>> => Open(n, {"file", "start"})
    /\ \A k \in 1..n : Opens(k, n, {"file", "start"}) => OpenGroup(b, k, n)

Mapped(b, n) ==
    /\ \A k, e \in 1..n : Reader!Declaration(k, e) =>
          /\ source[k].id \in DOMAIN b.groups
          /\ b.groups[source[k].id] = Reader!CasesBetween(k, e)
    /\ \A x \in DOMAIN b.groups :
          \E k, e \in 1..n : Reader!Declaration(k, e) /\ source[k].id = x

AllOrderly(n) == \A j \in 1..n : Reader!Orderly(j)

ReadSoFar(b, n) ==
    /\ b.raised <=> ~AllOrderly(n)
    /\ ~b.raised => Places(b, n) /\ Mapped(b, n)

LEMMA AllOrderlyNext ==
    ASSUME NEW n \in Nat
    PROVE  AllOrderly(n + 1) <=> AllOrderly(n) /\ Reader!Orderly(n + 1)
<1>1. \A j : j \in 1..(n + 1) <=> j \in 1..n \/ j = n + 1
  OBVIOUS
<1> QED
  BY <1>1 DEF AllOrderly

(* A line that ends no group declares none. *)
LEMMA MappedSame ==
    ASSUME Lines, NEW n \in 0..(Len(source) - 1), NEW b, NEW c, Mapped(b, n),
           c.groups = b.groups, source[n + 1].kind # "end"
    PROVE  Mapped(c, n + 1)
<1>1. n \in Nat
  OBVIOUS
<1>2. \A k \in 1..(n + 1), e \in 1..(n + 1) :
         Reader!Declaration(k, e) <=> k \in 1..n /\ e \in 1..n /\ Reader!Declaration(k, e)
  <2> TAKE k \in 1..(n + 1), e \in 1..(n + 1)
  <2>1. (k \in 1..n \/ k = n + 1) /\ (e \in 1..n \/ e = n + 1) /\ k \in Nat /\ e \in Nat
    BY <1>1
  <2>2. Reader!Declaration(k, e) => k < e /\ source[e].kind = "end"
    BY <2>1, DeclarationFacts
  <2> QED
    BY <1>1, <2>1, <2>2
<1>3. \A j \in 1..n : j \in 1..(n + 1)
  BY <1>1
<1> QED
  BY <1>2, <1>3 DEF Mapped

LEMMA ReadFile ==
    ASSUME Lines, NEW n \in 0..(Len(source) - 1), NEW b \in Builder,
           ~b.raised, ReadSoFar(b, n), source[n + 1].kind = "file"
    PROVE  ReadSoFar(Reader!ParseFile(b), n + 1)
<1> DEFINE c == Reader!ParseFile(b)
<1>1. /\ ~c.raised /\ ~c.inGroup /\ c.group = <<>> /\ c.groups = b.groups
  BY DEF Builder, Reader!ParseFile, Reader!NewFile, Reader!NoGroup
<1> HIDE DEF c
<1>2. n \in Nat
  OBVIOUS
<1>3. AllOrderly(n + 1)
  BY <1>2, AllOrderlyNext, OrderlyIs DEF ReadSoFar
<1>4. Mapped(c, n + 1)
  BY <1>1, MappedSame DEF ReadSoFar
<1>5. ~Open(n + 1, {"file", "end"}) /\ ~Open(n + 1, {"file"}) /\ ~Open(n + 1, {"file", "start"})
  <2>1. ASSUME NEW kinds, "file" \in kinds PROVE ~Open(n + 1, kinds)
    BY <1>2, <2>1, OpensNext, SMTT(30)
  <2> QED
    BY <2>1
<1>6. Places(c, n + 1)
  BY <1>1, <1>5 DEF Places, Open
<1> QED
  BY <1>1, <1>3, <1>4, <1>6 DEF ReadSoFar, c

LEMMA ReadStart ==
    ASSUME Lines, NEW n \in 0..(Len(source) - 1), NEW b \in Builder,
           ~b.raised, ReadSoFar(b, n), source[n + 1].kind = "start"
    PROVE  ReadSoFar(Reader!ParseStart(b, source[n + 1]), n + 1)
<1> DEFINE c == Reader!ParseStart(b, source[n + 1])
           x == source[n + 1].id
<1>1. n \in Nat /\ n + 1 \in 1..(n + 1) /\ n + 1 \in DOMAIN source
  BY LenProperties DEF Lines
<1>2. /\ AllOrderly(n + 1) <=> Reader!Orderly(n + 1)
      /\ Places(b, n) /\ Mapped(b, n)
  BY <1>1, AllOrderlyNext DEF ReadSoFar
<1>3. x \in DOMAIN b.groups
         <=> \E k, e \in 1..n : Reader!Declaration(k, e) /\ source[k].id = x
  BY <1>2 DEF Mapped
<1>4. Reader!Orderly(n + 1) <=> ~b.inGroup /\ source[n + 1].valid /\ x \notin DOMAIN b.groups
  BY <1>1, <1>2, <1>3, OrderlyIs DEF Places
<1>5. CASE b.inGroup \/ ~source[n + 1].valid \/ x \in DOMAIN b.groups
  <2>1. c.raised
    BY <1>5 DEF Builder, Reader!ParseStart
  <2> QED
    BY <1>2, <1>4, <1>5, <2>1 DEF ReadSoFar
<1>6. CASE ~b.inGroup /\ source[n + 1].valid /\ x \notin DOMAIN b.groups
  <2>1. /\ ~c.raised /\ c.inGroup /\ c.groups = b.groups
        /\ c.group = [gid |-> x, cases |-> <<>>]
    BY <1>6 DEF Builder, Reader!ParseStart
  <2> HIDE DEF c
  <2>2. c.group \in SomeGroup /\ c.group.gid = x /\ c.group.cases = <<>>
    <3>1. x \in LineIds /\ <<>> \in Seq(LineNames)
      BY <1>1, EmptySeq DEF LineIds
    <3> QED
      BY <2>1, <3>1 DEF SomeGroup
  <2>3. Mapped(c, n + 1)
    BY <1>2, <2>1, MappedSame
  <2>4. Open(n + 1, {"file", "end"}) /\ Open(n + 1, {"file"}) /\ Open(n + 1, {"file", "start"})
    BY <1>1, OpensNext
  <2>5. ASSUME NEW k \in 1..(n + 1), Opens(k, n + 1, {"file", "start"})
        PROVE  OpenGroup(c, k, n + 1)
    <3>1. k \notin 1..n
      BY <1>1, <2>5, OpensNext
    <3>2. k = n + 1
      BY <1>1, <3>1
    <3>3. Opens(n + 1, n + 1, {"file", "start", "end"})
      BY <1>1, OpensNext
    <3>4. Reader!CasesBetween(n + 1, n + 1) = <<>>
      BY <1>1, CasesStart, LenProperties DEF Lines
    <3> QED
      BY <2>1, <2>2, <3>2, <3>3, <3>4 DEF OpenGroup
  <2>6. c.group # <<>>
    BY <2>2, GroupIsSome
  <2>7. Places(c, n + 1)
    BY <2>1, <2>4, <2>5, <2>6 DEF Places
  <2> QED
    BY <1>2, <1>4, <1>6, <2>1, <2>3, <2>7 DEF ReadSoFar, c
<1> QED
  BY <1>5, <1>6

LEMMA ReadTest ==
    ASSUME Lines, NEW n \in 0..(Len(source) - 1), NEW b \in Builder,
           ~b.raised, ReadSoFar(b, n), source[n + 1].kind = "test"
    PROVE  ReadSoFar(Reader!ParseTest(b, source[n + 1]), n + 1)
<1> DEFINE c == Reader!ParseTest(b, source[n + 1])
           name == source[n + 1].name
<1>1. n \in Nat /\ n + 1 \in DOMAIN source
  BY LenProperties DEF Lines
<1>2. /\ AllOrderly(n + 1) <=> Reader!Orderly(n + 1)
      /\ Places(b, n) /\ Mapped(b, n)
  BY <1>1, AllOrderlyNext DEF ReadSoFar
<1>3. Reader!Orderly(n + 1) <=> b.inGroup
  BY <1>1, <1>2, OrderlyIs DEF Places
<1>4. CASE ~b.inGroup
  <2>1. c.raised
    BY <1>4 DEF Builder, Reader!ParseTest
  <2> QED
    BY <1>2, <1>3, <1>4, <2>1 DEF ReadSoFar
<1>5. CASE b.inGroup
  <2>1. /\ ~c.raised /\ c.inGroup /\ c.groups = b.groups
        /\ c.group = [b.group EXCEPT !.cases = Append(b.group.cases, name)]
        /\ b.group \in SomeGroup
    BY <1>5 DEF Builder, Reader!ParseTest
  <2> HIDE DEF c
  <2>2. /\ c.group \in SomeGroup /\ c.group.gid = b.group.gid
        /\ c.group.cases = Append(b.group.cases, name)
    <3>1. name \in LineNames
      BY <1>1 DEF LineNames
    <3>2. b.group.cases \in Seq(LineNames) /\ b.group.gid \in LineIds
      BY <2>1 DEF SomeGroup
    <3> DEFINE list == Append(b.group.cases, name)
    <3>3. list \in Seq(LineNames)
      BY <3>1, <3>2, AppendProperties
    <3> HIDE DEF list
    <3>4. c.group = [gid |-> b.group.gid, cases |-> list]
      BY <2>1 DEF list, SomeGroup
    <3> QED
      BY <3>2, <3>3, <3>4 DEF list, SomeGroup
  <2>3. Mapped(c, n + 1)
    BY <1>2, <2>1, MappedSame
  <2>4. ASSUME NEW kinds, "test" \notin kinds
        PROVE  /\ Open(n + 1, kinds) <=> Open(n, kinds)
               /\ \A k \in 1..(n + 1) : Opens(k, n + 1, kinds) => k \in 1..n /\ Opens(k, n, kinds)
               /\ \A k \in 1..n : Opens(k, n, kinds) => Opens(k, n + 1, kinds)
    <3>1. \A k \in 1..(n + 1) : k \in 1..n \/ k = n + 1
      BY <1>1
    <3> QED
      BY <1>1, <2>4, <3>1, OpensNext
  <2>5. c.group # <<>> /\ b.group # <<>>
    BY <2>1, <2>2, GroupIsSome
  <2>6. /\ Open(n + 1, {"file", "end"}) <=> Open(n, {"file", "end"})
        /\ Open(n + 1, {"file"}) <=> Open(n, {"file"})
        /\ Open(n + 1, {"file", "start"}) <=> Open(n, {"file", "start"})
    BY <2>4
  <2>7. ASSUME NEW k \in 1..(n + 1), Opens(k, n + 1, {"file", "start"})
        PROVE  OpenGroup(c, k, n + 1)
    <3>1. k \in 1..n /\ Opens(k, n, {"file", "start"})
      BY <2>4, <2>7
    <3>2. OpenGroup(b, k, n)
      BY <1>2, <3>1 DEF Places
    <3>3. Opens(k, n, {"file", "start", "end"}) /\ b.group.cases = Reader!CasesBetween(k, n)
      BY <1>5, <3>2 DEF OpenGroup
    <3>4. Opens(k, n + 1, {"file", "start", "end"})
      BY <2>4, <3>1, <3>3
    <3>5. c.group.cases = Reader!CasesBetween(k, n + 1)
      BY <2>2, <3>1, <3>3, CasesNext
    <3> QED
      BY <2>1, <2>2, <3>2, <3>4, <3>5 DEF OpenGroup
  <2>8. Places(c, n + 1)
    BY <1>2, <1>5, <2>1, <2>5, <2>6, <2>7 DEF Places
  <2> QED
    BY <1>2, <1>3, <1>5, <2>1, <2>3, <2>8 DEF ReadSoFar, c
<1> QED
  BY <1>4, <1>5

LEMMA ReadEnd ==
    ASSUME Lines, NEW n \in 0..(Len(source) - 1), NEW b \in Builder,
           ~b.raised, ReadSoFar(b, n), source[n + 1].kind = "end"
    PROVE  ReadSoFar(Reader!ParseEnd(b), n + 1)
<1> DEFINE c == Reader!ParseEnd(b)
<1>1. n \in Nat /\ n + 1 \in DOMAIN source
  BY LenProperties DEF Lines
<1>2. /\ AllOrderly(n + 1) <=> AllOrderly(n) /\ Reader!Orderly(n + 1)
      /\ AllOrderly(n) /\ Places(b, n) /\ Mapped(b, n)
  BY <1>1, AllOrderlyNext DEF ReadSoFar
<1>3. Reader!Orderly(n + 1) <=> b.group # <<>>
  BY <1>1, <1>2, OrderlyIs DEF Places
<1>4. CASE b.group = <<>>
  <2>1. c.raised
    BY <1>4 DEF Builder, Reader!ParseEnd, Reader!NoGroup
  <2> QED
    BY <1>2, <1>3, <1>4, <2>1 DEF ReadSoFar
<1>5. CASE b.group # <<>>
  <2> DEFINE x == b.group.gid
             list == b.group.cases
             m == b.groups
  <2>1. /\ ~c.raised /\ ~c.inGroup /\ c.group = b.group
        /\ c.groups = Reader!With(m, x, list)
    BY <1>5 DEF Builder, Reader!ParseEnd, Reader!NoGroup
  <2>2. b.group \in SomeGroup /\ m \in Maps
    BY <1>5 DEF Builder
  <2>3. x \in LineIds /\ list \in Seq(LineNames)
    BY <2>2 DEF SomeGroup
  <2> HIDE DEF c, x, list, m
  <2>4. /\ DOMAIN c.groups = DOMAIN m \cup {x}
        /\ c.groups[x] = list
        /\ \A y \in DOMAIN m : y # x => c.groups[y] = m[y]
    <3> DEFINE w == Reader!With(m, x, list)
    <3>1. /\ w \in Maps
          /\ DOMAIN w = DOMAIN m \cup {x}
          /\ w[x] = list
          /\ \A y \in DOMAIN m : y # x => w[y] = m[y]
      BY <2>2, <2>3, Joined, ZenonT(30)
    <3> HIDE DEF w
    <3>2. c.groups = w
      BY <2>1 DEF w
    <3> QED
      BY <3>1, <3>2
  <2>5. PICK h \in 1..n : Opens(h, n, {"file", "start"})
    BY <1>2, <1>5 DEF Places, Open
  <2>6. OpenGroup(b, h, n)
    BY <1>2, <2>5 DEF Places
  <2>7. x = source[h].id
    BY <2>6 DEF OpenGroup, x
  \* The declaration of the group that ends here, or has ended before.
  <2>8. PICK d \in 1..(n + 1) : Reader!Declaration(h, d) /\ list = Reader!CasesBetween(h, d)
    <3>1. CASE b.inGroup
      <4>1. Opens(h, n, {"file", "start", "end"}) /\ list = Reader!CasesBetween(h, n)
        BY <2>6, <3>1 DEF OpenGroup, list
      <4>2. Reader!Declaration(h, n + 1)
        BY <1>1, <4>1, DeclarationFacts
      <4>3. Reader!CasesBetween(h, n + 1) = Reader!CasesBetween(h, n)
        BY CasesNext
      <4>4. n + 1 \in 1..(n + 1)
        BY <1>1
      <4> QED
        BY <4>1, <4>2, <4>3, <4>4
    <3>2. CASE ~b.inGroup
      <4>1. PICK e \in 1..n : Reader!Declaration(h, e) /\ list = Reader!CasesBetween(h, e)
        BY <2>6, <3>2 DEF OpenGroup, list
      <4>2. e \in 1..(n + 1)
        BY <1>1
      <4> QED
        BY <4>1, <4>2
    <3> QED
      BY <3>1, <3>2
  <2>9. ASSUME NEW k \in 1..(n + 1), NEW e \in 1..(n + 1), Reader!Declaration(k, e)
        PROVE  /\ source[k].id \in DOMAIN c.groups
               /\ c.groups[source[k].id] = Reader!CasesBetween(k, e)
    <3>4. k \in Nat /\ e \in Nat /\ d \in Nat
      BY <1>1
    <3>1. k \in Nat /\ e \in Nat /\ d \in Nat /\ k < e
      BY <2>9, <3>4, DeclarationFacts
    <3>2. CASE k = h
      <4>1. e = d
        BY <2>8, <2>9, <3>1, <3>2, DeclarationFacts
      <4> QED
        BY <2>4, <2>7, <2>8, <3>2, <4>1
    <3>3. CASE k # h
      <4>1. k \in 1..n
        BY <1>1, <3>1
      <4>2. e \in 1..n
        <5>1. CASE e = n + 1
          <6>1. Opens(k, n, {"file", "start", "end"})
            BY <1>1, <2>9, <4>1, <5>1, DeclarationFacts
          <6>2. source[k].kind = "start" /\ source[h].kind = "start"
            BY <2>5, <6>1 DEF Opens
          <6>3. ~(k < h) /\ ~(h < k)
            <7>1. ASSUME k < h PROVE FALSE
              <8>1. h \in (k + 1)..n
                BY <1>1, <3>1, <7>1
              <8> QED
                BY <6>1, <6>2, <8>1 DEF Opens
            <7>2. ASSUME h < k PROVE FALSE
              <8>1. k \in (h + 1)..n
                BY <1>1, <4>1, <7>2
              <8> QED
                BY <2>5, <6>2, <8>1 DEF Opens
            <7> QED
              BY <7>1, <7>2
          <6> QED
            BY <1>1, <3>3, <4>1, <6>3
        <5> QED
          BY <1>1, <5>1
      <4>3. k < h /\ e < h
        BY <1>1, <2>5, <2>9, <3>3, <4>1, <4>2, DeclarationFacts
      <4>4. source[k].id # source[h].id
        <5> SUFFICES ASSUME source[k].id = source[h].id PROVE FALSE
          OBVIOUS
        <5> DEFINE p == h - 1
        <5>1. p \in Nat /\ p + 1 = h /\ k \in 1..p /\ e \in 1..p
          BY <1>1, <4>1, <4>2, <4>3
        <5> HIDE DEF p
        <5>2. Reader!Orderly(p + 1) /\ source[p + 1].kind = "start"
          BY <1>2, <2>5, <5>1 DEF AllOrderly, Opens
        <5> QED
          BY <2>9, <5>1, <5>2, OrderlyIs
      <4>5. source[k].id \in DOMAIN m /\ m[source[k].id] = Reader!CasesBetween(k, e)
        BY <1>2, <2>9, <4>1, <4>2 DEF Mapped, m
      <4> QED
        BY <2>4, <2>7, <4>4, <4>5
    <3> QED
      BY <3>2, <3>3
  <2>10. ASSUME NEW y \in DOMAIN c.groups
         PROVE  \E k, e \in 1..(n + 1) : Reader!Declaration(k, e) /\ source[k].id = y
    <3>0. \A k \in 1..n : k \in 1..(n + 1)
      BY <1>1
    <3>1. CASE y = x
      BY <2>7, <2>8, <3>0, <3>1
    <3>2. CASE y \in DOMAIN m
      <4>1. PICK k \in 1..n, e \in 1..n : Reader!Declaration(k, e) /\ source[k].id = y
        BY <1>2, <3>2 DEF Mapped, m
      <4> QED
        BY <3>0, <4>1
    <3> QED
      BY <2>4, <3>1, <3>2
  <2>11. Mapped(c, n + 1)
    BY <2>9, <2>10 DEF Mapped
  <2>12. /\ ~Open(n + 1, {"file", "end"})
         /\ Open(n + 1, {"file"}) <=> Open(n, {"file"})
         /\ Open(n + 1, {"file", "start"}) <=> Open(n, {"file", "start"})
    <3>1. ~Open(n + 1, {"file", "end"})
      BY <1>1, OpensNext, SMTT(30)
    <3>2. ASSUME NEW kinds, "end" \notin kinds PROVE Open(n + 1, kinds) <=> Open(n, kinds)
      BY <1>1, <3>2, OpensNext
    <3> QED
      BY <3>1, <3>2
  <2>13. ASSUME NEW k \in 1..(n + 1), Opens(k, n + 1, {"file", "start"})
         PROVE  OpenGroup(c, k, n + 1)
    <3>1. k # n + 1
      BY <1>1, <2>13, OpensNext
    <3>2. k \in 1..n
      BY <1>1, <3>1
    <3>3. Opens(k, n, {"file", "start"})
      BY <1>1, <2>13, <3>2, OpensNext
    <3>4. k = h
      <4>1. source[k].kind = "start" /\ source[h].kind = "start"
        BY <2>5, <3>3 DEF Opens
      <4>2. ASSUME k < h PROVE FALSE
        <5>1. h \in (k + 1)..n
          BY <1>1, <3>2, <4>2
        <5> QED
          BY <3>3, <4>1, <5>1 DEF Opens
      <4>3. ASSUME h < k PROVE FALSE
        <5>1. k \in (h + 1)..n
          BY <1>1, <3>2, <4>3
        <5> QED
          BY <2>5, <4>1, <5>1 DEF Opens
      <4> QED
        BY <1>1, <3>2, <4>2, <4>3
    <3> QED
      BY <2>1, <2>2, <2>7, <2>8, <3>4 DEF OpenGroup, x, list
  <2>14. Places(c, n + 1)
    BY <1>2, <2>1, <2>12, <2>13 DEF Places
  <2> QED
    BY <1>2, <1>3, <1>5, <2>1, <2>11, <2>14 DEF ReadSoFar, c
<1> QED
  BY <1>4, <1>5

LEMMA MapRead ==
    ASSUME Lines
    PROVE  Reader!MapOf(source) \in Builder /\ ReadSoFar(Reader!MapOf(source), Len(source))
<1> DEFINE N == Len(source)
<1>1. N \in Nat /\ DOMAIN source = 1..N
  BY LenProperties DEF Lines
<1>2. PICK f : Parses(f) /\ Reader!MapOf(source) = f[Len(source)]
  BY MapOfParses
<1>3. /\ \A n \in 0..N : f[n] \in Builder
      /\ f[0] = Reader!NewMap
      /\ \A n \in 0..(N - 1) : f[n + 1] = Reader!ParseLine(f[n], source[n + 1])
  BY <1>2 DEF Parses
<1> DEFINE T == {n \in 0..N : ReadSoFar(f[n], n)}
<1>4. 0 \in T
  <2> DEFINE b == Reader!NewMap
  <2>1. ~b.raised /\ ~b.inGroup /\ b.group = <<>> /\ b.groups = <<>>
    BY DEF Reader!NewMap, Reader!NoGroup
  <2> HIDE DEF b
  <2>2. \A k : k \notin 1..0
    OBVIOUS
  <2>3. DOMAIN b.groups = {}
    BY <2>1
  <2>4. AllOrderly(0) /\ Places(b, 0) /\ Mapped(b, 0)
    BY <2>1, <2>2, <2>3 DEF AllOrderly, Places, Mapped, Open
  <2>5. ReadSoFar(b, 0)
    BY <2>1, <2>4 DEF ReadSoFar
  <2> QED
    BY <1>1, <1>3, <2>5 DEF b
<1>5. ASSUME NEW n \in 0..(N - 1), n \in T PROVE n + 1 \in T
  <2> DEFINE b == f[n]
             line == source[n + 1]
  <2>1. n \in 0..N /\ n + 1 \in 0..N /\ n + 1 \in DOMAIN source /\ n \in Nat
    BY <1>1
  <2>2. b \in Builder /\ ReadSoFar(b, n) /\ n \in 0..(Len(source) - 1)
    BY <1>3, <1>5, <2>1
  <2>3. f[n + 1] = Reader!ParseLine(b, line)
    BY <1>3
  <2>4. line.kind \in {"file", "start", "test", "end"}
    BY <2>1 DEF Lines
  <2> HIDE DEF b, line, N
  <2>5. ReadSoFar(f[n + 1], n + 1)
    <3>1. CASE b.raised
      <4>1. f[n + 1] = b
        BY <2>3, <3>1 DEF Reader!ParseLine
      <4> QED
        BY <2>1, <2>2, <3>1, <4>1, AllOrderlyNext DEF ReadSoFar
    <3>2. CASE ~b.raised /\ line.kind = "file"
      BY <2>2, <2>3, <3>2, ReadFile DEF Reader!ParseLine, line
    <3>3. CASE ~b.raised /\ line.kind = "start"
      BY <2>2, <2>3, <3>3, ReadStart DEF Reader!ParseLine, line
    <3>4. CASE ~b.raised /\ line.kind = "test"
      BY <2>2, <2>3, <3>4, ReadTest DEF Reader!ParseLine, line
    <3>5. CASE ~b.raised /\ line.kind = "end"
      BY <2>2, <2>3, <3>5, ReadEnd DEF Reader!ParseLine, line
    <3> QED
      BY <2>4, <3>1, <3>2, <3>3, <3>4, <3>5
  <2> QED
    BY <2>1, <2>5
<1> HIDE DEF T
<1>6. \A n \in 0..N : n \in T
  BY <1>1, <1>4, <1>5, IntervalInduction
<1>7. N \in T /\ N \in 0..N
  BY <1>1, <1>6
<1> QED
  BY <1>2, <1>3, <1>7 DEF T, N

MapKept ==
    /\ MapIsDeclared
    /\ at \notin {"fourcc", "stopped"} => pos \in Nat \ {0}

LEMMA InitMap ==
    ASSUME Init
    PROVE  Lines /\ MapKept
<1> DEFINE b == Reader!MapOf(source)
<1>1. Lines
  BY SourcesAssumption DEF Init, Reader!ReaderInit, Lines
<1>2. b \in Builder /\ ReadSoFar(b, Len(source)) /\ DOMAIN source = 1..Len(source)
  BY <1>1, MapRead, LenProperties DEF Lines
<1>3. IF b.raised THEN rttmap = <<>> /\ at = "stopped" /\ verdict = "error"
      ELSE rttmap = b.groups /\ at = "fourcc" /\ verdict = "none"
  BY DEF Init, Reader!ReaderInit
<1> HIDE DEF b
<1>4. CASE b.raised
  <2>1. ~\A n \in DOMAIN source : Reader!Orderly(n)
    BY <1>2, <1>4 DEF ReadSoFar, AllOrderly
  <2> QED
    BY <1>1, <1>3, <1>4, <2>1 DEF MapKept, MapIsDeclared, Reader!MapIsDeclared
<1>5. CASE ~b.raised
  <2>1. Mapped(b, Len(source)) /\ \A n \in DOMAIN source : Reader!Orderly(n)
    BY <1>2, <1>5 DEF ReadSoFar, AllOrderly
  <2>2. \A x \in DOMAIN rttmap : Reader!Declared(x)
    BY <1>2, <1>3, <1>5, <2>1 DEF Mapped, Reader!Declared
  <2>3. \A k, n \in DOMAIN source :
           Reader!Declaration(k, n) =>
              /\ source[k].id \in DOMAIN rttmap
              /\ rttmap[source[k].id] = Reader!CasesBetween(k, n)
    BY <1>2, <1>3, <1>5, <2>1 DEF Mapped
  <2> QED
    BY <1>1, <1>3, <1>5, <2>1, <2>2, <2>3
    DEF MapKept, MapIsDeclared, Reader!MapIsDeclared
<1> QED
  BY <1>4, <1>5

LEMMA StepMap ==
    ASSUME MapKept, [Next]_vars
    PROVE  MapKept'
<1>1. CASE UNCHANGED reader
  BY <1>1
  DEF reader, MapKept, MapIsDeclared, Reader!MapIsDeclared, Reader!Orderly,
      Reader!Between, Reader!Declaration, Reader!Declared, Reader!CasesBetween
<1>2. CASE Reader!ReaderNext
  <2>1. pos' \in Nat \ {0}
    <3>1. CASE Reader!ReadFourCC
      BY <3>1, RTTestAssumption DEF Reader!ReadFourCC
    <3>2. CASE Reader!ReadPastEnd
      BY <3>2 DEF Reader!ReadPastEnd, MapKept
    <3>3. CASE Reader!ReadGroupStart
      BY <3>3 DEF Reader!ReadGroupStart, MapKept
    <3>4. CASE Reader!ReadId
      BY <3>4 DEF Reader!ReadId, MapKept
    <3>5. CASE Reader!ReadResults
      BY <3>5 DEF Reader!ReadResults, MapKept
    <3>6. CASE Reader!ReadGroupEnd
      BY <3>6 DEF Reader!ReadGroupEnd, MapKept
    <3> QED
      BY <1>2, <3>1, <3>2, <3>3, <3>4, <3>5, <3>6 DEF Reader!ReaderNext
  <2> QED
    BY <2>1 DEF MapKept, MapIsDeclared, Reader!MapIsDeclared
<1> QED
  BY <1>1, <1>2 DEF Next, vars, RunnerStep, ReaderStep

(* Each group between its start and its end in one file is in the map with *)
(* its test cases in order, and no other; a file with a group inside       *)
(* another, an id that is taken or a test case outside a group is refused  *)
(* (rttest2text.py:75-125): for every list of lines.                       *)
THEOREM MapIsDeclaredCorrect == Spec => []MapIsDeclared
<1>1. Init => MapKept
  BY InitMap
<1>2. MapKept /\ [Next]_vars => MapKept'
  BY StepMap
<1>3. MapKept => MapIsDeclared
  BY DEF MapKept
<1> QED
  BY <1>1, <1>2, <1>3, PTL DEF Spec

(***************************************************************************)
(* What the reader has printed of the groups it has read.                  *)
(***************************************************************************)

Failing(list) == {j \in DOMAIN list : list[j] # "pass"}
Missed(k) == Picked(Names(log[k].group), Failing(log[k].verdicts))
MissedTo(n) == FlattenSeq([k \in 1..n |-> Missed(k)])

(* The failed ones among the first n test cases of a group. *)
Part(k, n) ==
    Picked(Names(log[k].group), {j \in 1..n : log[k].verdicts[j] # "pass"})

KnownTo(n) == \A k \in 1..n : Known(log[k].group)

LEMMA GrowsKeeps ==
    ASSUME Started, Grows, UNCHANGED rttmap, NEW g \in 0..Len(log), Complete(g)
    PROVE  /\ g \in 0..Len(log')
           /\ Body(g)' = Body(g) /\ Length(g)' = Length(g)
           /\ Complete(g)' /\ MissedTo(g)' = MissedTo(g)
           /\ KnownTo(g) => KnownTo(g)'
<1>1. Len(log) \in Nat /\ Len(log) <= Len(log') /\ UNCHANGED groups
  BY LenProperties DEF Started, Grows, LogGrows
<1>2. \A k \in 1..g : log'[k] = log[k]
  BY <1>1 DEF Complete, CasesOf, Grows, LogGrows
<1>3. g \in 0..Len(log')
  BY <1>1
<1>4. Body(g)' = Body(g) /\ Length(g)' = Length(g)
  BY <1>1, <1>2, BodyKept
<1>5. Complete(g)'
  BY <1>1, <1>2 DEF Complete
<1>6. \A k \in 1..g : Missed(k)' = Missed(k) /\ Known(log[k].group)' = Known(log[k].group)
  BY <1>1, <1>2 DEF Missed, Names, Known
<1>7. [k \in 1..g |-> Missed(k)]' = [k \in 1..g |-> Missed(k)]
  BY <1>6
<1>8. MissedTo(g)' = MissedTo(g)
  BY <1>7 DEF MissedTo
<1> QED
  BY <1>3, <1>4, <1>5, <1>6, <1>8 DEF KnownTo

LEMMA GrowsOn ==
    ASSUME Started, Placed, Grows, UNCHANGED rttmap, NEW k \in 1..Len(log)
    PROVE  /\ k \in 1..Len(log') /\ log'[k].group = log[k].group
           /\ CasesOf(k)' = CasesOf(k) /\ Width(k)' = Width(k)
           /\ Known(log[k].group)' = Known(log[k].group)
           /\ Len(log[k].verdicts) \in Nat
           /\ \A n \in Nat : n <= Len(log[k].verdicts) =>
                 n <= Len(log'[k].verdicts) /\ Part(k, n)' = Part(k, n)
<1>1. Len(log) \in Nat /\ Len(log) <= Len(log') /\ UNCHANGED groups
  BY LenProperties DEF Started, Grows, LogGrows
<1>2. log'[k].group = log[k].group /\ Starts(log[k].verdicts, log'[k].verdicts)
  BY DEF Grows, LogGrows
<1>3. Len(log[k].verdicts) \in Nat
  BY EntryFacts
<1>4. k \in 1..Len(log')
  BY <1>1
<1>5. ASSUME NEW n \in Nat, n <= Len(log[k].verdicts)
      PROVE  n <= Len(log'[k].verdicts) /\ Part(k, n)' = Part(k, n)
  <2>1. \A j \in 1..n : log'[k].verdicts[j] = log[k].verdicts[j]
    BY <1>2, <1>3, <1>5 DEF Starts
  <2>2. {j \in 1..n : log'[k].verdicts[j] # "pass"}
           = {j \in 1..n : log[k].verdicts[j] # "pass"}
    BY <2>1
  <2>3. Names(log[k].group)' = Names(log[k].group)
    BY <1>1, <1>2 DEF Names
  <2>4. Part(k, n)' = Part(k, n)
    BY <2>2, <2>3 DEF Part
  <2>5. n <= Len(log'[k].verdicts)
    BY <1>2, <1>3, <1>5 DEF Starts
  <2> QED
    BY <2>4, <2>5
<1> QED
  BY <1>1, <1>2, <1>3, <1>4, <1>5 DEF CasesOf, Width, Known

(***************************************************************************)
(* Where the reader is.  It has read the reports of the first g groups,    *)
(* all of them complete and known to its map.                              *)
(***************************************************************************)

Base256 == Power(2, OctetBits)

(* The octets of the id that were read, from position b + 2 of the report. *)
IdRead(b) ==
    /\ count = 0 => gid = 0
    /\ count = 1 => gid = written[b + 2]
    /\ count = 2 => gid = written[b + 2] * Base256 + written[b + 3]
    /\ count = 3 => gid = (written[b + 2] * Base256 + written[b + 3]) * Base256
                             + written[b + 4]

AtStart(g) == pos = Length(g) /\ failures = MissedTo(g)

AtId(g) ==
    /\ count \in 0..3 /\ pos = Length(g) + 1 + count
    /\ written[Length(g) + 1] = EnterGroup /\ IdRead(Length(g))
    /\ failures = MissedTo(g)

InCases(g) ==
    /\ g < Len(log)
    /\ Known(log[g + 1].group) /\ gid = groups[log[g + 1].group].id
    /\ \E q \in Nat : testno = q * OctetBits /\ pos = Length(g) + 5 + q
    /\ testno < CasesOf(g + 1) /\ testno <= Len(log[g + 1].verdicts)
    /\ failures = MissedTo(g) \o Part(g + 1, testno)

AtEnd(g) ==
    /\ g < Len(log)
    /\ Known(log[g + 1].group)
    /\ pos = Length(g) + 5 + Width(g + 1)
    /\ CasesOf(g + 1) <= Len(log[g + 1].verdicts)
    /\ failures = MissedTo(g) \o Part(g + 1, CasesOf(g + 1))

ReadingAt(g) ==
    /\ Complete(g) /\ KnownTo(g)
    /\ at = "start" => AtStart(g)
    /\ at = "id" => AtId(g)
    /\ at = "results" => InCases(g)
    /\ at = "end" => AtEnd(g)

(* What the reader relies on: the source files count as the program does,  *)
(* and the output has no gap.                                              *)
Clear == Counted /\ Starts(report, written)

Reading ==
    Clear /\ at \in {"start", "id", "results", "end"} =>
       /\ pos \in 0..Len(written)
       /\ \E g \in 0..Len(log) : ReadingAt(g)

LEMMA ClearGrows ==
    ASSUME Grows, UNCHANGED rttmap, Clear'
    PROVE  Clear
BY DEF Grows, Clear, Counted, Selected, IsIn, Known, Names

LEMMA CountedGrows ==
    ASSUME UNCHANGED <<groups, selection, rttmap>>
    PROVE  Counted' = Counted /\ (\A k : Known(k)' = Known(k)) /\ Selected' = Selected
BY DEF Counted, Selected, IsIn, Known, Names

LEMMA ReadingGrows ==
    ASSUME Reading, Started, Placed, written \in Seq(Octet), Grows, UNCHANGED reader
    PROVE  Reading'
<1>1. UNCHANGED <<groups, selection, rttmap, at, pos, gid, count, testno, failures>>
  BY DEF Grows, reader
<1> SUFFICES ASSUME Clear, at \in {"start", "id", "results", "end"}
             PROVE  pos \in 0..Len(written') /\ (\E g \in 0..Len(log) : ReadingAt(g))'
  BY <1>1, ClearGrows DEF Reading
<1>2. PICK g \in 0..Len(log) : ReadingAt(g)
  BY DEF Reading
<1>3. /\ g \in 0..Len(log') /\ Length(g)' = Length(g)
      /\ Complete(g)' /\ MissedTo(g)' = MissedTo(g)
      /\ KnownTo(g)'
  BY <1>1, <1>2, GrowsKeeps DEF ReadingAt
<1>4. Length(g) \in Nat
  BY BodyType
<1>5. /\ Len(log) \in Nat /\ Len(log) <= Len(log') /\ Len(written) \in Nat
      /\ pos \in 0..Len(written) /\ Starts(written, written') /\ Len(log') \in Int
      /\ Len(written') \in Int
  BY LenProperties DEF Started, Grows, LogGrows, Reading
<1>6. pos \in 0..Len(written')
  BY <1>5 DEF Starts
<1>7. CASE at = "start"
  <2>1. ReadingAt(g)'
    BY <1>1, <1>2, <1>3, <1>7 DEF ReadingAt, AtStart
  <2> QED
    BY <1>3, <1>6, <2>1
<1>8. CASE at = "id"
  <2> DEFINE b == Length(g)
  <2>1. count \in 0..3 /\ pos = b + 1 + count
    BY <1>2, <1>8 DEF ReadingAt, AtId
  <2> HIDE DEF b
  <2>2. \A p \in 1..(1 + count) : written'[b + p] = written[b + p]
    <3>1. b \in Nat
      BY <1>4 DEF b
    <3>2. ASSUME NEW p \in 1..(1 + count) PROVE written'[b + p] = written[b + p]
      <4>1. b + p \in 1..Len(written)
        BY <1>5, <2>1, <3>1
      <4> QED
        BY <1>5, <4>1 DEF Starts
    <3> QED
      BY <3>2
  <2>3. IdRead(b)' = IdRead(b)
    <3>1. b' = b
      BY <1>3 DEF b
    <3> QED
      BY <1>1, <2>1, <2>2, <3>1 DEF IdRead
  <2>4. AtId(g)'
    BY <1>1, <1>2, <1>3, <1>8, <2>1, <2>2, <2>3 DEF ReadingAt, AtId, b
  <2>5. ReadingAt(g)'
    BY <1>1, <1>3, <1>8, <2>4 DEF ReadingAt
  <2> QED
    BY <1>3, <1>6, <2>5
<1>9. CASE at \in {"results", "end"}
  <2>1. PICK k : k = g + 1
    OBVIOUS
  <2>2. k \in 1..Len(log)
    BY <1>2, <1>5, <1>9, <2>1 DEF ReadingAt, InCases, AtEnd
  <2>3. /\ k \in 1..Len(log') /\ log'[k].group = log[k].group
        /\ CasesOf(k)' = CasesOf(k) /\ Width(k)' = Width(k)
        /\ Known(log[k].group)' = Known(log[k].group)
        /\ Len(log[k].verdicts) \in Nat
        /\ \A n \in Nat : n <= Len(log[k].verdicts) =>
              n <= Len(log'[k].verdicts) /\ Part(k, n)' = Part(k, n)
    BY <1>1, <2>2, GrowsOn
  <2>4. CasesOf(k) \in Nat
    BY <2>2, EntryFacts
  <2>5. g < Len(log')
    BY <1>5, <2>1, <2>3
  <2>6. CASE at = "results"
    <3>1. /\ Known(log[k].group) /\ gid = groups[log[k].group].id
          /\ \E q \in Nat : testno = q * OctetBits /\ pos = Length(g) + 5 + q
          /\ testno < CasesOf(k) /\ testno <= Len(log[k].verdicts)
          /\ failures = MissedTo(g) \o Part(k, testno)
      BY <1>2, <2>1, <2>6 DEF ReadingAt, InCases
    <3>2. PICK n \in Nat : n = testno
      BY <3>1, OctetBitsType
    <3>3. n <= Len(log'[k].verdicts) /\ Part(k, n)' = Part(k, n)
      BY <2>3, <3>1, <3>2
    <3>4. failures' = MissedTo(g)' \o Part(k, n)'
      BY <1>1, <1>3, <3>1, <3>2, <3>3
    <3>5. InCases(g)'
      BY <1>1, <1>3, <2>1, <2>3, <2>5, <3>1, <3>2, <3>3, <3>4 DEF InCases
    <3>6. ReadingAt(g)'
      BY <1>1, <1>3, <2>6, <3>5 DEF ReadingAt
    <3> QED
      BY <1>3, <1>6, <3>6
  <2>7. CASE at = "end"
    <3>1. /\ Known(log[k].group)
          /\ pos = Length(g) + 5 + Width(k)
          /\ CasesOf(k) <= Len(log[k].verdicts)
          /\ failures = MissedTo(g) \o Part(k, CasesOf(k))
      BY <1>2, <2>1, <2>7 DEF ReadingAt, AtEnd
    <3>2. PICK n \in Nat : n = CasesOf(k)
      BY <2>4
    <3>3. n <= Len(log'[k].verdicts) /\ Part(k, n)' = Part(k, n)
      BY <2>3, <3>1, <3>2
    <3>4. failures' = MissedTo(g)' \o Part(k, n)' /\ n = CasesOf(k)'
      BY <1>1, <1>3, <2>3, <3>1, <3>2, <3>3
    <3>5. AtEnd(g)'
      BY <1>1, <1>3, <2>1, <2>3, <2>5, <3>1, <3>2, <3>3, <3>4 DEF AtEnd
    <3>6. ReadingAt(g)'
      BY <1>1, <1>3, <2>7, <3>5 DEF ReadingAt
    <3> QED
      BY <1>3, <1>6, <3>6
  <2> QED
    BY <1>9, <2>6, <2>7
<1> QED
  BY <1>7, <1>8, <1>9

AllKnown == \A k \in Selected : Known(k)

(* Reasons for a report to be incomplete. *)
Defect == Len(report) < Len(written) \/ refused \/ pc = "panic" \/ (pc = "done" /\ ret < 0)

(* What a verdict says of the run. *)
Judged ==
    at = "stopped" /\ Clear =>
       /\ verdict \in {"pass", "fail", "error"}
       /\ verdict \in {"pass", "fail"} =>
             \/ IdTakenForEnd
             \/ /\ Whole /\ report = written /\ KnownTo(Len(log)) /\ failures = MissedTo(Len(log))
                /\ verdict = "pass" <=> failures = <<>>
       /\ verdict = "error" /\ pos # 0 /\ AllKnown => Defect

(* A reader that has not begun has read nothing; and it does not begin     *)
(* before the runner.                                                      *)
Waiting ==
    /\ rttmap \in Maps
    /\ at \in {"fourcc", "start", "id", "results", "end", "stopped"}
    /\ at # "stopped" => verdict = "none"
    /\ at = "fourcc" => pos = 0 /\ failures = <<>>
    /\ pc = "off" => at = "fourcc" \/ (at = "stopped" /\ verdict = "error" /\ pos = 0)

LEMMA InitWaiting ==
    ASSUME Init
    PROVE  Waiting /\ Judged /\ Reading
<1> DEFINE b == Reader!MapOf(source)
<1>1. Lines
  BY SourcesAssumption DEF Init, Reader!ReaderInit, Lines
<1>2. b \in Builder
  BY <1>1, MapRead
<1>3. IF b.raised THEN rttmap = <<>> /\ at = "stopped" /\ verdict = "error"
      ELSE rttmap = b.groups /\ at = "fourcc" /\ verdict = "none"
  BY DEF Init, Reader!ReaderInit
<1>4. <<>> \in Maps
  <2>1. PICK f : Parses(f)
    BY <1>1, MapOfParses
  <2>2. 0 \in 0..Len(source)
    BY <1>1, LenProperties DEF Lines
  <2>3. Reader!NewMap \in Builder
    BY <2>1, <2>2 DEF Parses
  <2> QED
    BY <2>3 DEF Builder, Reader!NewMap
<1> HIDE DEF b
<1>5. rttmap \in Maps
  BY <1>2, <1>3, <1>4 DEF Builder
<1>6. pos = 0 /\ failures = <<>> /\ at \in {"fourcc", "stopped"}
  BY <1>3 DEF Init, Reader!ReaderInit
<1> QED
  BY <1>3, <1>5, <1>6 DEF Waiting, Judged, Reading

(* Before the run nothing is written. *)
LEMMA OffEmpty ==
    ASSUME Followed, Refusal, TypesKept, pc = "off"
    PROVE  written = <<>> /\ Len(report) = 0 /\ log = <<>> /\ ~refused
<1>1. ~refused
  BY DEF Refusal
<1>2. Place /\ Matches
  BY <1>1 DEF Followed, Live
<1>3. Starts(written, <<>>) /\ written \in Seq(Octet) /\ report \in Seq(Octet)
      /\ Len(report) <= Len(written)
  BY <1>2, MatchesStarts DEF TypesKept, Expected
<1> QED
  BY <1>1, <1>2, <1>3, LenProperties, EmptySeq DEF Place, Starts

LEMMA ReaderWaiting ==
    ASSUME Waiting, Reader!ReaderNext, UNCHANGED runner, Followed, Refusal, TypesKept
    PROVE  Waiting'
<1>1. UNCHANGED <<source, rttmap, pc, written>>
  BY DEF runner, output, Reader!ReaderNext, Reader!ReadFourCC, Reader!ReadPastEnd,
         Reader!ReadGroupStart, Reader!ReadId, Reader!ReadResults, Reader!ReadGroupEnd,
         Reader!files
<1>2. rttmap' \in Maps'
  <2>1. Maps' = Maps
    BY <1>1 DEF Maps, LineNames, LineIds
  <2> QED
    BY <1>1, <2>1 DEF Waiting
<1>3. /\ at' \in {"start", "id", "results", "end", "stopped"}
      /\ at' # "stopped" => verdict' = "none"
  <2>1. Reader!ReadFourCC => /\ at' \in {"start", "stopped"}
                             /\ at' # "stopped" => verdict' = verdict
    BY DEF Reader!ReadFourCC, Reader!Continue, Reader!Conclude
  <2>2. Reader!ReadPastEnd => at' = "stopped"
    BY DEF Reader!ReadPastEnd, Reader!Conclude
  <2>3. Reader!ReadGroupStart => /\ at' \in {"id", "stopped"}
                                 /\ at' # "stopped" => verdict' = verdict
    BY DEF Reader!ReadGroupStart, Reader!Continue, Reader!Conclude
  <2>4. Reader!ReadId => /\ at' \in {"id", "end", "results", "stopped"}
                         /\ at' # "stopped" => verdict' = verdict
    BY DEF Reader!ReadId, Reader!Continue, Reader!Conclude
  <2>5. Reader!ReadResults => at' \in {"results", "end"} /\ verdict' = verdict
    BY DEF Reader!ReadResults, Reader!Continue
  <2>6. Reader!ReadGroupEnd => /\ at' \in {"start", "stopped"}
                               /\ at' # "stopped" => verdict' = verdict
    BY DEF Reader!ReadGroupEnd, Reader!Continue, Reader!Conclude
  <2>7. at # "stopped"
    BY DEF Reader!ReaderNext, Reader!ReadFourCC, Reader!ReadPastEnd,
         Reader!ReadGroupStart, Reader!ReadId, Reader!ReadResults, Reader!ReadGroupEnd
  <2> QED
    BY <2>1, <2>2, <2>3, <2>4, <2>5, <2>6, <2>7 DEF Waiting, Reader!ReaderNext
<1>4. pc # "off"
  <2> SUFFICES ASSUME pc = "off" PROVE FALSE
    OBVIOUS
  <2>1. Len(report) = 0
    BY OffEmpty
  <2>2. at \in {"fourcc", "stopped"}
    BY DEF Waiting
  <2>3. Reader!ReadFourCC
    BY <2>2 DEF Reader!ReaderNext, Reader!ReadPastEnd, Reader!ReadGroupStart,
                Reader!ReadId, Reader!ReadResults, Reader!ReadGroupEnd
  <2>4. Len(FourCC) = 4
    BY RTTestAssumption
  <2> QED
    BY <2>1, <2>3, <2>4 DEF Reader!ReadFourCC, Reader!FourCCRead, Stopped
<1> QED
  BY <1>1, <1>2, <1>3, <1>4 DEF Waiting

(* The runner goes on: no verdict loses what it stands on. *)
LEMMA RunnerWaiting ==
    ASSUME Waiting, UNCHANGED reader, pc' = "off" => pc = "off"
    PROVE  Waiting'
<1>1. UNCHANGED <<source, rttmap, at, pos, failures, verdict>>
  BY DEF reader
<1>2. Maps' = Maps
  BY <1>1 DEF Maps, LineNames, LineIds
<1> QED
  BY <1>1, <1>2 DEF Waiting

LEMMA RunnerJudged ==
    ASSUME Judged, Grows, UNCHANGED reader, pc \notin {"done", "panic"},
           IdTakenForEnd => IdTakenForEnd'
    PROVE  Judged'
<1>1. UNCHANGED <<groups, selection, rttmap, at, pos, failures, verdict>>
      /\ (refused => refused')
  BY DEF Grows, reader
<1>2. Counted' = Counted /\ (\A k : Known(k)' = Known(k)) /\ Selected' = Selected
  BY <1>1, CountedGrows
<1>3. ~Whole
  BY DEF Whole, Finished
<1>5. AllKnown' = AllKnown
  BY <1>2 DEF AllKnown
<1>6. Defect => Defect'
  BY <1>1 DEF Defect, Grows
<1> SUFFICES ASSUME at = "stopped", Clear PROVE Judged'
  BY <1>1, ClearGrows DEF Judged
<1>7. /\ verdict \in {"pass", "fail", "error"}
      /\ verdict \in {"pass", "fail"} => IdTakenForEnd
      /\ verdict = "error" /\ pos # 0 /\ AllKnown => Defect
  BY <1>3 DEF Judged
<1> QED
  BY <1>1, <1>5, <1>6, <1>7 DEF Judged

(* After a refusal the runner starts no group, and takes nothing back. *)
LEMMA IdTakenKept ==
    ASSUME IdTakenForEnd, Running, Grows, Followed, Started, TypesKept, Refusal
    PROVE  IdTakenForEnd'
<1>1. refused /\ refused'
  BY DEF IdTakenForEnd, Grows
<1>2. UNCHANGED <<groups, log>>
  BY <1>1, RunningStill DEF Live
<1>3. Before' = Before
  BY <1>2 DEF Before, GroupReport
<1>4. /\ Len(Before) + 1 \in 1..Len(written)
      /\ \A p \in 1..Len(written) : written'[p] = written[p]
      /\ Len(written) <= Len(written')
  <2>1. Len(Before) \in Nat
    <3>1. Before = Base /\ log # <<>> /\ Len(log) \in Nat
      BY LenProperties DEF Before, Base, Reports, IdTakenForEnd, Started
    <3> QED
      BY <3>1
  <2> QED
    BY <2>1, LenProperties DEF IdTakenForEnd, Grows, Starts, TypesKept
<1> QED
  BY <1>1, <1>2, <1>3, <1>4 DEF IdTakenForEnd

LEMMA RunnerStepReads ==
    ASSUME Reading, Waiting, Judged, Laid, Followed, Started, TypesKept, Refusal,
           RunnerStep
    PROVE  Reading' /\ Waiting' /\ Judged'
<1>1. UNCHANGED reader /\ RunnerNext
  BY DEF RunnerStep
<1>2. CASE Running
  <2>1. Grows
    BY <1>2, RunningGrows
  <2>2. pc \notin {"off", "done", "panic"} /\ pc' # "off"
    BY <1>2 DEF Running, WritePreamble, EnterMark, IdOctet, EntryAction, TestCase,
       ResultOctet, LastOctet, ExitAction, ExitMark, WriteEndOfFile, Panic, NextGroup,
       StartCases, NextCase, AfterCases, AfterRefusal
  <2>3. Placed
    BY SelectedPlaced DEF Laid
  <2>4. written \in Seq(Octet)
    BY DEF TypesKept
  <2> QED
    BY <1>1, <1>2, <2>1, <2>2, <2>3, <2>4, ReadingGrows, RunnerWaiting, RunnerJudged,
       IdTakenKept
<1>3. CASE pc = "off"
  <2>1. /\ at = "fourcc" \/ (at = "stopped" /\ verdict = "error" /\ pos = 0)
        /\ UNCHANGED <<at, verdict, pos>>
    BY <1>1, <1>3 DEF Waiting, reader
  <2>2. Waiting'
    BY <1>1, <1>3, RunnerWaiting
  <2> QED
    BY <2>1, <2>2 DEF Reading, Judged
<1>4. Running \/ pc = "off"
  BY <1>1 DEF RunnerNext, RTPrivTestRegisterGroup, RTTestRun
<1> QED
  BY <1>2, <1>3, <1>4

(***************************************************************************)
(* The steps of the reader.                                                *)
(***************************************************************************)

LEMMA ReaderPower ==
    /\ \A b, n : Reader!Power(b, n) = Power(b, n)
    /\ \A x, b : Reader!HasBit(x, b) <=> HasBit(x, b)
<1>1. \A b, n : Reader!Power(b, n) = Power(b, n)
  BY DEF Power, Reader!Power
<1> QED
  BY <1>1 DEF HasBit, Reader!HasBit

LEMMA RunnerSame ==
    ASSUME UNCHANGED runner, UNCHANGED rttmap
    PROVE  /\ UNCHANGED <<groups, selection, log, written, report, pc, ret, refused>>
           /\ \A n : Length(n)' = Length(n) /\ Complete(n)' = Complete(n)
                     /\ MissedTo(n)' = MissedTo(n) /\ KnownTo(n)' = KnownTo(n)
                     /\ CasesOf(n)' = CasesOf(n) /\ Width(n)' = Width(n)
           /\ \A k, n : Part(k, n)' = Part(k, n)
           /\ Clear' = Clear /\ Counted' = Counted /\ Whole' = Whole /\ IdTakenForEnd' = IdTakenForEnd
           /\ Defect' = Defect /\ AllKnown' = AllKnown
           /\ \A k : Known(k)' = Known(k)
<1>1. UNCHANGED <<groups, selection, log, written, report, pc, ret, refused>>
  BY DEF runner, program, output
<1>2. Counted' = Counted /\ (\A k : Known(k)' = Known(k)) /\ Selected' = Selected
  BY <1>1, CountedGrows
<1>3. \A n : Length(n)' = Length(n)
  BY <1>1, BodyKept
<1>4. \A n : Complete(n)' = Complete(n)
  BY <1>1 DEF Complete
<1>5. \A n : MissedTo(n)' = MissedTo(n)
  BY <1>1 DEF MissedTo, Missed, Names
<1>6. \A n : KnownTo(n)' = KnownTo(n)
  BY <1>1, <1>2 DEF KnownTo
<1>7. \A n : CasesOf(n)' = CasesOf(n) /\ Width(n)' = Width(n)
  BY <1>1 DEF CasesOf, Width
<1>8. \A k, n : Part(k, n)' = Part(k, n)
  BY <1>1 DEF Part, Names
<1>9. Whole' = Whole
  BY <1>1, <1>2 DEF Whole, Finished, EverythingRun
<1>10. Defect' = Defect /\ AllKnown' = AllKnown /\ Clear' = Clear
  BY <1>1, <1>2 DEF Defect, AllKnown, Clear, Starts
<1>11. IdTakenForEnd' = IdTakenForEnd
  <2>1. Before' = Before
    BY <1>1 DEF Before, GroupReport
  <2> QED
    BY <1>1, <2>1 DEF IdTakenForEnd
<1> QED
  BY <1>1, <1>2, <1>3, <1>4, <1>5, <1>6, <1>7, <1>8, <1>9, <1>10, <1>11

(* What holds where the reader reads. *)
Ready ==
    /\ Reading /\ Waiting /\ Laid /\ Followed /\ Started /\ TypesKept /\ Refusal
    /\ UNCHANGED runner

(* A run with no defect, when it has stopped. *)
LEMMA NoDefect ==
    ASSUME Followed, Started, TypesKept, Refusal, Stopped, ~Defect
    PROVE  /\ Complete(Len(log)) /\ Placed /\ Len(log) \in Nat
           /\ Length(Len(log)) \in Nat /\ Length(Len(log)) >= 4
           /\ Len(written) = Length(Len(log)) + 1
           /\ written[Len(written)] = EndOfFile
<1> DEFINE n == Len(log)
           b == Body(n)
           t == <<EndOfFile>>
           e == b \o t
           r == Reports(n)
<1>1. pc = "done" /\ ret >= 0 /\ ~refused /\ Live
  BY DEF Defect, Stopped, Live, Refusal
<1>2. Place /\ Matches
  BY <1>1 DEF Followed
<1>3. EverythingRun
  BY <1>1, <1>2 DEF Place
<1>4. LogSelected /\ Complete(n)
  BY <1>3, LogComplete
<1>5. Placed /\ n \in Nat /\ DOMAIN log = 1..n
  BY <1>4, SelectedPlaced, LenProperties DEF Started
<1>6. n \in 0..Len(log)
  BY <1>5
<1>7. b \in Seq(Octet)
  BY <1>5, <1>6, BodyType
<1>8. t \in Seq(Octet) /\ Len(t) = 1 /\ t[1] = EndOfFile
  BY RTTestAssumption
<1>9. written = FullReport
  BY <1>1, <1>2 DEF Matches, Expected
<1>10. FullReport = (FourCC \o FlattenSeq([k \in DOMAIN log |-> GroupReport(log[k])]))
                       \o <<EndOfFile>>
  BY DEF FullReport
<1>11. written = e /\ e = b \o t
  BY <1>5, <1>9, <1>10 DEF Body, Reports
<1>12. b = FourCC \o r /\ r \in Seq(Octet) /\ FourCC \in Seq(Octet)
  BY <1>5, <1>6, ReportsType, RTTestAssumption DEF Body
<1> HIDE DEF b, t, e, r, n
<1>13. Len(b) = Len(FourCC) + Len(r) /\ Len(r) \in Nat
  BY <1>12, ConcatAt
<1>14. /\ Len(e) = Len(b) + Len(t) /\ Len(b) \in Nat
       /\ \A p \in 1..Len(t) : e[Len(b) + p] = t[p]
  <2>1. t \in Seq(Octet)
    BY <1>8
  <2> QED
    BY <1>7, <1>11, <2>1, ConcatAt
<1>15. Len(FourCC) = 4
  BY RTTestAssumption
<1>16. /\ Len(b) >= 4 /\ Len(written) = Len(b) + 1 /\ written[Len(written)] = EndOfFile
  BY <1>8, <1>11, <1>13, <1>14, <1>15
<1>17. Length(n) = Len(b)
  BY DEF Length, b
<1> QED
  BY <1>4, <1>5, <1>14, <1>16, <1>17 DEF n

(* An octet that is read is the one that was written there. *)
LEMMA ByteWritten ==
    ASSUME Ready, Clear
    PROVE  /\ Len(report) \in Nat /\ Len(written) \in Nat /\ Len(report) <= Len(written)
           /\ \A p \in 1..Len(report) : report[p] = written[p]
           /\ pos \in Nat /\ pos < Len(report) =>
                 pos < Len(written) /\ report[pos + 1] = written[pos + 1]
<1>1. Len(report) \in Nat /\ Len(written) \in Nat /\ Starts(report, written)
  BY LenProperties DEF Ready, TypesKept, Clear
<1> QED
  BY <1>1 DEF Starts

LEMMA PreambleRead ==
    ASSUME Ready, Reader!ReadFourCC
    PROVE  Reading' /\ Judged'
<1> USE DEF Ready
<1>1. /\ at = "fourcc" /\ UNCHANGED rttmap /\ failures' = failures
      /\ pos' = 4
      /\ Len(report) >= Len(FourCC) \/ Stopped
      /\ IF IsPrefix(FourCC, report) THEN at' = "start" ELSE at' = "stopped" /\ verdict' = "error"
  <2>1. Len(FourCC) = 4
    BY RTTestAssumption
  <2>2. Reader!IsPrefix(FourCC, report) <=> IsPrefix(FourCC, report)
    BY DEF IsPrefix, Reader!IsPrefix
  <2> QED
    BY <2>1, <2>2 DEF Reader!ReadFourCC, Reader!FourCCRead, Reader!files,
                      Reader!Continue, Reader!Conclude
<1>2. /\ UNCHANGED <<groups, selection, log, written, report, pc, ret, refused>>
      /\ \A n : Length(n)' = Length(n) /\ Complete(n)' = Complete(n)
                /\ MissedTo(n)' = MissedTo(n) /\ KnownTo(n)' = KnownTo(n)
      /\ Defect' = Defect /\ Clear' = Clear
  BY <1>1, RunnerSame
<1> SUFFICES ASSUME Clear PROVE Reading' /\ Judged'
  BY <1>2 DEF Reading, Judged
<1>3. failures = <<>>
  BY <1>1 DEF Waiting
<1>4. FourCC \in Seq(Octet) /\ Len(FourCC) = 4 /\ report \in Seq(Octet)
      /\ Len(log) \in Nat
      /\ Len(report) \in Nat /\ Len(written) \in Nat /\ Len(report) <= Len(written)
      /\ \A p \in 1..Len(report) : report[p] = written[p]
  BY RTTestAssumption, LenProperties, ByteWritten DEF TypesKept, Started
<1>5. CASE IsPrefix(FourCC, report)
  <2>1. at' = "start"
    BY <1>1, <1>5
  <2>2. Starts(FourCC, report)
    BY <1>4, <1>5, PrefixStarts
  <2>3. pos' \in 0..Len(written')
    BY <1>1, <1>2, <1>4, <2>2 DEF Starts
  <2>4. Length(0) = 4
    <3>1. Reports(0) = <<>>
      BY ReportsZero
    <3>2. FourCC \o <<>> = FourCC
      BY <1>4, ConcatEmptySeq
    <3> QED
      BY <1>4, <3>1, <3>2 DEF Length, Body
  <2>5. MissedTo(0) = <<>>
    <3>1. FlattenSeq(<<>>) = <<>>
      BY ReportsZero DEF Reports
    <3> QED
      BY <3>1 DEF MissedTo
  <2>6. Complete(0) /\ KnownTo(0)
    BY DEF Complete, KnownTo
  <2>7. AtStart(0)'
    BY <1>1, <1>2, <1>3, <2>4, <2>5 DEF AtStart
  <2>8. ReadingAt(0)' /\ 0 \in 0..Len(log')
    BY <1>2, <1>4, <2>1, <2>6, <2>7 DEF ReadingAt
  <2> QED
    BY <2>1, <2>3, <2>8 DEF Reading, Judged
<1>6. CASE ~IsPrefix(FourCC, report)
  <2>1. at' = "stopped" /\ verdict' = "error"
    BY <1>1, <1>6
  <2>2. Len(report) < 4
    <3> SUFFICES ASSUME Len(report) >= 4 PROVE FALSE
      BY <1>4
    <3>1. \A p \in 1..4 : report[p] = FourCC[p]
      BY <1>4 DEF Laid, Preamble, Has
    <3>2. 4 \in 0..Len(report) /\ 4 \in 0..Len(FourCC)
      BY <1>4
    <3>3. /\ SubSeq(report, 1, 4) \in Seq(Octet) /\ Len(SubSeq(report, 1, 4)) = 4
          /\ \A p \in 1..4 : SubSeq(report, 1, 4)[p] = report[p]
      BY <1>4, <3>2, StartsSub DEF Starts
    <3>4. SubSeq(report, 1, 4) = FourCC
      BY <1>4, <3>1, <3>3, SeqEqual
    <3>5. SubSeq(FourCC, 1, 4) = FourCC
      BY <1>4, SubSeqFull
    <3> QED
      BY <1>4, <1>6, <3>4, <3>5 DEF IsPrefix
  <2>3. Stopped
    BY <1>1, <1>4, <2>2
  <2>4. Defect
    BY <1>4, <2>2, <2>3, NoDefect DEF Defect
  <2> QED
    BY <1>2, <2>1, <2>4 DEF Reading, Judged
<1> QED
  BY <1>5, <1>6

LEMMA GroupStartRead ==
    ASSUME Ready, Reader!ReadGroupStart
    PROVE  Reading' /\ Judged'
<1> DEFINE byte == report[pos + 1]
<1>1. /\ at = "start" /\ UNCHANGED rttmap /\ failures' = failures
      /\ pos < Len(report) /\ pos' = pos + 1 /\ gid' = 0 /\ count' = 0
      /\ \/ byte = EndOfFile /\ at' = "stopped"
            /\ verdict' = IF failures = <<>> THEN "pass" ELSE "fail"
         \/ byte = EnterGroup /\ at' = "id"
         \/ /\ byte # EndOfFile /\ byte # EnterGroup
            /\ at' = "stopped" /\ verdict' = "error"
  <2>1. EnterGroup # EndOfFile
    BY RTTestAssumption
  <2>2. Reader!Byte = byte /\ (Reader!HasByte <=> pos < Len(report))
    BY DEF Reader!Byte, Reader!HasByte
  <2>3. CASE EndOfFile = Reader!Byte
    BY <2>1, <2>2, <2>3 DEF Reader!ReadGroupStart, Reader!files,
                      Reader!Continue, Reader!Conclude, Reader!Score
  <2>4. CASE EnterGroup = Reader!Byte
    BY <2>1, <2>2, <2>4 DEF Reader!ReadGroupStart, Reader!files,
                      Reader!Continue, Reader!Conclude
  <2>5. CASE EnterGroup # Reader!Byte /\ EndOfFile # Reader!Byte
    BY <2>1, <2>2, <2>5 DEF Reader!ReadGroupStart, Reader!files,
                      Reader!Continue, Reader!Conclude
  <2> QED
    BY <2>3, <2>4, <2>5
<1> HIDE DEF byte
<1>2. /\ UNCHANGED <<groups, selection, log, written, report, pc, ret, refused>>
      /\ \A n : Length(n)' = Length(n) /\ Complete(n)' = Complete(n)
                /\ MissedTo(n)' = MissedTo(n) /\ KnownTo(n)' = KnownTo(n)
      /\ Clear' = Clear /\ Whole' = Whole /\ IdTakenForEnd' = IdTakenForEnd
      /\ Defect' = Defect /\ AllKnown' = AllKnown
  BY <1>1, RunnerSame DEF Ready
<1> SUFFICES ASSUME Clear PROVE Reading' /\ Judged'
  BY <1>2 DEF Reading, Judged
<1>3. PICK g \in 0..Len(log) : ReadingAt(g)
  BY <1>1 DEF Ready, Reading
<1>0. /\ byte = written[pos + 1] /\ pos < Len(written) /\ pos + 1 <= Len(report)
      /\ Len(report) \in Nat
  <2>1. pos \in 0..Len(written) /\ Len(written) \in Nat
    BY <1>1, ByteWritten DEF Ready, Reading
  <2> QED
    BY <1>1, <2>1, ByteWritten DEF byte
<1>4. pos = Length(g) /\ failures = MissedTo(g) /\ Complete(g) /\ KnownTo(g)
  BY <1>1, <1>3 DEF ReadingAt, AtStart
<1>5. Placed /\ Started /\ LogSelected
  BY SelectedPlaced DEF Ready, Laid
<1>6. pos \in Nat /\ Len(written) \in Nat /\ pos + 1 <= Len(written)
      /\ Len(log) \in Nat
  <2>1. Length(g) \in Nat
    BY <1>5, BodyType
  <2>2. Len(written) \in Nat /\ Len(log) \in Nat
    BY LenProperties DEF Ready, TypesKept, Started
  <2> QED
    BY <1>0, <1>4, <2>1, <2>2
<1>7. Follows(g)
  BY <1>4 DEF Ready, Laid
<1>8. CASE byte = EndOfFile /\ at' = "stopped"
           /\ verdict' = IF failures = <<>> THEN "pass" ELSE "fail"
  <2>1. \/ IdTakenForEnd
        \/ Whole /\ g = Len(log) /\ report = written
    <3>1. CASE GoesOn(g)
      <4>1. g + 1 \in 1..Len(log)
        BY <1>6, <3>1 DEF GoesOn
      <4>2. HeadingOf(g + 1)[1] = EnterGroup
        BY <1>5, <4>1, HeadingOfType
      <4>3. Has(pos + 1, HeadingOf(g + 1)[1])
        BY <1>4, <3>1 DEF GoesOn
      <4>4. byte = EnterGroup
        BY <1>0, <1>6, <4>2, <4>3 DEF Has
      <4> QED
        BY <1>8, <4>4, RTTestAssumption
    <3>2. CASE Ends(g)
      <4>1. Len(written) = pos + 1 /\ Whole /\ g = Len(log)
        BY <1>0, <1>4, <3>2 DEF Ends
      <4>2. /\ report \in Seq(Octet) /\ written \in Seq(Octet)
            /\ Len(report) = Len(written) /\ \A p \in 1..Len(report) : report[p] = written[p]
        BY <1>0, <1>6, <4>1, ByteWritten DEF Ready, TypesKept
      <4> QED
        BY <4>1, <4>2, SeqEqual
    <3>3. CASE Torn(g)
      <4>1. refused /\ g + 1 = Len(log) /\ Has(pos + 1, HeadingOf(g + 1)[2])
        BY <1>4, <3>3 DEF Torn
      <4>2. g + 1 \in 1..Len(log) /\ log # <<>>
        BY <1>6, <4>1
      <4>3. PICK k : k = log[g + 1].group
        OBVIOUS
      <4>4. HeadingOf(g + 1)[1 + 1] = BigEndian(groups[k].id)[1]
        BY <1>5, <4>2, <4>3, HeadingOfType
      <4>5. byte = BigEndian(groups[k].id)[1]
        BY <1>0, <1>6, <4>1, <4>4 DEF Has
      <4>6. Len(Before) = pos
        <5>1. g = Len(log) - 1
          BY <1>6, <4>1
        <5>2. Before = Body(g)
          BY <5>1 DEF Before, Body, Reports
        <5> QED
          BY <1>4, <5>2 DEF Length
      <4> QED
        BY <1>0, <1>8, <4>1, <4>2, <4>3, <4>5, <4>6 DEF IdTakenForEnd
    <3> QED
      BY <1>7, <3>1, <3>2, <3>3 DEF Follows
  <2> QED
    BY <1>1, <1>2, <1>4, <1>8, <2>1 DEF Judged, Reading
<1>9. CASE byte = EnterGroup /\ at' = "id"
  <2>1. AtId(g)'
    <3>1. pos' = Length(g)' + 1 + count' /\ count' \in 0..3
      BY <1>1, <1>2, <1>4, <1>6
    <3>2. written'[Length(g)' + 1] = EnterGroup
      BY <1>0, <1>2, <1>4, <1>9
    <3>3. IdRead(Length(g))'
      BY <1>1 DEF IdRead
    <3> QED
      BY <1>1, <1>2, <1>4, <3>1, <3>2, <3>3 DEF AtId
  <2>2. ReadingAt(g)' /\ g \in 0..Len(log')
    BY <1>2, <1>4, <1>9, <2>1 DEF ReadingAt
  <2>3. pos' \in 0..Len(written')
    BY <1>1, <1>2, <1>6
  <2> QED
    BY <1>9, <2>2, <2>3 DEF Reading, Judged
<1>10. CASE byte # EndOfFile /\ byte # EnterGroup /\ at' = "stopped" /\ verdict' = "error"
  <2>1. Defect
    <3>1. CASE GoesOn(g)
      <4>1. g + 1 \in 1..Len(log)
        BY <1>6, <3>1 DEF GoesOn
      <4>2. HeadingOf(g + 1)[1] = EnterGroup
        BY <1>5, <4>1, HeadingOfType
      <4>3. Has(pos + 1, HeadingOf(g + 1)[1])
        BY <1>4, <3>1 DEF GoesOn
      <4> QED
        BY <1>0, <1>6, <1>10, <4>2, <4>3 DEF Has
    <3>2. CASE Ends(g)
      BY <1>0, <1>4, <1>10, <3>2 DEF Ends
    <3>3. CASE Torn(g)
      BY <3>3 DEF Torn, Defect
    <3> QED
      BY <1>7, <3>1, <3>2, <3>3 DEF Follows
  <2> QED
    BY <1>2, <1>10, <2>1 DEF Judged, Reading
<1> QED
  BY <1>1, <1>8, <1>9, <1>10

(* Four octets make the id they were taken from. *)
LEMMA IdRebuilt ==
    ASSUME NEW x \in GroupId
    PROVE  LET d == BigEndian(x)
           IN  ((d[1] * Base256 + d[2]) * Base256 + d[3]) * Base256 + d[4] = x
<1> DEFINE m == Base256
           X(j) == x \div Power(2, j * OctetBits)
           d == BigEndian(x)
<1>1. OctetBits \in Nat /\ m \in Nat \ {0} /\ x \in Nat
  BY OctetBitsType, PowerType, GroupIdNatural DEF Base256
<1>2. ASSUME NEW j \in 0..3
      PROVE  /\ X(j) \in Nat /\ X(j + 1) = X(j) \div m
             /\ X(j) = m * X(j + 1) + (X(j) % m) /\ X(j) % m \in 0..(m - 1)
  <2> DEFINE y == X(j)
             w == Power(2, j * OctetBits)
  <2>1. w \in Nat \ {0} /\ j * OctetBits \in Nat
    BY <1>1, PowerType
  <2>2. Power(2, (j + 1) * OctetBits) = w * m
    <3>1. (j + 1) * OctetBits = j * OctetBits + OctetBits
      BY <1>1
    <3>2. Power(2, j * OctetBits + OctetBits) = w * m
      <4> DEFINE a == j * OctetBits
      <4>1. a \in Nat /\ OctetBits \in Nat
        BY <1>1, <2>1
      <4>2. 2 \in Nat \ {0}
        OBVIOUS
      <4> HIDE DEF a
      <4>3. Power(2, a + OctetBits) = Power(2, a) * Power(2, OctetBits)
        BY <4>1, <4>2, PowerSum
      <4> QED
        BY <4>3 DEF a, w, Base256
    <3> QED
      BY <3>1, <3>2
  <2>3. y \in Nat
    <3>1. x \in Nat /\ w \in Nat \ {0}
      BY <1>1, <2>1
    <3> HIDE DEF w
    <3>2. \A a \in Nat, b \in Nat \ {0} : a \div b \in Nat
      BY Division
    <3>3. x \div w \in Nat
      BY <3>1, <3>2
    <3> QED
      BY <3>3 DEF w
  <2>4. X(j + 1) = y \div m
    <3>1. X(j + 1) = x \div (w * m) /\ y = x \div w
      BY <2>2
    <3> HIDE DEF w, m, X
    <3> QED
      BY <1>1, <2>1, <3>1, DivisionTwice
  <2> HIDE DEF y, m
  <2>5. y = m * (y \div m) + (y % m) /\ y % m \in 0..(m - 1)
    BY <1>1, <2>3, Division
  <2> HIDE DEF X
  <2> QED
    BY <2>3, <2>4, <2>5 DEF y
<1>3. X(0) = x
  <2>1. Power(2, 0 * OctetBits) = 1
    BY <1>1, PowerZero
  <2>2. x \div 1 = x
    BY <1>1
  <2> QED
    BY <2>1, <2>2
<1>4. X(4) = 0
  <2> DEFINE w == Power(2, 4 * OctetBits)
  <2>1. w \in Nat \ {0} /\ x \in 0..(w - 1)
    BY <1>1, PowerType DEF GroupId
  <2> HIDE DEF w
  <2>2. x = w * 0 + x
    BY <2>1
  <2>3. x \div w = 0
    BY <2>1, <2>2, DivisionUnique
  <2> QED
    BY <2>3 DEF w
<1>5. d[1] = X(3) % m /\ d[2] = X(2) % m /\ d[3] = X(1) % m /\ d[4] = X(0) % m
  <2>1. ASSUME NEW k \in 1..4 PROVE d[k] = X(4 - k) % m
    BY DEF BigEndian, Base256
  <2> HIDE DEF d, X, m
  <2>2. d[1] = X(4 - 1) % m /\ d[2] = X(4 - 2) % m /\ d[3] = X(4 - 3) % m
        /\ d[4] = X(4 - 4) % m
    BY <2>1
  <2> QED
    BY <2>2
<1> HIDE DEF X, m, d
<1>6. /\ X(0) = m * X(1) + d[4] /\ X(1) = m * X(2) + d[3]
      /\ X(2) = m * X(3) + d[2] /\ X(3) = m * X(4) + d[1]
      /\ X(0) \in Nat /\ X(1) \in Nat /\ X(2) \in Nat /\ X(3) \in Nat
  <2>1. X(0) = m * X(0 + 1) + d[4] /\ X(0) \in Nat
    BY <1>2, <1>5
  <2>2. X(1) = m * X(1 + 1) + d[3] /\ X(1) \in Nat
    BY <1>2, <1>5
  <2>3. X(2) = m * X(2 + 1) + d[2] /\ X(2) \in Nat
    BY <1>2, <1>5
  <2>4. X(3) = m * X(3 + 1) + d[1] /\ X(3) \in Nat
    BY <1>2, <1>5
  <2> QED
    BY <2>1, <2>2, <2>3, <2>4
<1>7. /\ d[1] \in Nat /\ d[2] \in Nat /\ d[3] \in Nat /\ d[4] \in Nat
  <2>1. X(0) % m \in Nat /\ X(1) % m \in Nat /\ X(2) % m \in Nat /\ X(3) % m \in Nat
    BY <1>1, <1>2
  <2> QED
    BY <1>5, <2>1
<1>8. d[1] = X(3)
  BY <1>1, <1>4, <1>6, <1>7
<1>9. d[1] * m + d[2] = X(2)
  <2>1. X(3) * m = m * X(3)
    BY <1>1, <1>6
  <2> QED
    BY <1>6, <1>8, <2>1
<1>10. X(2) * m + d[3] = X(1)
  <2>1. X(2) * m = m * X(2)
    BY <1>1, <1>6
  <2> QED
    BY <1>6, <2>1
<1>11. X(1) * m + d[4] = x
  <2>1. X(1) * m = m * X(1)
    BY <1>1, <1>6
  <2> QED
    BY <1>3, <1>6, <2>1
<1>12. ((d[1] * m + d[2]) * m + d[3]) * m + d[4] = x
  BY <1>9, <1>10, <1>11
<1> QED
  BY <1>12 DEF d, m

LEMMA MissedType ==
    ASSUME Waiting
    PROVE  /\ \A k : Known(k) => Names(k) \in Seq(LineNames)
           /\ \A n \in Nat : KnownTo(n) => MissedTo(n) \in Seq(LineNames)
           /\ \A k, n : Known(log[k].group) => Part(k, n) \in Seq(LineNames)
<1>1. ASSUME NEW k, Known(k) PROVE Names(k) \in Seq(LineNames)
  BY <1>1 DEF Waiting, Maps, Known, Names
<1>2. ASSUME NEW n \in Nat, KnownTo(n) PROVE MissedTo(n) \in Seq(LineNames)
  <2> DEFINE s == [k \in 1..n |-> Missed(k)]
  <2>1. ASSUME NEW k \in 1..n PROVE Missed(k) \in Seq(LineNames)
    <3>1. Names(log[k].group) \in Seq(LineNames)
      BY <1>1, <1>2 DEF KnownTo
    <3> QED
      BY <3>1, PickedType DEF Missed
  <2>2. s \in Seq(Seq(LineNames))
    BY <2>1
  <2> HIDE DEF s
  <2>3. FlattenSeq(s) \in Seq(LineNames)
    BY <2>2, FlattenType
  <2> QED
    BY <2>3 DEF s, MissedTo
<1>3. ASSUME NEW k, NEW n, Known(log[k].group) PROVE Part(k, n) \in Seq(LineNames)
  BY <1>1, <1>3, PickedType DEF Part
<1> QED
  BY <1>1, <1>2, <1>3

LEMMA IdOctetRead ==
    ASSUME Ready, Reader!ReadId
    PROVE  Reading' /\ Judged'
<1> DEFINE byte == report[pos + 1]
<1>1. /\ at = "id" /\ UNCHANGED rttmap /\ failures' = failures
      /\ pos < Len(report) /\ pos' = pos + 1 /\ count' = count + 1 /\ testno' = 0
      /\ gid' = gid * Base256 + byte
      /\ \/ count' < 4 /\ at' = "id"
         \/ /\ gid' \notin DOMAIN rttmap /\ ~(count' < 4)
            /\ at' = "stopped" /\ verdict' = "error"
         \/ /\ gid' \in DOMAIN rttmap /\ ~(count' < 4)
            /\ at' = IF Len(rttmap[gid']) = 0 THEN "end" ELSE "results"
  <2>1. Reader!Byte = byte /\ (Reader!HasByte <=> pos < Len(report))
    BY DEF Reader!Byte, Reader!HasByte
  <2>2. Reader!Power(2, OctetBits) = Base256
    BY ReaderPower DEF Base256
  <2>3. Reader!Written(gid') = Len(rttmap[gid'])
    BY DEF Reader!Written
  <2> QED
    BY <2>1, <2>2, <2>3
    DEF Reader!ReadId, Reader!files, Reader!Continue, Reader!Conclude
<1> HIDE DEF byte
<1>2. /\ UNCHANGED <<groups, selection, log, written, report, pc, ret, refused>>
      /\ \A n : Length(n)' = Length(n) /\ Complete(n)' = Complete(n)
                /\ MissedTo(n)' = MissedTo(n) /\ KnownTo(n)' = KnownTo(n)
                /\ CasesOf(n)' = CasesOf(n)
      /\ \A k, n : Part(k, n)' = Part(k, n)
      /\ \A k : Known(k)' = Known(k)
      /\ Clear' = Clear /\ Defect' = Defect /\ AllKnown' = AllKnown
  BY <1>1, RunnerSame DEF Ready
<1> SUFFICES ASSUME Clear PROVE Reading' /\ Judged'
  BY <1>2 DEF Reading, Judged
<1>3. PICK g \in 0..Len(log) : ReadingAt(g)
  BY <1>1 DEF Ready, Reading
<1>0. /\ byte = written[pos + 1] /\ pos < Len(written) /\ pos + 1 <= Len(report)
      /\ Len(report) \in Nat
  <2>1. pos \in 0..Len(written) /\ Len(written) \in Nat
    BY <1>1, ByteWritten DEF Ready, Reading
  <2> QED
    BY <1>1, <2>1, ByteWritten DEF byte
<1> DEFINE b == Length(g)
<1>4. /\ count \in 0..3 /\ pos = b + 1 + count /\ written[b + 1] = EnterGroup
      /\ IdRead(b) /\ failures = MissedTo(g) /\ Complete(g) /\ KnownTo(g)
  BY <1>1, <1>3 DEF ReadingAt, AtId
<1>5. Placed /\ Started /\ LogSelected
  BY SelectedPlaced DEF Ready, Laid
<1>6. /\ b \in Nat /\ Len(written) \in Nat /\ b + 2 + count <= Len(written)
      /\ Len(log) \in Nat /\ byte = written[b + 2 + count] /\ pos + 1 = b + 2 + count
  <2>1. b \in Nat
    BY <1>5, BodyType
  <2>2. Len(written) \in Nat /\ Len(log) \in Nat
    BY LenProperties DEF Ready, TypesKept, Started
  <2>3. pos + 1 = b + 2 + count
    BY <1>4, <2>1
  <2> QED
    BY <1>0, <1>4, <2>1, <2>2, <2>3
<1>7. b' = b
  BY <1>2
<1>8. Follows(g)
  BY <1>4 DEF Ready, Laid
<1> HIDE DEF b
<1>9. pos' \in 0..Len(written')
  <2>1. pos' = b + 2 + count
    BY <1>1, <1>6
  <2> QED
    BY <1>2, <1>4, <1>6, <2>1
<1>10. CASE count < 3
  <2>1. at' = "id" /\ count' \in 0..3 /\ pos' = b' + 1 + count'
    BY <1>1, <1>4, <1>6, <1>7, <1>10
  <2>2. IdRead(b)'
    <3>1. \A p \in 1..Len(written) : written[p] \in Int
      <4>1. OctetBits \in Nat /\ Power(2, OctetBits) \in Nat
        BY OctetBitsType, PowerType
      <4> QED
        BY <4>1, ElementOfSeq DEF Ready, TypesKept, Octet
    <3>2. Base256 \in Nat
      BY OctetBitsType, PowerType DEF Base256
    <3>3. b + 2 \in 1..Len(written) /\ b + 2 + count \in 1..Len(written)
      BY <1>4, <1>6
    <3>4. byte \in Int /\ written[b + 2] \in Int
      BY <1>6, <3>1, <3>3
    <3>5. written' = written /\ b' = b /\ count' = count + 1 /\ gid' = gid * Base256 + byte
          /\ byte = written[b + 2 + count]
      BY <1>1, <1>2, <1>6, <1>7
    <3>6. Base256' = Base256
      BY DEF Base256
    <3>7. CASE count = 0
      <4>1. gid' = written[b + 2]
        BY <1>4, <1>6, <3>2, <3>4, <3>5, <3>7 DEF IdRead
      <4> QED
        BY <3>5, <3>7, <4>1 DEF IdRead
    <3>8. CASE count = 1
      <4>1. gid' = written[b + 2] * Base256 + written[b + 3]
        BY <1>4, <1>6, <3>5, <3>8 DEF IdRead
      <4> QED
        BY <3>5, <3>6, <3>8, <4>1 DEF IdRead
    <3>9. CASE count = 2
      <4>1. gid' = (written[b + 2] * Base256 + written[b + 3]) * Base256 + written[b + 4]
        BY <1>4, <1>6, <3>5, <3>9 DEF IdRead
      <4> QED
        BY <3>5, <3>6, <3>9, <4>1 DEF IdRead
    <3> QED
      BY <1>4, <1>10, <3>7, <3>8, <3>9
  <2>3. AtId(g)'
    BY <1>1, <1>2, <1>4, <1>7, <2>1, <2>2 DEF AtId, b
  <2>4. ReadingAt(g)' /\ g \in 0..Len(log')
    BY <1>2, <1>4, <2>1, <2>3 DEF ReadingAt
  <2> QED
    BY <1>9, <2>1, <2>4 DEF Reading, Judged
<1>11. CASE count = 3
  <2> DEFINE k == log[g + 1].group
             h == HeadingOf(g + 1)
             d == BigEndian(groups[k].id)
  <2>1. GoesOn(g)
    <3>1. Len(written) > b + 4
      BY <1>6, <1>11
    <3>2. ~Ends(g)
      BY <1>6, <3>1 DEF Ends, b
    <3>3. ~Torn(g)
      BY <1>6, <3>1 DEF Torn, b
    <3> QED
      BY <1>8, <3>2, <3>3 DEF Follows
  <2>2. g + 1 \in 1..Len(log) /\ g < Len(log)
    BY <1>6, <2>1 DEF GoesOn
  <2>3. \A j \in 1..4 : h[j + 1] = d[j]
    BY <1>5, <2>2, HeadingOfType
  <2>4. \A p \in 1..5 : written[b + p] = h[p]
    <3>1. \A p \in 1..5 : Has(b + p, h[p])
      BY <2>1 DEF GoesOn, b
    <3>2. \A p \in 1..5 : b + p <= Len(written)
      BY <1>6, <1>11
    <3> HIDE DEF h
    <3> QED
      BY <3>1, <3>2 DEF Has
  <2>5. groups[k].id \in GroupId /\ CasesOf(g + 1) \in Nat \ {0}
        /\ Len(log[g + 1].verdicts) \in Nat
    BY <1>5, <2>2, EntryFacts
  <2>6. k \in Selected
    <3>1. g + 1 \in DOMAIN log
      BY <1>5, <2>2, LenProperties DEF Started
    <3> QED
      BY <1>5, <3>1 DEF LogSelected
  <2>7. gid' = groups[k].id
    <3>1. gid' = ((written[b + 2] * Base256 + written[b + 3]) * Base256
                    + written[b + 4]) * Base256 + written[b + 5]
      BY <1>1, <1>4, <1>6, <1>11 DEF IdRead
    <3>2. written[b + 2] = d[1] /\ written[b + 3] = d[2] /\ written[b + 4] = d[3]
          /\ written[b + 5] = d[4]
      BY <2>3, <2>4
    <3>3. ((d[1] * Base256 + d[2]) * Base256 + d[3]) * Base256 + d[4] = groups[k].id
      BY <2>5, IdRebuilt
    <3> HIDE DEF d
    <3> QED
      BY <3>1, <3>2, <3>3
  <2>8. Known(k) <=> gid' \in DOMAIN rttmap
    BY <2>7 DEF Known
  <2>9. count' = 4 /\ ~(count' < 4)
    BY <1>1, <1>11
  <2> HIDE DEF h, d
  <2>10. CASE ~Known(k)
    <3>1. at' = "stopped" /\ verdict' = "error"
      BY <1>1, <2>8, <2>9, <2>10
    <3>2. ~AllKnown
      BY <2>6, <2>10 DEF AllKnown
    <3> QED
      BY <1>2, <3>1, <3>2 DEF Reading, Judged
  <2>11. CASE Known(k)
    <3>1. Len(rttmap[gid']) = CasesOf(g + 1)
      BY <2>6, <2>7, <2>11 DEF Clear, Counted, Names, CasesOf
    <3>2. at' = "results"
      BY <1>1, <2>5, <2>8, <2>9, <2>11, <3>1
    <3>3. Part(g + 1, 0) = <<>>
      <4>1. Names(k) \in Seq(LineNames)
        BY <2>11, MissedType DEF Ready
      <4>2. {j \in 1..0 : log[g + 1].verdicts[j] # "pass"} = {}
        OBVIOUS
      <4>3. Picked(Names(k), {}) = <<>>
        BY <4>1, PickedNone
      <4> QED
        BY <4>2, <4>3 DEF Part
    <3>4. MissedTo(g) \o <<>> = MissedTo(g)
      <4>1. MissedTo(g) \in Seq(LineNames)
        BY <1>4, MissedType DEF Ready
      <4> QED
        BY <4>1, ConcatEmptySeq
    <3>5. InCases(g)'
      <4>1. (g < Len(log) /\ Known(log[g + 1].group) /\ gid = groups[log[g + 1].group].id)'
        BY <1>2, <2>2, <2>7, <2>11
      <4>2. 0 \in Nat /\ (testno = 0 * OctetBits /\ pos = b + 5 + 0)'
        BY <1>1, <1>4, <1>6, <1>7, <1>11, OctetBitsType
      <4>3. (testno < CasesOf(g + 1) /\ testno <= Len(log[g + 1].verdicts))'
        BY <1>1, <1>2, <2>5
      <4>4. (failures = MissedTo(g) \o Part(g + 1, testno))'
        <5>1. Part(g + 1, 0)' = Part(g + 1, 0)
          BY <1>2
        <5>2. Part(g + 1, testno)' = Part(g + 1, 0)'
          BY <1>1 DEF Part
        <5>3. MissedTo(g)' = MissedTo(g)
          BY <1>2
        <5> QED
          BY <1>1, <1>4, <3>3, <3>4, <5>1, <5>2, <5>3
      <4> QED
        BY <4>1, <4>2, <4>3, <4>4 DEF InCases, b
    <3>6. ReadingAt(g)' /\ g \in 0..Len(log')
      BY <1>2, <1>4, <3>2, <3>5 DEF ReadingAt
    <3> QED
      BY <1>9, <3>2, <3>6 DEF Reading, Judged
  <2> QED
    BY <2>10, <2>11
<1> QED
  BY <1>4, <1>10, <1>11

(* After q octets of results, about t of n test cases, of which l have run, *)
(* the next is about c.                                                    *)
Covers(q, t, c, n, l) ==
    /\ t = q * OctetBits /\ t < n /\ t <= l
    /\ (q + 1) * OctetBits <= l \/ l = n
    /\ c = IF n - t < OctetBits THEN n - t ELSE OctetBits

CoversWell(q, t, c, n, l) ==
    /\ c \in 1..OctetBits /\ t \in Nat /\ t + c <= l /\ t + c <= n
    /\ t + c < n => t + c = (q + 1) * OctetBits
    /\ ~(t + c < n) => /\ t + c = n
                       /\ q + 1 = (n + OctetBits - 1) \div OctetBits

LEMMA CoveredCases ==
    ASSUME NEW q \in Nat, NEW n \in Nat, NEW l \in Nat, NEW t, NEW c,
           Covers(q, t, c, n, l)
    PROVE  CoversWell(q, t, c, n, l)
<1> USE DEF Covers
<1> DEFINE w == (n + OctetBits - 1) \div OctetBits
<1>1. OctetBits \in Nat \ {0}
  BY OctetBitsType
<1>2. t \in Nat /\ (q + 1) * OctetBits = t + OctetBits /\ t + OctetBits \in Nat
  BY <1>1
<1>3. c \in 1..OctetBits /\ t + c <= l /\ t + c <= n
  BY <1>1, <1>2
<1>4. t + c < n => t + c = (q + 1) * OctetBits
  BY <1>1, <1>2
<1>5. ASSUME ~(t + c < n) PROVE t + c = n /\ q + 1 = w
  <2>1. t + c = n
    BY <1>1, <1>2, <1>5
  <2>2. t + OctetBits >= n
    BY <1>1, <1>2, <1>3, <2>1
  <2>3. w \in Nat /\ q < w /\ (q + 1 >= w)
    <3>1. q + 1 \in Nat /\ q * OctetBits < n /\ (q + 1) * OctetBits >= n
      BY <1>2, <2>2
    <3> QED
      BY <3>1, WidthOf
  <2> HIDE DEF w
  <2> QED
    BY <2>1, <2>3
<1> QED
  BY <1>2, <1>3, <1>4, <1>5 DEF CoversWell

LEMMA PartNext ==
    ASSUME Waiting, NEW k, Known(log[k].group), log[k].verdicts \in Seq(Verdict),
           NEW t \in Nat, NEW c \in 1..OctetBits, t + c <= Len(log[k].verdicts)
    PROVE  LET x == OctetOf(log[k].verdicts, t + 1)
           IN  Part(k, t + c) = Part(k, t) \o
                  Picked(Names(log[k].group),
                         {n \in (t + 1)..(t + c) : HasBit(x, n - t - 1)})
<1> DEFINE list == log[k].verdicts
           x == OctetOf(list, t + 1)
           A == {n \in 1..t : list[n] # "pass"}
           B == {n \in (t + 1)..(t + c) : HasBit(x, n - t - 1)}
           C == {n \in 1..(t + c) : list[n] # "pass"}
           names == Names(log[k].group)
<1>1. OctetBits \in Nat
  BY OctetBitsType
<1>2. DOMAIN list = 1..Len(list) /\ Len(list) \in Nat
  BY LenProperties
<1>3. ASSUME NEW n \in (t + 1)..(t + c)
      PROVE  HasBit(x, n - t - 1) <=> list[n] # "pass"
  <2>1. n - t - 1 \in 0..(OctetBits - 1) /\ (t + 1) + (n - t - 1) = n
        /\ n \in 1..Len(list)
    BY <1>1, <1>2
  <2>2. HasBit(x, n - t - 1) <=> FailedAt(list, (t + 1) + (n - t - 1))
    BY <2>1, OctetOfTells DEF Tells
  <2> QED
    BY <1>2, <2>1, <2>2 DEF FailedAt
<1>4. C = A \cup B
  <2> HIDE DEF x, list
  <2>1. \A n \in 1..(t + c) : n \in 1..t \/ n \in (t + 1)..(t + c)
    OBVIOUS
  <2>2. 1..t \subseteq 1..(t + c) /\ (t + 1)..(t + c) \subseteq 1..(t + c)
    OBVIOUS
  <2>3. ASSUME NEW n PROVE n \in C <=> n \in A \cup B
    BY <1>3, <2>1, <2>2
  <2> QED
    BY <2>3, Zenon
<1>5. A \in SUBSET Nat /\ B \in SUBSET Nat /\ \A a \in A, b \in B : a < b
  OBVIOUS
<1>6. names \in Seq(LineNames)
  BY MissedType
<1> HIDE DEF A, B, C, names
<1>7. Picked(names, A \cup B) = Picked(names, A) \o Picked(names, B)
  BY <1>5, <1>6, PickedSplit
<1> QED
  BY <1>4, <1>7 DEF Part, A, B, C, names

LEMMA ResultsRead ==
    ASSUME Ready, Reader!ReadResults
    PROVE  Reading' /\ Judged'
<1> DEFINE byte == report[pos + 1]
           left == Len(rttmap[gid]) - testno
           c == IF left < OctetBits THEN left ELSE OctetBits
           found == Picked(rttmap[gid],
                           {n \in (testno + 1)..(testno + c) :
                               HasBit(byte, n - testno - 1)})
<1>1. /\ at = "results" /\ UNCHANGED <<rttmap, gid>>
      /\ pos < Len(report) /\ pos' = pos + 1
      /\ testno' = testno + c /\ failures' = failures \o found
      /\ at' = IF testno' < Len(rttmap[gid]) THEN "results" ELSE "end"
  <2>1. Reader!Byte = byte /\ (Reader!HasByte <=> pos < Len(report))
    BY DEF Reader!Byte, Reader!HasByte
  <2>2. Reader!Covered = c
    BY DEF Reader!Written, Reader!Covered
  <2>3. Reader!FailedInOctet = found
    BY <2>1, <2>2, ReaderPower, ReaderPicks
    DEF Reader!FailedInOctet, Reader!FailsIn
  <2>4. Reader!MoreResults(testno') <=> testno' < Len(rttmap[gid])
    BY DEF Reader!MoreResults, Reader!Written
  <2> HIDE DEF c, found, byte
  <2> QED
    BY <2>1, <2>2, <2>3, <2>4
    DEF Reader!ReadResults, Reader!files, Reader!Continue
<1> HIDE DEF byte, c, found
<1>2. /\ UNCHANGED <<groups, selection, log, written, report, pc, ret, refused>>
      /\ \A n : Length(n)' = Length(n) /\ Complete(n)' = Complete(n)
                /\ MissedTo(n)' = MissedTo(n) /\ KnownTo(n)' = KnownTo(n)
                /\ CasesOf(n)' = CasesOf(n) /\ Width(n)' = Width(n)
      /\ \A k, n : Part(k, n)' = Part(k, n)
      /\ \A k : Known(k)' = Known(k)
      /\ Clear' = Clear
  BY <1>1, RunnerSame DEF Ready
<1> SUFFICES ASSUME Clear PROVE Reading' /\ Judged'
  BY <1>2 DEF Reading, Judged
<1>3. PICK g \in 0..Len(log) : ReadingAt(g)
  BY <1>1 DEF Ready, Reading
<1>0. /\ byte = written[pos + 1] /\ pos < Len(written) /\ pos + 1 <= Len(report)
      /\ Len(report) \in Nat
  <2>1. pos \in 0..Len(written) /\ Len(written) \in Nat
    BY <1>1, ByteWritten DEF Ready, Reading
  <2> QED
    BY <1>1, <2>1, ByteWritten DEF byte
<1> DEFINE b == Length(g)
           k == log[g + 1].group
           list == log[g + 1].verdicts
           cases == CasesOf(g + 1)
<1>4. /\ g < Len(log) /\ Known(k) /\ gid = groups[k].id
      /\ testno < cases /\ testno <= Len(list)
      /\ failures = MissedTo(g) \o Part(g + 1, testno) /\ Complete(g) /\ KnownTo(g)
  BY <1>1, <1>3 DEF ReadingAt, InCases
<1>5. PICK q \in Nat : testno = q * OctetBits /\ pos = b + 5 + q
  BY <1>1, <1>3 DEF ReadingAt, InCases
<1>6. Placed /\ Started /\ LogSelected
  BY SelectedPlaced DEF Ready, Laid
<1>7. /\ b \in Nat /\ Len(written) \in Nat /\ Len(log) \in Nat
      /\ g + 1 \in 1..Len(log)
      /\ pos + 1 = b + 5 + (q + 1) /\ b + 5 + (q + 1) <= Len(written)
  <2>1. b \in Nat
    BY <1>6, BodyType
  <2>2. Len(written) \in Nat /\ Len(log) \in Nat
    BY LenProperties DEF Ready, TypesKept, Started
  <2>3. g + 1 \in 1..Len(log)
    BY <1>4, <2>2
  <2>4. pos < Len(written) /\ pos = b + 5 + q
    BY <1>0, <1>5
  <2> HIDE DEF b
  <2>5. pos + 1 = b + 5 + (q + 1) /\ b + 5 + (q + 1) <= Len(written)
    BY <2>1, <2>2, <2>4
  <2> QED
    BY <2>1, <2>2, <2>3, <2>5
<1>8. /\ groups[k].id \in GroupId /\ cases \in Nat \ {0} /\ Len(list) \in Nat
      /\ list \in Seq(Verdict)
  BY <1>6, <1>7, EntryFacts
<1>9. k \in Selected
  <2>1. g + 1 \in DOMAIN log
    BY <1>6, <1>7, LenProperties DEF Started
  <2> QED
    BY <1>6, <2>1 DEF LogSelected
<1>10. rttmap[gid] = Names(k) /\ Len(rttmap[gid]) = cases
  BY <1>4, <1>9 DEF Clear, Counted, Names, CasesOf
<1>11. GoesOn(g)
  <2>1. Follows(g)
    BY <1>4 DEF Ready, Laid
  <2>2. Len(written) > b + 5
    BY <1>7
  <2> QED
    BY <1>7, <2>1, <2>2 DEF Follows, Ends, Torn, b
<1>12. OctetBits \in Nat /\ q * OctetBits \in Nat
  BY OctetBitsType
<1>13. q + 1 \in 1..Width(g + 1)
  <2>1. q < Width(g + 1) /\ Width(g + 1) \in Nat
    BY <1>4, <1>5, <1>8, WidthOf DEF Width
  <2> QED
    BY <2>1
<1>14. /\ byte = OctetOf(list, testno + 1)
       /\ (q + 1) * OctetBits <= Len(list) \/ Len(list) = cases
  <2>1. \A m \in 1..Width(g + 1) :
           b + 5 + m <= Len(written) =>
              /\ written[b + 5 + m] = OctetOf(list, (m - 1) * OctetBits + 1)
              /\ m * OctetBits <= Len(list) \/ Len(list) = cases
    BY <1>11 DEF GoesOn
  <2> HIDE DEF b, list, cases
  <2>2. /\ written[b + 5 + (q + 1)] = OctetOf(list, ((q + 1) - 1) * OctetBits + 1)
        /\ (q + 1) * OctetBits <= Len(list) \/ Len(list) = cases
    BY <1>7, <1>13, <2>1
  <2>3. (q + 1) - 1 = q
    OBVIOUS
  <2> QED
    BY <1>0, <1>5, <1>7, <2>2, <2>3
<1> DEFINE t == q * OctetBits
           e == t + c
<1>15. /\ c \in 1..OctetBits /\ t \in Nat /\ e <= Len(list) /\ e <= cases
       /\ e < cases => e = (q + 1) * OctetBits
       /\ ~(e < cases) => e = cases /\ q + 1 = Width(g + 1)
  <2>1. c = IF cases - t < OctetBits THEN cases - t ELSE OctetBits
    BY <1>5, <1>10 DEF c, left
  <2>2. Width(g + 1) = (cases + OctetBits - 1) \div OctetBits
    BY DEF Width
  <2>3. t = q * OctetBits /\ t < cases /\ t <= Len(list)
    BY <1>4, <1>5
  <2>4. cases \in Nat
    BY <1>8
  <2> DEFINE l == Len(list)
  <2>5. l \in Nat /\ t <= l /\ ((q + 1) * OctetBits <= l \/ l = cases)
    BY <1>8, <1>14, <2>3
  <2> HIDE DEF cases, list, t, l
  <2>6. Covers(q, t, c, cases, l)
    BY <2>1, <2>3, <2>5 DEF Covers
  <2>7. CoversWell(q, t, c, cases, l)
    BY <2>4, <2>5, <2>6, CoveredCases
  <2> QED
    BY <2>2, <2>7 DEF l, CoversWell
<1>16. testno = t /\ testno' = e
  BY <1>1, <1>5
<1>17. failures' = MissedTo(g) \o Part(g + 1, e)
  <2> DEFINE m == MissedTo(g)
             p == Part(g + 1, t)
  <2>1. Part(g + 1, e) = p \o found
    <3>1. Part(g + 1, t + c) = p \o
             Picked(Names(k), {n \in (t + 1)..(t + c) :
                                  HasBit(OctetOf(list, t + 1), n - t - 1)})
      <4>1. /\ Waiting /\ Known(k) /\ list \in Seq(Verdict)
            /\ t \in Nat /\ c \in 1..OctetBits /\ t + c <= Len(list)
        BY <1>4, <1>8, <1>15 DEF Ready
      <4> HIDE DEF t
      <4> QED
        BY <4>1, PartNext
    <3>2. byte = OctetOf(list, t + 1)
      BY <1>14, <1>16
    <3>3. found = Picked(Names(k), {n \in (t + 1)..(t + c) : HasBit(byte, n - t - 1)})
      BY <1>10, <1>16 DEF found
    <3> HIDE DEF t, list, found
    <3> QED
      BY <3>1, <3>2, <3>3
  <2>2. m \in Seq(LineNames) /\ p \in Seq(LineNames) /\ found \in Seq(LineNames)
    <3>1. Names(k) \in Seq(LineNames)
      BY <1>4, MissedType DEF Ready
    <3>2. found \in Seq(LineNames)
      BY <1>10, <3>1, PickedType DEF found
    <3> QED
      BY <1>4, <3>2, MissedType DEF Ready
  <2>3. failures' = (m \o p) \o found
    BY <1>1, <1>4, <1>16
  <2> HIDE DEF m, p
  <2>4. (m \o p) \o found = m \o (p \o found)
    BY <2>2, ConcatAssociative
  <2> QED
    BY <2>1, <2>3, <2>4 DEF m
<1>18. pos' \in 0..Len(written')
  BY <1>1, <1>2, <1>7
<1>19. g \in 0..Len(log') /\ Complete(g)' /\ KnownTo(g)' /\ MissedTo(g)' = MissedTo(g)
       /\ pos' = b + 5 + (q + 1) /\ b' = b
  BY <1>1, <1>2, <1>4, <1>7
<1>20. (g < Len(log) /\ Known(log[g + 1].group) /\ gid = groups[log[g + 1].group].id)'
  BY <1>1, <1>2, <1>4
<1>21. Part(g + 1, testno)' = Part(g + 1, e)
  <2>1. PICK n : n = e
    OBVIOUS
  <2>2. Part(g + 1, n)' = Part(g + 1, n)
    BY <1>2
  <2>3. Part(g + 1, testno)' = Part(g + 1, n)'
    BY <1>16, <2>1 DEF Part
  <2> QED
    BY <2>1, <2>2, <2>3
<1>22. CASE e < cases
  <2>1. at' = "results"
    BY <1>1, <1>10, <1>16, <1>22
  <2>2. InCases(g)'
    <3>1. (\E r \in Nat : testno = r * OctetBits /\ pos = Length(g) + 5 + r)'
      BY <1>15, <1>16, <1>19, <1>22
    <3>2. (testno < CasesOf(g + 1) /\ testno <= Len(log[g + 1].verdicts))'
      BY <1>2, <1>15, <1>16, <1>22
    <3>3. (failures = MissedTo(g) \o Part(g + 1, testno))'
      BY <1>17, <1>19, <1>21
    <3> QED
      BY <1>20, <3>1, <3>2, <3>3 DEF InCases
  <2>3. ReadingAt(g)'
    BY <1>19, <2>1, <2>2 DEF ReadingAt
  <2> QED
    BY <1>18, <1>19, <2>1, <2>3 DEF Reading, Judged
<1>23. CASE ~(e < cases)
  <2>1. at' = "end"
    BY <1>1, <1>10, <1>16, <1>23
  <2>2. AtEnd(g)'
    <3>1. (pos = Length(g) + 5 + Width(g + 1))'
      BY <1>2, <1>15, <1>19, <1>23
    <3>2. (CasesOf(g + 1) <= Len(log[g + 1].verdicts))'
      BY <1>2, <1>15, <1>23
    <3>3. (failures = MissedTo(g) \o Part(g + 1, CasesOf(g + 1)))'
      <4>1. e = cases /\ CasesOf(g + 1)' = cases
        BY <1>2, <1>15, <1>23
      <4>2. Part(g + 1, CasesOf(g + 1))' = Part(g + 1, testno)'
        BY <1>16, <4>1 DEF Part
      <4> QED
        BY <1>17, <1>19, <1>21, <4>2
    <3> QED
      BY <1>20, <3>1, <3>2, <3>3 DEF AtEnd
  <2>3. ReadingAt(g)'
    BY <1>19, <2>1, <2>2 DEF ReadingAt
  <2> QED
    BY <1>18, <1>19, <2>1, <2>3 DEF Reading, Judged
<1> QED
  BY <1>22, <1>23

LEMMA MissedNext ==
    ASSUME Waiting, Started, Placed, NEW g \in Nat, g + 1 \in 1..Len(log),
           KnownTo(g), Known(log[g + 1].group),
           Len(log[g + 1].verdicts) = CasesOf(g + 1)
    PROVE  MissedTo(g + 1) = MissedTo(g) \o Part(g + 1, CasesOf(g + 1))
<1> DEFINE s == [k \in 1..g |-> Missed(k)]
           t == [k \in 1..(g + 1) |-> Missed(k)]
           x == Missed(g + 1)
<1>1. ASSUME NEW k \in 1..(g + 1) PROVE Missed(k) \in Seq(LineNames)
  <2>1. Known(log[k].group)
    <3>1. CASE k = g + 1
      BY <3>1
    <3>2. CASE k # g + 1
      <4>1. k \in 1..g
        BY <3>2
      <4> QED
        BY <4>1 DEF KnownTo
    <3> QED
      BY <3>1, <3>2
  <2>2. Names(log[k].group) \in Seq(LineNames)
    BY <2>1, MissedType
  <2> QED
    BY <2>2, PickedType DEF Missed
<1>2. s \in Seq(Seq(LineNames)) /\ t \in Seq(Seq(LineNames)) /\ x \in Seq(LineNames)
      /\ Len(s) = g /\ Len(t) = g + 1
  <2>1. 1..g \subseteq 1..(g + 1) /\ g + 1 \in 1..(g + 1)
    OBVIOUS
  <2> QED
    BY <1>1, <2>1
<1>3. \A k \in 1..g : t[k] = s[k]
  OBVIOUS
<1>4. t[g + 1] = x
  OBVIOUS
<1>5. x = Part(g + 1, CasesOf(g + 1))
  <2>1. DOMAIN log[g + 1].verdicts = 1..CasesOf(g + 1)
    BY EntryFacts, LenProperties
  <2> QED
    BY <2>1 DEF Missed, Failing, Part
<1>6. MissedTo(g) = FlattenSeq(s) /\ MissedTo(g + 1) = FlattenSeq(t)
  BY DEF MissedTo
<1> HIDE DEF s, t, x
<1> DEFINE a == Append(s, x)
<1>7. /\ a \in Seq(Seq(LineNames)) /\ Len(a) = Len(s) + 1
      /\ \A k \in 1..Len(s) : a[k] = s[k]
      /\ a[Len(s) + 1] = x
  BY <1>2, AppendProperties
<1>8. t = a
  <2>1. Len(t) = Len(a)
    BY <1>2, <1>7
  <2>2. ASSUME NEW k \in 1..Len(t) PROVE t[k] = a[k]
    <3>1. CASE k = g + 1
      BY <1>2, <1>4, <1>7, <3>1
    <3>2. CASE k # g + 1
      <4>1. k \in 1..g
        BY <1>2, <3>2
      <4> QED
        BY <1>2, <1>3, <1>7, <4>1
    <3> QED
      BY <3>1, <3>2
  <2> HIDE DEF a
  <2> QED
    BY <1>2, <1>7, <2>1, <2>2, SeqEqual
<1>9. FlattenSeq(a) = FlattenSeq(s) \o x
  BY <1>2, FlattenAppend
<1> QED
  BY <1>5, <1>6, <1>8, <1>9

LEMMA GroupEndRead ==
    ASSUME Ready, Reader!ReadGroupEnd
    PROVE  Reading' /\ Judged'
<1> DEFINE byte == report[pos + 1]
<1>1. /\ at = "end" /\ UNCHANGED rttmap /\ failures' = failures
      /\ pos < Len(report) /\ pos' = pos + 1
      /\ byte = ExitGroup => at' = "start"
  <2>1. Reader!Byte = byte /\ (Reader!HasByte <=> pos < Len(report))
    BY DEF Reader!Byte, Reader!HasByte
  <2> QED
    BY <2>1 DEF Reader!ReadGroupEnd, Reader!files, Reader!Continue
<1> HIDE DEF byte
<1>2. /\ UNCHANGED <<groups, selection, log, written, report, pc, ret, refused>>
      /\ \A n : Length(n)' = Length(n) /\ Complete(n)' = Complete(n)
                /\ MissedTo(n)' = MissedTo(n) /\ KnownTo(n)' = KnownTo(n)
      /\ Clear' = Clear
  BY <1>1, RunnerSame DEF Ready
<1> SUFFICES ASSUME Clear PROVE Reading' /\ Judged'
  BY <1>2 DEF Reading, Judged
<1>3. PICK g \in 0..Len(log) : ReadingAt(g)
  BY <1>1 DEF Ready, Reading
<1>0. /\ byte = written[pos + 1] /\ pos < Len(written) /\ pos + 1 <= Len(report)
      /\ Len(report) \in Nat
  <2>1. pos \in 0..Len(written) /\ Len(written) \in Nat
    BY <1>1, ByteWritten DEF Ready, Reading
  <2> QED
    BY <1>1, <2>1, ByteWritten DEF byte
<1> DEFINE b == Length(g)
           list == log[g + 1].verdicts
           cases == CasesOf(g + 1)
           w == Width(g + 1)
<1>4. /\ g < Len(log) /\ Known(log[g + 1].group) /\ pos = b + 5 + w
      /\ failures = MissedTo(g) \o Part(g + 1, cases) /\ Complete(g) /\ KnownTo(g)
  BY <1>1, <1>3 DEF ReadingAt, AtEnd
<1>5. Placed /\ Started /\ Waiting
  BY SelectedPlaced DEF Ready, Laid
<1>6. Len(written) \in Nat /\ Len(log) \in Nat
  BY LenProperties DEF Ready, TypesKept, Started
<1>7. b \in Nat /\ g + 1 \in 1..Len(log) /\ g \in 0..(Len(log) - 1) /\ g \in Nat
  BY <1>4, <1>5, <1>6, BodyType
<1>8. w \in Nat
  <2>1. cases \in Nat
    BY <1>5, <1>7, EntryFacts
  <2> QED
    BY <2>1, WidthOf DEF Width
<1>9. pos + 1 = b + 6 + w /\ b + 6 + w <= Len(written)
  <2>1. pos < Len(written) /\ pos = b + 5 + w
    BY <1>0, <1>4
  <2> HIDE DEF b, w
  <2> QED
    BY <1>6, <1>7, <1>8, <2>1
<1>10. GoesOn(g)
  <2>1. Follows(g)
    BY <1>4 DEF Ready, Laid
  <2>2. Len(written) > b + 4
    BY <1>6, <1>7, <1>8, <1>9
  <2> QED
    BY <1>4, <1>6, <1>7, <2>1, <2>2 DEF Follows, Ends, Torn
<1>11. byte = ExitGroup /\ Len(list) = cases
  BY <1>0, <1>9, <1>10 DEF GoesOn
<1>12. Length(g + 1) = b + 6 + w
  BY <1>5, <1>7, <1>11, LengthNext
<1>13. \A k \in 1..(g + 1) : k \in 1..g \/ k = g + 1
  BY <1>7
<1>14. Complete(g + 1) /\ KnownTo(g + 1)
  BY <1>4, <1>11, <1>13 DEF Complete, KnownTo, CasesOf
<1>15. failures = MissedTo(g + 1)
  BY <1>4, <1>5, <1>7, <1>11, MissedNext
<1>16. at' = "start"
  BY <1>1, <1>11
<1>17. AtStart(g + 1)'
  BY <1>1, <1>2, <1>9, <1>12, <1>15 DEF AtStart
<1>18. ReadingAt(g + 1)' /\ g + 1 \in 0..Len(log')
  BY <1>2, <1>7, <1>14, <1>16, <1>17 DEF ReadingAt
<1>19. pos' \in 0..Len(written')
  <2>1. pos' = b + 6 + w
    BY <1>1, <1>9
  <2> HIDE DEF b, w
  <2> QED
    BY <1>2, <1>6, <1>7, <1>8, <1>9, <2>1
<1> QED
  BY <1>16, <1>18, <1>19 DEF Reading, Judged

LEMMA PastEndRead ==
    ASSUME Ready, Reader!ReadPastEnd
    PROVE  Reading' /\ Judged'
<1>1. /\ at \in {"start", "id", "results", "end"} /\ UNCHANGED rttmap
      /\ Stopped /\ ~(pos < Len(report))
      /\ at' = "stopped" /\ verdict' = "error"
  BY DEF Reader!ReadPastEnd, Reader!HasByte, Reader!files, Reader!Conclude,
         Reader!PastEnd
<1>2. Defect' = Defect /\ Clear' = Clear
  BY <1>1, RunnerSame DEF Ready
<1> SUFFICES ASSUME Clear, ~Defect PROVE FALSE
  BY <1>1, <1>2 DEF Reading, Judged
<1> DEFINE n == Len(log)
<1>3. /\ Complete(n) /\ Placed /\ n \in Nat /\ Length(n) \in Nat
      /\ Len(written) = Length(n) + 1 /\ written[Len(written)] = EndOfFile
  BY <1>1, NoDefect DEF Ready
<1>4. PICK g \in 0..n : ReadingAt(g)
  BY <1>1 DEF Ready, Reading
<1>5. pos = Len(written)
  <2>1. pos \in 0..Len(written)
    BY <1>1 DEF Ready, Reading
  <2>2. Len(report) = Len(written) /\ Len(written) \in Nat
    BY ByteWritten DEF Defect
  <2> QED
    BY <1>1, <1>3, <2>1, <2>2
<1>6. Length(g) \in Nat /\ Length(g) <= Length(n)
  <2>1. n \in g..n
    BY <1>3
  <2>2. Starts(Body(g), Body(n))
    BY <1>3, <2>1, BodyStarts DEF Ready
  <2>3. Length(g) \in Nat
    BY <1>3, BodyType DEF Ready
  <2> QED
    BY <2>2, <2>3 DEF Starts, Length
<1>7. ASSUME g < n
      PROVE  /\ Width(g + 1) \in Nat /\ CasesOf(g + 1) \in Nat
             /\ Length(g) + 6 + Width(g + 1) <= Length(n)
  <2>1. g \in 0..(Len(log) - 1) /\ g + 1 \in 1..Len(log) /\ g + 1 \in 0..Len(log)
        /\ n \in (g + 1)..n
    BY <1>3, <1>7
  <2>2. CasesOf(g + 1) \in Nat
    BY <1>3, <2>1, EntryFacts DEF Ready
  <2>3. Width(g + 1) \in Nat
    BY <2>2, WidthOf DEF Width
  <2>4. Len(log[g + 1].verdicts) = CasesOf(g + 1)
    BY <1>3, <2>1 DEF Complete, CasesOf
  <2>5. Length(g + 1) = Length(g) + 6 + Width(g + 1)
    BY <1>3, <2>1, <2>4, LengthNext DEF Ready
  <2>6. Starts(Body(g + 1), Body(n))
    BY <1>3, <2>1, BodyStarts DEF Ready
  <2>7. Length(g + 1) <= Length(n)
    BY <2>6 DEF Starts, Length
  <2> QED
    BY <2>2, <2>3, <2>5, <2>7
<1> DEFINE b == Length(g)
           l == Length(n)
           w == Width(g + 1)
<1>8. b \in Nat /\ l \in Nat /\ b <= l /\ pos = l + 1
  BY <1>3, <1>5, <1>6
<1>9. CASE at = "start"
  <2>1. pos = b
    BY <1>4, <1>9 DEF ReadingAt, AtStart
  <2> HIDE DEF b, l
  <2> QED
    BY <1>8, <2>1
<1>10. CASE at = "id"
  <2>1. count \in 0..3 /\ pos = b + 1 + count /\ written[b + 1] = EnterGroup
    BY <1>4, <1>10 DEF ReadingAt, AtId
  <2>2. CASE g < n
    <3>1. w \in Nat /\ b + 6 + w <= l
      BY <1>7, <2>2
    <3> HIDE DEF b, l, w
    <3> QED
      BY <1>8, <2>1, <3>1
  <2>3. CASE g = n
    BY <1>3, <2>1, <2>3, RTTestAssumption
  <2> QED
    BY <1>3, <2>2, <2>3
<1>11. CASE at = "results"
  <2>1. g < n /\ testno < CasesOf(g + 1)
    BY <1>4, <1>11 DEF ReadingAt, InCases
  <2>2. PICK q \in Nat : testno = q * OctetBits /\ pos = b + 5 + q
    BY <1>4, <1>11 DEF ReadingAt, InCases
  <2>3. w \in Nat /\ CasesOf(g + 1) \in Nat /\ b + 6 + w <= l
    BY <1>7, <2>1
  <2>4. q < w
    BY <2>1, <2>2, <2>3, WidthOf DEF Width
  <2> HIDE DEF b, l, w
  <2> QED
    BY <1>8, <2>2, <2>3, <2>4
<1>12. CASE at = "end"
  <2>1. g < n /\ pos = b + 5 + w
    BY <1>4, <1>12 DEF ReadingAt, AtEnd
  <2>2. w \in Nat /\ b + 6 + w <= l
    BY <1>7, <2>1
  <2> HIDE DEF b, l, w
  <2> QED
    BY <1>8, <2>1, <2>2
<1> QED
  BY <1>1, <1>9, <1>10, <1>11, <1>12

LEMMA ReaderStepReads ==
    ASSUME Ready, Reader!ReaderNext
    PROVE  Reading' /\ Waiting' /\ Judged'
<1>1. Waiting'
  BY ReaderWaiting DEF Ready
<1>2. Reading' /\ Judged'
  BY PreambleRead, GroupStartRead, IdOctetRead, ResultsRead, GroupEndRead,
     PastEndRead
  DEF Reader!ReaderNext
<1> QED
  BY <1>1, <1>2

LEMMA NothingRead ==
    ASSUME Reading, Waiting, Judged, UNCHANGED vars
    PROVE  Reading' /\ Waiting' /\ Judged'
<1>1. /\ UNCHANGED <<runner, reader>>
      /\ UNCHANGED <<source, rttmap, at, pos, gid, count, testno, failures, verdict>>
  BY DEF vars, reader
<1>2. /\ UNCHANGED <<groups, selection, log, written, report, pc, ret, refused>>
      /\ \A n : Length(n)' = Length(n) /\ Complete(n)' = Complete(n)
                /\ MissedTo(n)' = MissedTo(n) /\ KnownTo(n)' = KnownTo(n)
                /\ CasesOf(n)' = CasesOf(n) /\ Width(n)' = Width(n)
      /\ \A k, n : Part(k, n)' = Part(k, n)
      /\ Clear' = Clear /\ Whole' = Whole /\ IdTakenForEnd' = IdTakenForEnd
      /\ Defect' = Defect /\ AllKnown' = AllKnown
      /\ \A k : Known(k)' = Known(k)
  BY <1>1, RunnerSame
<1>3. Waiting'
  BY <1>1, <1>2, RunnerWaiting
<1>4. ASSUME NEW g, ReadingAt(g) PROVE ReadingAt(g)'
  <2>1. at = "start" => AtStart(g)'
    BY <1>1, <1>2, <1>4 DEF ReadingAt, AtStart
  <2>2. at = "id" => AtId(g)'
    <3>1. Base256' = Base256
      BY DEF Base256
    <3>2. PICK b : b = Length(g)
      OBVIOUS
    <3>3. IdRead(b) => IdRead(b)'
      BY <1>1, <1>2, <3>1 DEF IdRead
    <3>4. IdRead(Length(g))' = IdRead(b)'
      BY <1>2, <3>2 DEF IdRead
    <3> QED
      BY <1>1, <1>2, <1>4, <3>2, <3>3, <3>4 DEF ReadingAt, AtId
  <2>3. at = "results" => InCases(g)'
    <3>1. PICK t : t = testno
      OBVIOUS
    <3>2. Part(g + 1, testno)' = Part(g + 1, t)'
      BY <1>1, <3>1 DEF Part
    <3>3. Part(g + 1, testno)' = Part(g + 1, testno)
      BY <1>2, <3>1, <3>2
    <3> QED
      BY <1>1, <1>2, <1>4, <3>3 DEF ReadingAt, InCases
  <2>4. at = "end" => AtEnd(g)'
    <3>1. PICK t : t = CasesOf(g + 1)
      OBVIOUS
    <3>2. Part(g + 1, CasesOf(g + 1))' = Part(g + 1, t)'
      BY <1>2, <3>1 DEF Part
    <3>3. Part(g + 1, CasesOf(g + 1))' = Part(g + 1, CasesOf(g + 1))
      BY <1>2, <3>1, <3>2
    <3> QED
      BY <1>1, <1>2, <1>4, <3>3 DEF ReadingAt, AtEnd
  <2> QED
    BY <1>1, <1>2, <1>4, <2>1, <2>2, <2>3, <2>4 DEF ReadingAt
<1>5. Reading'
  BY <1>1, <1>2, <1>4 DEF Reading
<1>6. Judged'
  <2>1. PICK n : n = Len(log)
    OBVIOUS
  <2>2. KnownTo(Len(log))' = KnownTo(n)' /\ MissedTo(Len(log))' = MissedTo(n)'
    BY <1>2, <2>1 DEF KnownTo, MissedTo
  <2>3. KnownTo(Len(log))' = KnownTo(Len(log)) /\ MissedTo(Len(log))' = MissedTo(Len(log))
    BY <1>2, <2>1, <2>2
  <2> QED
    BY <1>1, <1>2, <2>3 DEF Judged
<1> QED
  BY <1>3, <1>5, <1>6

LEMMA StepReads ==
    ASSUME Reading, Waiting, Judged, Laid, Followed, Started, TypesKept, Refusal,
           [Next]_vars
    PROVE  Reading' /\ Waiting' /\ Judged'
<1>1. CASE RunnerStep
  BY <1>1, RunnerStepReads
<1>2. CASE ReaderStep
  BY <1>2, ReaderStepReads DEF ReaderStep, Ready
<1>3. CASE UNCHANGED vars
  BY <1>3, NothingRead
<1> QED
  BY <1>1, <1>2, <1>3 DEF Next

LEMMA ReadingInvariant == Spec => [](Reading /\ Waiting /\ Judged)
<1>1. Init => Reading /\ Waiting /\ Judged
  BY InitWaiting
<1>2. /\ Reading /\ Waiting /\ Judged
      /\ Laid /\ Astray
      /\ Followed /\ Started /\ TypesKept /\ Refusal
      /\ [Next]_vars
      => Reading' /\ Waiting' /\ Judged'
  BY StepReads
<1> QED
  BY <1>1, <1>2, LaidInvariant, FollowedInvariant, StartedInvariant,
     TypesInvariant,
     RefusalInvariant, PTL DEF Spec

LEMMA FlattenNothing ==
    ASSUME NEW S, NEW s \in Seq(Seq(S)), FlattenSeq(s) = <<>>
    PROVE  \A k \in 1..Len(s) : s[k] = <<>>
<1>1. CASE Len(s) = 0
  BY <1>1
<1>2. CASE Len(s) # 0
  <2> DEFINE n == Len(s)
  <2>1. PICK f : Joins(f, s, S) /\ FlattenSeq(s) = f[n]
    BY <1>2, FlattenJoins
  <2>2. n \in Nat \ {0}
    BY <1>2, LenProperties
  <2> DEFINE T == {d \in Nat : d < n /\ f[d + 1] = <<>> =>
                                  \A k \in 1..(d + 1) : s[k] = <<>>}
  <2>3. 0 \in T
    BY <2>1 DEF Joins
  <2>4. ASSUME NEW d \in Nat, d \in T PROVE d + 1 \in T
    <3> DEFINE j == d + 1
    <3> SUFFICES ASSUME j < n, f[j + 1] = <<>>
                 PROVE  \A k \in 1..(j + 1) : s[k] = <<>>
      OBVIOUS
    <3>1. j \in 1..(n - 1) /\ j + 1 \in 1..n /\ j \in 1..n /\ d < n
      BY <2>2
    <3>2. f[j + 1] = f[j] \o s[j + 1] /\ f[j] \in Seq(S) /\ s[j + 1] \in Seq(S)
      BY <2>1, <3>1, ElementOfSeq DEF Joins
    <3>3. f[j] = <<>> /\ s[j + 1] = <<>>
      <4> DEFINE a == f[j]
                 b == s[j + 1]
      <4>1. a \in Seq(S) /\ b \in Seq(S) /\ a \o b = <<>>
        BY <3>2
      <4> HIDE DEF a, b
      <4>2. a = <<>> /\ b = <<>>
        BY <4>1, ConcatEqualIffEmpty
      <4> QED
        BY <4>2 DEF a, b
    <3>4. \A k \in 1..j : s[k] = <<>>
      BY <2>4, <3>1, <3>3
    <3>5. \A k \in 1..(j + 1) : k = j + 1 \/ k \in 1..j
      BY <3>1
    <3> HIDE DEF j
    <3> QED
      BY <3>3, <3>4, <3>5
  <2> HIDE DEF T
  <2>5. \A d \in Nat : d \in T
    BY <2>3, <2>4, NatSetInduction
  <2>6. n - 1 \in Nat /\ n - 1 < n /\ (n - 1) + 1 = n
    BY <2>2
  <2>7. f[n] = <<>> => \A k \in 1..n : s[k] = <<>>
    BY <2>5, <2>6 DEF T
  <2> QED
    BY <2>1, <2>7
<1> QED
  BY <1>1, <1>2

(* What the test cases of a group of a whole run were, and what the reader *)
(* says of it.                                                             *)
LEMMA WholeGroup ==
    ASSUME Started, Placed, LogSelected, EverythingRun, Counted, Waiting,
           NEW k \in 1..Len(log), Known(log[k].group)
    PROVE  /\ Names(log[k].group) \in Seq(LineNames)
           /\ Len(Names(log[k].group)) = CasesOf(k)
           /\ Len(log[k].verdicts) = CasesOf(k)
           /\ Failing(log[k].verdicts) \in SUBSET (1..CasesOf(k))
           /\ CasesOf(k) \in Nat
           /\ FailedCases(log[k])
                 = Picked(groups[log[k].group].cases, Failing(log[k].verdicts))
<1>1. DOMAIN log = 1..Len(log)
  BY LenProperties DEF Started
<1>2. log[k].group \in Selected
  BY <1>1 DEF LogSelected
<1>3. Len(log[k].verdicts) = CasesOf(k)
  BY <1>1 DEF EverythingRun, CasesOf
<1>4. DOMAIN log[k].verdicts = 1..CasesOf(k) /\ CasesOf(k) \in Nat
  BY <1>3, EntryFacts, LenProperties
<1>5. Names(log[k].group) \in Seq(LineNames)
  BY MissedType
<1>6. Len(Names(log[k].group)) = CasesOf(k)
  BY <1>2 DEF Counted, CasesOf
<1>7. Failing(log[k].verdicts) \in SUBSET (1..CasesOf(k))
  BY <1>4 DEF Failing
<1>8. FailedCases(log[k])
         = Picked(groups[log[k].group].cases, Failing(log[k].verdicts))
  BY DEF FailedCases, Failing
<1> QED
  BY <1>3, <1>4, <1>5, <1>6, <1>7, <1>8

(* An output without a gap is what the reader relies on. *)
LEMMA UnbrokenStarts ==
    ASSUME TypesKept, Unbroken
    PROVE  Starts(report, written)
BY PrefixStarts DEF TypesKept, Unbroken

(* "UNIT TEST PASS" is only ever said of a run that did all it was asked   *)
(* to without a failure, and whose whole report arrived, wherever an octet *)
(* was refused, the program died or the output gave up for good            *)
(* (rttest2text.py:136-145); but where an id took the place of the mark of *)
(* the end.                                                                *)
THEOREM PassIsTrueCorrect == Spec => []PassIsTrue
<1>1. Judged /\ Waiting /\ Laid /\ Started /\ TypesKept => PassIsTrue
  <2> SUFFICES ASSUME Judged, Waiting, Laid, Started, TypesKept,
                      verdict = "pass", Counted, Unbroken, ~IdTakenForEnd
               PROVE  Finished /\ report = written /\ EverythingRun /\ Failed = <<>>
    BY DEF PassIsTrue
  <2> DEFINE n == Len(log)
             s == [k \in 1..n |-> Missed(k)]
             t == [k \in DOMAIN log |-> FailedCases(log[k])]
  <2>1. Whole /\ report = written /\ KnownTo(n) /\ MissedTo(n) = <<>>
    <3>1. at = "stopped"
      BY DEF Waiting
    <3> QED
      BY <3>1, UnbrokenStarts DEF Judged, Clear
  <2>2. LogSelected /\ Placed /\ EverythingRun
    BY <2>1, SelectedPlaced DEF Laid, Whole
  <2>3. DOMAIN log = 1..n /\ n \in Nat
    BY LenProperties DEF Started
  <2>4. ASSUME NEW k \in 1..n
        PROVE  Known(log[k].group) /\ Missed(k) \in Seq(LineNames)
    <3>1. Known(log[k].group)
      BY <2>1 DEF KnownTo
    <3> QED
      BY <2>2, <3>1, WholeGroup, PickedType DEF Missed
  <2>5. s \in Seq(Seq(LineNames)) /\ Len(s) = n
    BY <2>3, <2>4
  <2>6. FlattenSeq(s) = <<>>
    BY <2>1 DEF MissedTo
  <2>7. ASSUME NEW k \in 1..n PROVE Missed(k) = <<>>
    <3>1. s[k] = Missed(k)
      OBVIOUS
    <3> HIDE DEF s
    <3>2. s[k] = <<>>
      BY <2>5, <2>6, FlattenNothing
    <3> QED
      BY <3>1, <3>2
  <2>8. ASSUME NEW k \in 1..n PROVE FailedCases(log[k]) = Missed(k)
    <3> DEFINE names == Names(log[k].group)
               cases == groups[log[k].group].cases
               bad == Failing(log[k].verdicts)
    <3>1. /\ names \in Seq(LineNames) /\ Len(names) = CasesOf(k)
          /\ bad \in SUBSET (1..CasesOf(k)) /\ CasesOf(k) \in Nat
          /\ FailedCases(log[k]) = Picked(cases, bad)
      BY <2>2, <2>4, WholeGroup
    <3>2. bad = {}
      <4> SUFFICES ASSUME NEW x \in bad PROVE FALSE
        OBVIOUS
      <4>1. x \in 1..Len(names) /\ bad \in SUBSET Nat
        BY <3>1
      <4>2. Picked(names, bad) = <<>>
        BY <2>7 DEF Missed
      <4> HIDE DEF names, bad
      <4> QED
        BY <3>1, <4>1, <4>2, PickedSome
    <3>3. Picked(cases, {}) = <<>>
      <4>1. PICK S : cases \in Seq(S)
        BY <2>2, EntryFacts, GroupFacts, RTTestAssumption DEF Started
      <4> HIDE DEF cases
      <4> QED
        BY <4>1, PickedNone
    <3> QED
      BY <2>7, <3>1, <3>2, <3>3
  <2>9. t = s
    BY <2>3, <2>8
  <2> QED
    BY <2>1, <2>6, <2>9 DEF Whole, Failed
<1> QED
  BY <1>1, ReadingInvariant, LaidInvariant, StartedInvariant, TypesInvariant, PTL

(* The test cases printed as FAIL are those that failed, in order; whether *)
(* source files lack other groups or not.                                  *)
THEOREM FailuresAreNamedCorrect == Spec => []FailuresAreNamed
<1>1. Judged /\ Waiting /\ Laid /\ Started /\ TypesKept => FailuresAreNamed
  <2> SUFFICES ASSUME Judged, Waiting, Laid, Started, TypesKept,
                      verdict \in {"pass", "fail"}, Listed, Unbroken, ~IdTakenForEnd
               PROVE  failures = Failed
    BY DEF FailuresAreNamed
  <2> DEFINE n == Len(log)
  <2>1. Counted
    BY DEF Listed, Counted
  <2>2. Whole /\ KnownTo(n) /\ failures = MissedTo(n)
    <3>1. at = "stopped"
      BY DEF Waiting
    <3> QED
      BY <2>1, <3>1, UnbrokenStarts DEF Judged, Clear
  <2>3. LogSelected /\ Placed /\ EverythingRun
    BY <2>2, SelectedPlaced DEF Laid, Whole
  <2>4. DOMAIN log = 1..n
    BY LenProperties DEF Started
  <2>5. ASSUME NEW k \in 1..n PROVE FailedCases(log[k]) = Missed(k)
    <3>1. Known(log[k].group) /\ log[k].group \in Selected
      BY <2>2, <2>3, <2>4 DEF KnownTo, LogSelected
    <3>2. Names(log[k].group) = groups[log[k].group].cases
      BY <3>1 DEF Listed
    <3> QED
      BY <3>2 DEF FailedCases, Missed, Failing
  <2>6. [k \in DOMAIN log |-> FailedCases(log[k])] = [k \in 1..n |-> Missed(k)]
    BY <2>4, <2>5
  <2> QED
    BY <2>2, <2>6 DEF Failed, MissedTo
<1> QED
  BY <1>1, ReadingInvariant, LaidInvariant, StartedInvariant, TypesInvariant, PTL

(* A whole report of known groups is read to its end: result octets and    *)
(* ids that look like marks confuse nobody (rttest2text.py:147-190).       *)
THEOREM NoFalseAlarmCorrect == Spec => []NoFalseAlarm
<1>1. Judged /\ Waiting /\ Refusal /\ TypesKept => NoFalseAlarm
  <2> SUFFICES ASSUME Judged, Waiting, Refusal, TypesKept, verdict = "error", Finished,
                      report = written, pos # 0, Counted, AllKnown
               PROVE  FALSE
    BY DEF NoFalseAlarm, AllKnown
  <2>1. at = "stopped"
    BY DEF Waiting
  <2>2. Len(report) \in Nat /\ Starts(report, written)
    BY LenProperties DEF TypesKept, Starts
  <2>4. Defect
    BY <2>1, <2>2 DEF Judged, Clear
  <2>3. pc = "done" /\ ret >= 0 /\ ret # -1
    BY DEF Finished, Refusal
  <2> QED
    BY <2>2, <2>3, <2>4 DEF Defect, Refusal
<1> QED
  BY <1>1, ReadingInvariant, RefusalInvariant, TypesInvariant, PTL
=============================================================================
