------------------------------ MODULE MCRTPlf -------------------------------
(***************************************************************************)
(* Numbers of 4 bits, longs of 6, an array of 5 chars, which just holds a  *)
(* number in base 2, and strings that are shorter and longer than it.      *)
(***************************************************************************)
EXTENDS RTPlf

MCSizes == {0, 1, 2, 5}
MCNumbers == {-8, 0, 10, 15}
MCTimes == {0, 2, 15, 16, 31, 34}

MCStrings == {
    <<>>,
    <<48, 49, 50>>,             \* "012": octal
    <<48, 57>>,                 \* "09": not octal
    <<48, 120>>,                \* "0x"
    <<48, 120, 102, 49>>,       \* "0xf1": more than 4 bits
    <<48, 88, 70>>,             \* "0XF"
    <<70>>,                     \* "F": a number in base 16 only
    <<32, 43, 53>>,             \* " +5"
    <<98, 49, 48, 50>>,         \* "b102"
    <<45, 57, 57, 57>>,         \* "-999": more than 6 bits
    <<49, 50, 51, 52, 53>>,     \* "12345": longer than the array
    <<49, 50, 51, 52, 53, 54>>} \* "123456": too long for RTStrlen
=============================================================================
