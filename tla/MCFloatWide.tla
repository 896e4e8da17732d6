----------------------------- MODULE MCFloatWide -----------------------------
(* A quadruple format of 17 bits in words of 7, an extended one of 13 bits *)
(* and words of 4 bits for the arithmetic on several words.                *)
EXTENDS SoftFloatMem

Small(e, f, r, keep) ==
    [E |-> e, F |-> f, R |-> r, slack |-> 1, step |-> 1, pre |-> 0, fastDiv |-> FALSE, keepNaN |-> keep]
MC16 == Small(3, 2, 3, FALSE)
MC32 == Small(4, 2, 3, FALSE)
MC64 == Small(4, 2, 3, FALSE)
MC128 == Small(5, 11, 7, TRUE)

MCJobs == {"one128", "two128", "three128", "one80", "two80", "f16", "f32", "f64",
           "i32", "ui32", "i64", "ui64", "words128", "words256", "shift128", "shift256"}
Quads(exps, fracs) == {Pack(F128, s, e, x) : s \in 0 .. 1, e \in exps, x \in fracs}
Exts(exps, sigs) ==
    {packToExtF80(s, e, (IF e = 0 THEN 0 ELSE XTop) + x) : s \in 0 .. 1, e \in exps, x \in sigs}
One128 == Quads(0 .. 31, {0, 1, 8, 63, 64, 65, 1023, 1024, 1025, 2046, 2047})
Two128 == Quads({0, 1, 2, 13, 15, 16, 29, 30, 31}, {0, 1, 1024, 2047})
Three128 == Quads({0, 1, 12, 15, 18, 30, 31}, {0, 2047})
One80 == Exts(0 .. 31, {0, 1, 3, 4, 7, 8, 31, 32, 33, 62, 63})
Two80 == Exts({0, 1, 2, 8, 14, 16, 29, 30, 31}, {0, 1, 31, 63})
Words == {0, 1, 7, 8, 15}
Pairs == Words \X Words
Fours == {<<w, x, y, z>> : w, x, z \in {0, 1, 15}, y \in {0, 15}}

MCStored(j) ==
    CASE j = "one128" -> {<<x, 0, 0>> : x \in One128}
      [] j = "two128" -> {<<x, y, 0>> : x, y \in Two128}
      [] j = "three128" -> Three128 \X Three128 \X Three128
      [] j = "one80" -> {<<x, 0, 0>> : x \in One80}
      [] j = "two80" -> {<<x, y, 0>> : x, y \in Two80}
      [] j = "f16" -> {<<x>> : x \in 0 .. 2^W(F16) - 1}
      [] j = "f32" -> {<<x>> : x \in 0 .. 2^W(F32) - 1}
      [] j = "f64" -> {<<x>> : x \in 0 .. 2^W(F64) - 1}
      [] j = "i32" -> {<<x>> : x \in -2 .. 1}
      [] j = "ui32" -> {<<x>> : x \in 0 .. 3}
      [] j = "i64" -> {<<x>> : x \in -64 .. 63}
      [] j = "ui64" -> {<<x>> : x \in 0 .. 127}
      [] j = "words128" -> {<<x, y, 0>> : x, y \in Pairs}
      [] j = "words256" -> {<<x, y, 0>> : x, y \in Fours}
      [] j = "shift128" -> {<<x, e, d>> : x \in (0 .. 15) \X (0 .. 15), e \in {0, 5}, d \in 1 .. 10}
      [] j = "shift256" -> {<<x, 0, d>> : x \in Fours, d \in 1 .. 18}
MCGlobals(j) ==
    CASE j \in {"one128", "two128"} -> {<<m, 80, {}>> : m \in RoundingModes}
      [] j = "three128" -> {<<m, 80, {"infinite"}>> : m \in {"near_even", "min", "odd"}}
      [] j = "one80" -> {<<m, 80, {}>> : m \in RoundingModes} \cup {<<"max", 64, {}>>, <<"near_even", 32, {}>>}
      [] j = "two80" -> {<<m, 80, {}>> : m \in {"near_even", "min", "odd"}}
                           \cup {<<"near_maxMag", 64, {}>>, <<"max", 32, {}>>}
      [] OTHER -> {<<"minMag", 32, {"inexact"}>>}
==============================================================================
