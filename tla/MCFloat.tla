------------------------------- MODULE MCFloat -------------------------------
(* Three small formats, each with the features of the one it stands for,   *)
(* and the operands around every boundary of their algorithms.             *)
EXTENDS SoftFloatCalls

Small(e, f, r, slack, step, pre, fast) ==
    [E |-> e, F |-> f, R |-> r, slack |-> slack, step |-> step, pre |-> pre,
     fastDiv |-> fast, keepNaN |-> FALSE]
MC16 == Small(3, 2, 3, 1, 1, 0, FALSE)
MC32 == Small(5, 5, 3, 2, 1, 9, TRUE)
MC64 == Small(6, 9, 4, 2, 2, 5, FALSE)

Patterns(f, exps, fracs) ==
    {s * 2^(W(f) - 1) + e * 2^f.F + x : s \in 0 .. 1, e \in exps, x \in fracs}
Both(f) == IF f = F32 THEN Patterns(F32, {0, 1, 14, 15, 20, 30, 31}, {0, 1, 31})
           ELSE IF f = F64 THEN Patterns(F64, {0, 1, 30, 31, 42, 62, 63}, {0, 1, 511})
           ELSE Patterns(F16, {0, 1, 2, 3, 5, 6, 7}, {0, 1, 3})
All(f) == IF f = F64 THEN Patterns(F64, 0 .. 63, {0, 1, 255, 256, 257, 511})
          ELSE IF f = F32 THEN Patterns(F32, 0 .. 31, {0, 1, 8, 15, 16, 17, 30, 31})
          ELSE 0 .. 63
Three(f) == IF f = F32 THEN Patterns(F32, {0, 1, 15, 17, 30, 31}, {0, 31})
            ELSE IF f = F64 THEN Patterns(F64, {0, 1, 31, 34, 62, 63}, {0, 511})
            ELSE Patterns(F16, {0, 1, 3, 6, 7}, {0, 3})
Few(f) == {Pack(f, 1, 1, 1), Pack(f, 0, ExpMax(f), 1), Pack(f, 0, ExpMax(f) - 1, Hidden(f) - 1)}
Words(t) == IF t \in {"i32", "ui32"} THEN {0, 1, 2, 63, 64, 65, 127, 130, 511, 512, 513, 768, 1022, 1023}
            ELSE {0, 1, 1023, 1024, 1025, 2047, 4100, 12289, 16383, 16384, 16385, 24577, 32766, 32767}
Unary == {"sqrt", "roundToInt", "roundToIntExact", "toFloat", "toInt"}
Binary == {"add", "sub", "mul", "div"} \cup Compares

Box(f, us) == {nan_box(f, u) : u \in us}
MCOperands(op, name, first) ==
    LET f == Format(name)
    IN  IF name \in IntTypes
        THEN IF first THEN {<<x, 0, 0>> : x \in Words(name)} ELSE {<<1023, 0, 0>>}
        ELSE IF ~first
        THEN IF op \in MulAdds THEN {<<x, nan_box(f, Pack(f, 0, Bias(f), 1)), x>> : x \in Box(f, Few(f))}
             ELSE {<<x, x, 0>> : x \in Box(f, Few(f))} \cup {<<2, 2, 0>>}
        ELSE IF op \in Unary THEN {<<x, 0, 0>> : x \in Box(f, All(f))}
        ELSE IF op \in Binary THEN {<<x, y, 0>> : x, y \in Box(f, Both(f))}
        ELSE IF op = "madd" THEN {<<x, y, z>> : x, y, z \in Box(f, Three(f))}
        ELSE {}
MCRmFields(op, first) == IF op = "csrw" THEN {"max", "reserved"}
                         ELSE IF ~first THEN {"dyn", "min"}
                         ELSE IF op \in MulAdds \cup {"sub"} THEN {"near_even", "min", "max"}
                         ELSE DynamicModes
Later == {<<"add", "f32">>, <<"lt", "f16">>, <<"msub", "f16">>, <<"nmsub", "f16">>, <<"nmadd", "f16">>,
          <<"toInt", "f64">>, <<"csrw", "none">>, <<"mstatus", "none">>, <<"call", "f64">>}
MCFollows(i, op, f) ==
    /\ <<op, f>> \in Later
    /\ op = "csrw" => i.op = "none"
    /\ op = "call" => i.op = "mul"
    /\ \/ i.op \in {"none", "csrw"}
       \/ i.op = "lt" /\ i.f = "f16" /\ i.x = <<nan_box(F16, 29), nan_box(F16, 29), 0>>
       \/ i.op = "mul" /\ i.f = "f32" /\ i.rm = "max" /\ i.x[1] = nan_box(F32, 991) /\ i.x[2] = i.x[1]

OddOnly == {"add", "sub", "mul", "div", "sqrt", "mulAdd", "roundToInt", "to_f16", "to_f32"}
MCCallModes(op, first) ==
    IF ~first THEN IF op = "rem" THEN {"min"} ELSE {}
    ELSE IF op \in OddOnly THEN {"odd"}
    ELSE IF op \in {"to_i32", "to_ui32", "to_i64", "to_ui64", "from_i32", "from_ui32",
                    "from_i64", "from_ui64"} THEN {"odd", "near_even"}
    ELSE IF op \in {"roundPack", "normRoundPack", "roundToI32", "roundToUI32", "roundToI64", "roundToUI64"}
    THEN RoundingModes
    ELSE {"min"}
Significands(f) == LET t == 2^(SW(f) - 2) IN {t, t + 1, t + 2^(R(f) - 1), t + 2^R(f), t + 3 * 2^(R(f) - 1), 2 * t - 2^(R(f) - 1), 2 * t - 1}
MCArguments(op, name, first) ==
    LET f == Format(name)
        Ints(w, signed) == IF signed THEN {SignedWord(w, x) : x \in Words(IF w = I32 THEN "i32" ELSE "i64")}
                           ELSE Words(IF w = I32 THEN "i32" ELSE "i64")
    IN  IF ~first THEN IF op = "rem" THEN {<<Pack(f, 0, ExpMax(f), 1), 0, 0>>} ELSE {}
        ELSE IF name = "word"
        THEN CASE op \in {"roundToI32", "roundToUI32"} ->
                    {<<s, q * 16 + r, e>> : s, e \in 0 .. 1, r \in {0, 1, 7, 8, 9, 15},
                        q \in {0, 1, 2, 3, 510, 511, 512, 513, 1022, 1023, 1024, 1025}}
               [] op \in {"roundToI64", "roundToUI64"} ->
                    {<<s, q, r>> : s \in 0 .. 1, r \in {0, 1, 16383, 16384, 16385, 32767},
                        q \in {0, 1, 2, 3, 16383, 16384, 16385, 32766, 32767}}
               [] op = "countLeadingZeros16" -> {<<x, 0, 0>> : x \in 0 .. 127}
               [] op \in {"countLeadingZeros32", "countLeadingZeros64"} ->
                    {<<x, 0, 0>> : x \in 0 .. 1023}
               [] op = "shortShiftRightJam64" -> {<<x, d, 0>> : x \in 0 .. 80, d \in 1 .. 14}
               [] OTHER -> {<<x, d, e>> : x \in 0 .. 80 \cup {511, 512, 513, 1023}, d \in 1 .. 18, e \in {0, 5}}
        ELSE CASE \/ name = "f16" /\ op \in {"to_f16", "to_f32"}
                  \/ name = "f32" /\ op = "to_f32"
                  \/ name = "f64" /\ op \in {"from_i32", "from_ui32"} -> {}
               [] op \in {"sqrt", "isSignalingNaN", "roundToInt", "to_f16", "to_f32",
                          "to_i32", "to_ui32", "to_i64", "to_ui64"} ->
                    {<<x, 0, 0>> : x \in All(f)}
               [] op \in {"to_i32_r_minMag", "to_ui32_r_minMag", "to_i64_r_minMag",
                          "to_ui64_r_minMag"} -> {<<x, e, 0>> : x \in All(f), e \in 0 .. 1}
               [] op = "mulAdd" ->
                    {<<x, y, z>> : x, y, z \in Three(f)}
               [] op = "from_i32" -> {<<x, 0, 0>> : x \in Ints(I32, TRUE)}
               [] op = "from_ui32" -> {<<x, 0, 0>> : x \in Ints(I32, FALSE)}
               [] op = "from_i64" -> {<<x, 0, 0>> : x \in Ints(I64, TRUE)}
               [] op = "from_ui64" -> {<<x, 0, 0>> : x \in Ints(I64, FALSE)}
               [] op = "propagateNaN" -> {<<x, y, 0>> : x \in Both(f), y \in {u \in Both(f) : IsNaN(f, u)}}
               [] op \in {"roundPack", "normRoundPack"} ->
                    {<<s, e, x>> : s \in 0 .. 1, x \in Significands(f) \cup (IF op = "roundPack" THEN {} ELSE {1, 3}),
                        e \in {-12, -3, -2, -1, 0, 1, 2, ExpMax(f) - 4, ExpMax(f) - 3, ExpMax(f) - 2, ExpMax(f) - 1, ExpMax(f) + 9}}
               [] op = "normSubnormal" -> {<<0, 0, x>> : x \in 1 .. Hidden(f) - 1}
               [] OTHER -> {<<x, y, 0>> : x, y \in Both(f)}
MCResumesCall(r) == r = NoCall \/ (r.op = "rem" /\ r.f = "f64" /\ r.v = <<Pack(F64, 0, 63, 1), 0, 0>>)
==============================================================================
