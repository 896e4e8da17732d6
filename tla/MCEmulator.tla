----------------------------- MODULE MCEmulator -----------------------------
(* Command lines for the three builds: each option by itself, the options  *)
(* that touch the same setting in pairs, good and bad ELF files, and RVFI  *)
(* servers with and without a limit.  Only one program, which uses the     *)
(* clock, runs without a limit.                                            *)
EXTENDS Emulator

Opt(o, a) == [opt |-> o, arg |-> a]
Limit(n)  == Opt("l", n)

Elf == [is32 |-> xlen32, tohost |-> 1, begin_signature |-> 1, end_signature |-> 3,
        image |-> [a \in {1} |-> 1], runs |-> "memory"]
Clock    == [Elf EXCEPT !.runs = "clock"]
WrongElf == [Elf EXCEPT !.is32 = ~xlen32]
NoTohost == [Elf EXCEPT !.tohost = 0]
OnlyEnd  == [Elf EXCEPT !.begin_signature = 0]
Extra    == [Elf EXCEPT !.tohost = 2, !.begin_signature = 3, !.image = [a \in {2} |-> 1]]

FlagOptions == {Opt(f, "") : f \in DOMAIN Flags \cup {"x"}}
Others ==
  {Opt("a", ""), Opt("h", ""), Opt("?", ""), Opt("r", ""), Opt("P", ""),
   Opt("pmp-count", 16), Opt("pmp-count", 5), Opt("pmp-grain", 63), Opt("pmp-grain", -1),
   Opt("z", 0), Opt("z", 8), Opt("cache-block-size", 4096), Opt("cache-block-size", 8192),
   Opt("cache-block-size", 48), Opt("v", ""), Opt("V", "all"), Opt("v", "step"),
   Opt("V", "clock"), Opt("b", "unreadable"), Opt("b", "other"), Opt("t", "unwritable"),
   Opt("t", "writable"), Opt("trace-output", "writable")}
Paired == {Opt("x", ""), Opt("F", ""), Opt("V", ""), Opt("v", "rvfi"), Opt("pmp-count", 64),
           Opt("pmp-count", 0)}

Line(b, opts, fs) == [build |-> b, opts |-> opts, files |-> fs]
Sig(t, g)         == <<Opt("T", t), Opt("g", g), Limit(2)>>

SmallCmdLines ==
  {Line("plain", <<o, Limit(1)>>, <<Elf>>) : o \in FlagOptions \cup Others}
    \cup {Line("plain", <<o, p, Limit(1)>>, <<Elf>>) : o, p \in Paired}
    \cup {Line("plain", <<Limit(1)>>, fs) :
            fs \in {<<>>, <<WrongElf>>, <<NoTohost>>, <<Elf, WrongElf>>, <<Elf, NoTohost>>,
                    <<Elf, Extra>>}}
    \cup {Line("plain", Sig("file", g), <<f, Extra>>) :
            g \in {1, 2, 4}, f \in {Elf, OnlyEnd, NoTohost}}
    \cup {Line("plain", Sig("unwritable", 1), <<Elf>>)}
    \cup {Line("spike", <<o, Limit(2)>>, <<Elf>>) :
            o \in {Opt("d", ""), Opt("m", ""), Opt("b", "spike"), Opt("b", "other"),
                   Opt("T", "file")}}
    \cup {Line("rvfi", <<Limit(1)>>, <<Elf>>)}

RvfiCmdLines == {Line("rvfi", <<Opt("r", "")>> \o o, <<>>) : o \in {<<>>, <<Limit(2)>>}}

AllCmdLines ==
  SmallCmdLines \cup RvfiCmdLines \cup {Line("plain", <<>>, <<Clock>>),
                                        Line("rvfi", <<Opt("r", "")>>, <<WrongElf, Extra>>)}

I(op, a, v) == [op |-> op, addr |-> a, val |-> v]
Program     == {I("load", 0, 0), I("store", 2, 1), I("lr", 1, 0), I("sc", 1, 0), I("sc", 2, 0)}
Commands    == {I("load", 1, 0), I("store", 1, 1), I("illegal", 0, 0), I("unfetched", 0, 0)}
LrSc        == {I("lr", 1, 0), I("sc", 1, 1)}
=============================================================================
