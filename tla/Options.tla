------------------------------ MODULE Options -------------------------------
(***************************************************************************)
(* The command line of the emulator: what each option does to the settings *)
(* of the platform, and which options end the emulator at once.            *)
(*                                                                         *)
(* An option is a record of its name (its letter where it has one) and its *)
(* argument, a number where the code converts it with atol or atoi.  The   *)
(* settings are one record; uint64_t has WordBits bits.                    *)
(***************************************************************************)
EXTENDS Integers, Sequences

CONSTANT WordBits   \* the width of uint64_t (a bound; 64 in the code)

ASSUME OptionsAssumption == WordBits \in Nat \ {0}

Unsigned(v) == v % 2^WordBits
-----------------------------------------------------------------------------
(* The options that set one flag each, with the value they set it to. *)
EnableFlags ==
  [B |-> <<"bext", TRUE>>, d |-> <<"dirty_update", TRUE>>, m |-> <<"misaligned", TRUE>>]

DisableFlags ==
  [C |-> <<"rvc", FALSE>>, I |-> <<"writable_misa", FALSE>>, F |-> <<"fdext", FALSE>>,
   W |-> <<"vext", FALSE>>]

PlatformFlags ==
  [i |-> <<"mtval_has_illegal_inst_bits", TRUE>>, fiom |-> <<"writable_fiom", TRUE>>,
   s |-> <<"dump_dts", TRUE>>, p |-> <<"show_times", TRUE>>]

ExtensionFlags ==
  [svinval |-> <<"svinval", TRUE>>, zcb |-> <<"zcb", TRUE>>, zicbom |-> <<"zicbom", TRUE>>,
   zicboz |-> <<"zicboz", TRUE>>]

Flags ==
  [o \in UNION {DOMAIN EnableFlags, DOMAIN DisableFlags, DOMAIN PlatformFlags,
                DOMAIN ExtensionFlags} |->
     CASE o \in DOMAIN EnableFlags    -> EnableFlags[o]
       [] o \in DOMAIN DisableFlags   -> DisableFlags[o]
       [] o \in DOMAIN PlatformFlags  -> PlatformFlags[o]
       [] o \in DOMAIN ExtensionFlags -> ExtensionFlags[o]]

(* What getopt_long knows; it returns '?' for anything else.  P is in its  *)
(* string and has no case: it does nothing, and trace-output only says     *)
(* where the trace goes.                                                   *)
OptionNames(build) ==
  DOMAIN Flags \cup {"a", "h", "x", "z", "b", "t", "T", "g", "v", "V", "l", "P",
                     "pmp-count", "pmp-grain", "cache-block-size", "trace-output"}
    \cup IF build = "rvfi" THEN {"r"} ELSE {}

DefaultFlags ==
  [bext |-> FALSE, dirty_update |-> FALSE, misaligned |-> FALSE, rvc |-> TRUE,
   writable_misa |-> TRUE, fdext |-> TRUE, zfinx |-> FALSE, vext |-> TRUE,
   mtval_has_illegal_inst_bits |-> FALSE, writable_fiom |-> TRUE, dump_dts |-> FALSE,
   show_times |-> FALSE, svinval |-> FALSE, zcb |-> FALSE, zicbom |-> FALSE,
   zicboz |-> FALSE]

(* What the traces print.  "all", like no category, leaves out "step". *)
AllCategories == {"instr", "reg", "mem", "rvfi", "platform"}
Categories    == AllCategories \cup {"step"}

Named(var) == IF var \in {"", "all"} THEN AllCategories ELSE {var} \cap Categories

set_config_print(print, var, val) ==
  IF val THEN print \cup Named(var) ELSE print \ Named(var)

DefaultConfig ==
  [flag |-> DefaultFlags, pmp_count |-> 0, pmp_grain |-> 0,
   ram_size |-> Unsigned(64 * 2^20), cache_block_size_exp |-> 6,
   dtb_file |-> "", term_log |-> "", sig_file |-> "", granularity |-> 4,
   print |-> AllCategories \ {"rvfi"}, rvfi_dii |-> FALSE]
-----------------------------------------------------------------------------
(* How the model asks for its settings. *)
sys_enable(c, f)             == c.flag[f]
plat_enable(c, f)            == c.flag[f]
sys_pmp_count(c)             == c.pmp_count
sys_pmp_grain(c)             == c.pmp_grain
plat_ram_size(c)             == c.ram_size
plat_cache_block_size_exp(c) == c.cache_block_size_exp

(* log2 of x, or -1 converted to uint64_t when x is not a power of 2. *)
ilog2(x) ==
  IF \E n \in 0 .. WordBits - 1 : x = 2^n
  THEN CHOOSE n \in 0 .. WordBits - 1 : x = 2^n ELSE Unsigned(-1)

BlockSizeValid(x) == ilog2(Unsigned(x)) <= 12

(* What ends the emulator with a message and status 1. *)
Rejected(build, o) ==
  CASE o.opt \notin OptionNames(build) -> TRUE
    [] o.opt = "pmp-count"        -> Unsigned(o.arg) \notin {0, 16, 64}
    [] o.opt = "pmp-grain"        -> Unsigned(o.arg) \notin 0 .. 63
    [] o.opt = "z"                -> Unsigned(o.arg) = 0
    [] o.opt = "cache-block-size" -> ~BlockSizeValid(o.arg)
    [] o.opt \in {"v", "V"}       -> Named(o.arg) = {}
    [] OTHER                      -> FALSE

(* report_arch and print_usage: the emulator ends with status 0. *)
Reports(o) == o.opt \in {"a", "h"}

WithZfinx(c) == [c EXCEPT !.flag.zfinx = TRUE, !.flag.fdext = FALSE]

Configured(c, o) ==
  IF o.opt \in DOMAIN Flags
  THEN [c EXCEPT !.flag[Flags[o.opt][1]] = Flags[o.opt][2]]
  ELSE CASE o.opt = "x"         -> WithZfinx(c)
         [] o.opt = "pmp-count" -> [c EXCEPT !.pmp_count = Unsigned(o.arg)]
         [] o.opt = "pmp-grain" -> [c EXCEPT !.pmp_grain = Unsigned(o.arg)]
         [] o.opt = "z"         -> [c EXCEPT !.ram_size = Unsigned(o.arg * 2^20)]
         [] o.opt = "cache-block-size"
                                -> [c EXCEPT !.cache_block_size_exp = ilog2(Unsigned(o.arg))]
         [] o.opt = "b"         -> [c EXCEPT !.dtb_file = o.arg]
         [] o.opt = "t"         -> [c EXCEPT !.term_log = o.arg]
         [] o.opt = "T"         -> [c EXCEPT !.sig_file = o.arg]
         [] o.opt = "g"         -> [c EXCEPT !.granularity = o.arg]
         [] o.opt = "r"         -> [c EXCEPT !.rvfi_dii = TRUE]
         [] o.opt \in {"v", "V"}
                                -> [c EXCEPT !.print = set_config_print(@, o.arg, o.opt = "v")]
         [] OTHER               -> c
=============================================================================
