----------------------------- MODULE AshGetopts -----------------------------
(***************************************************************************)
(* set, shift, getopts and printf of the shell, src/pkg/applets/ash/ash.go:   *)
(* the builtins that walk over the positional parameters.  getopts keeps the    *)
(* number of the argument in OPTIND, a variable, and the place inside a group    *)
(* like -abc in the runner, where the script cannot reset it.                    *)
(*                                                                         *)
(* A call is a script: a sequence of statements.  "loop" is while getopts; it     *)
(* is left when getopts fails or, as by break, after `most` options: the bound of   *)
(* a loop that would go on for ever.                                           *)
(***************************************************************************)
EXTENDS Integers, SequencesExt, FiniteSets

VARIABLE opts

From(s, i) == SubSeq(s, i, Len(s))
IsFlag(arg) == arg # <<>> /\ Head(arg) \in {"-", "+"}

-----------------------------------------------------------------------------
(* getopts.  sh.optind is 0 when OPTIND is not set.                           *)

NoOption == [name |-> "?", optarg |-> <<>>, ok |-> FALSE]
Option(name, optarg) == [name |-> name, optarg |-> optarg, ok |-> TRUE]

\* Mutated: OPTIND=1 leaves the place inside the group.
BeginStale(sh) == [index |-> IF sh.optind = 0 THEN 1 ELSE sh.optind, pos |-> IF sh.optind = 0 THEN 0 ELSE sh.pos]
\* Where to go on: the start of the arguments when OPTIND is unset or 1.
Begin(sh) == [index |-> IF sh.optind = 0 THEN 1 ELSE sh.optind, pos |-> IF sh.optind <= 1 THEN 0 ELSE sh.pos]
\* Past a group that ends before pos: what the arguments were when pos was kept may have changed.
NextGroup(args, b) ==
    IF b.index <= Len(args) /\ b.pos > 0 /\ b.pos >= Len(args[b.index]) THEN [index |-> b.index + 1, pos |-> 0] ELSE b
Finish(sh, b, optind) == [sh |-> [sh EXCEPT !.optind = optind, !.pos = b.pos], res |-> NoOption]
\* The option at b.pos of the argument b.index.
TakeOption(sh, args, b, spec, silent) ==
    LET arg == args[b.index]
        opt == arg[b.pos + 1]
        last == b.pos + 1 >= Len(arg)
        next == [sh EXCEPT !.optind = IF last THEN b.index + 1 ELSE b.index, !.pos = IF last THEN 0 ELSE b.pos + 1]
        at == SelectInSeq(spec, LAMBDA c : c = opt)
        wants == at > 0 /\ at < Len(spec) /\ spec[at + 1] = ":"
    IN CASE at = 0 -> [sh |-> next, res |-> Option("?", IF silent THEN <<opt>> ELSE <<>>)]
         [] at > 0 /\ ~wants -> [sh |-> next, res |-> Option(opt, <<>>)]
         [] wants /\ ~last -> [sh |-> [next EXCEPT !.optind = b.index + 1, !.pos = 0], res |-> Option(opt, From(arg, b.pos + 2))]
         [] wants /\ last /\ b.index < Len(args) -> [sh |-> [next EXCEPT !.optind = b.index + 2], res |-> Option(opt, args[b.index + 1])]
         [] OTHER -> [sh |-> next, res |-> IF silent THEN Option(":", <<opt>>) ELSE Option("?", <<>>)]
GetOption(sh, optstring) ==
    LET silent == optstring # <<>> /\ Head(optstring) = ":"
        spec == IF silent THEN Tail(optstring) ELSE optstring
        args == sh.positional
        b == NextGroup(args, Begin(sh))
        arg == args[b.index]
    IN CASE b.index > Len(args) -> Finish(sh, b, sh.optind)
         [] b.index <= Len(args) /\ b.pos <= 0 /\ (arg = <<>> \/ Head(arg) # "-" \/ arg = <<"-">>) -> Finish(sh, b, sh.optind)
         [] b.index <= Len(args) /\ b.pos <= 0 /\ arg = <<"-", "-">> -> Finish(sh, b, b.index + 1)
         [] OTHER -> TakeOption(sh, args, [b EXCEPT !.pos = IF @ <= 0 THEN 1 ELSE @], spec, silent)

-----------------------------------------------------------------------------
(* set, shift, printf.                                                        *)

Shifted(sh, n) == IF n > Len(sh.positional) THEN sh ELSE [sh EXCEPT !.positional = From(@, n + 1)]
\* The flags of a word; a letter that is no option is passed over.
WithFlags(sh, arg) ==
    LET named == {arg[i] : i \in 2..Len(arg)} \intersect {"e", "x", "u", "n", "P", "r"}
    IN [sh EXCEPT !.options = IF Head(arg) = "-" THEN @ \union named ELSE @ \ named]
SetArgs(sh, args) ==
    LET k == SelectInSeq(args, LAMBDA a : ~IsFlag(a))
        flags == IF k = 0 THEN args ELSE SubSeq(args, 1, k - 1)
        done == FoldLeft(WithFlags, sh, flags)
    IN CASE args = <<>> -> sh
         [] args # <<>> /\ args[1] = <<"-", "-">> -> [sh EXCEPT !.positional = Tail(args)]
         [] OTHER -> IF k = 0 THEN done ELSE [done EXCEPT !.positional = From(args, k)]

\* printf: the arguments of each use of a format with some verbs; a missing one is empty.
PrintfUses(verbs, args) ==
    LET uses == IF args = <<>> THEN 1 ELSE (Len(args) + verbs - 1) \div verbs
        arg(k) == IF k <= Len(args) THEN args[k] ELSE <<>>
    IN IF verbs = 0 THEN << <<>> >> ELSE [u \in 1..uses |-> [i \in 1..verbs |-> arg((u - 1) * verbs + i)]]

-----------------------------------------------------------------------------
(* The script.                                                                *)

Shell(args) == [positional |-> args, optind |-> 0, pos |-> 0, options |-> {}]
GetoptsInit(calls) ==
    \E c \in calls : opts = [todo |-> c.script, sh |-> Shell(c.args), got |-> <<>>, from |-> c.args, ended |-> FALSE,
                             stmt |-> [op |-> "none"], uses |-> <<>>]
Does(op) == opts.todo # <<>> /\ Head(opts.todo).op = op
Stmt == Head(opts.todo)
Done == [opts EXCEPT !.todo = Tail(@), !.stmt = Stmt]
\* set, with other parameters: OPTIND stays as it is.
SetParameters == Does("set") /\ opts' = [Done EXCEPT !.sh = SetArgs(@, Stmt.args), !.ended = FALSE]
\* OPTIND=1
ResetOptind == Does("reset") /\ opts' = [Done EXCEPT !.sh.optind = 1, !.got = <<>>, !.from = opts.sh.positional, !.ended = FALSE]
GetOpts ==
    LET r == GetOption(opts.sh, Stmt.optstring)
        leaves == ~r.res.ok \/ Len(opts.got) + 1 >= Stmt.most
    IN /\ Does("loop")
       /\ opts' = [(IF leaves THEN Done ELSE [opts EXCEPT !.stmt = Stmt]) EXCEPT
                     !.sh = r.sh, !.got = IF r.res.ok THEN Append(@, r.res) ELSE @, !.ended = ~r.res.ok]
\* shift $((OPTIND - 1))
ShiftOptions == Does("shift") /\ opts' = [Done EXCEPT !.sh = Shifted(@, IF @.optind = 0 THEN 0 ELSE @.optind - 1)]
Printf == Does("printf") /\ opts' = [Done EXCEPT !.uses = PrintfUses(Stmt.verbs, opts.sh.positional)]
GetoptsNext == SetParameters \/ ResetOptind \/ GetOpts \/ ShiftOptions \/ Printf

-----------------------------------------------------------------------------
(* The reference: the options of a list of arguments, by its grammar.         *)

Letters(optstring) == {i \in DOMAIN optstring : optstring[i] # ":"}
Wants(optstring, c) == \E i \in Letters(optstring) : optstring[i] = c /\ i < Len(optstring) /\ optstring[i + 1] = ":"
Known(optstring, c) == \E i \in Letters(optstring) : optstring[i] = c
Silent(optstring) == optstring # <<>> /\ Head(optstring) = ":"
Unknown(optstring, c) == Option("?", IF Silent(optstring) THEN <<c>> ELSE <<>>)
Missing(optstring, c) == IF Silent(optstring) THEN Option(":", <<c>>) ELSE Option("?", <<>>)
With(o, parse) == [parse EXCEPT !.options = <<o>> \o @]
RECURSIVE Parse(_, _, _)
\* The options and the operands of args, where the letters of a group come first.
Parse(group, args, optstring) ==
    LET c == Head(group)
    IN CASE group = <<>> /\ (args = <<>> \/ (args # <<>> /\ (Len(args[1]) < 2 \/ Head(args[1]) # "-"))) -> [options |-> <<>>, operands |-> args]
         [] OTHER -> CASE group = <<>> /\ args[1] = <<"-", "-">> -> [options |-> <<>>, operands |-> Tail(args)]
         [] OTHER -> CASE group = <<>> -> Parse(Tail(args[1]), Tail(args), optstring)
         [] OTHER -> CASE ~Known(optstring, c) -> With(Unknown(optstring, c), Parse(Tail(group), args, optstring))
         [] OTHER -> CASE ~Wants(optstring, c) -> With(Option(c, <<>>), Parse(Tail(group), args, optstring))
         [] OTHER -> CASE Len(group) > 1 -> With(Option(c, Tail(group)), Parse(<<>>, args, optstring))
         [] OTHER -> CASE args # <<>> -> With(Option(c, args[1]), Parse(<<>>, Tail(args), optstring))
         [] OTHER -> With(Missing(optstring, c), Parse(<<>>, args, optstring))

-----------------------------------------------------------------------------
(* Properties.                                                                *)

\* ":" as an option is found in the option string (strings.Index).
ColonOption == \E i \in DOMAIN opts.from : ToSet(opts.from[i]) \intersect {":"} # {}
\* A loop over getopts gives the options of the parameters with their arguments, in order,
\* also when it is left in the middle of a group and goes on later, or starts over with
\* other parameters after OPTIND=1.
OptionsRight ==
    (opts.stmt.op = "loop" /\ opts.ended /\ opts.sh.positional = opts.from /\ ~ColonOption) =>
        opts.got = Parse(<<>>, opts.from, opts.stmt.optstring).options
\* No option is reported more often than it is given ("all options are reported correct number
\* of times and in correct sequence", getopt_nested.tests).
OptionsOnce ==
    (opts.stmt.op = "loop" /\ opts.sh.positional = opts.from) =>
        Len(opts.got) <= Len(Parse(<<>>, opts.from, opts.stmt.optstring).options)
\* After it, shift $((OPTIND - 1)) leaves the operands.
OperandsRemain ==
    (opts.stmt.op = "shift" /\ opts.ended /\ ~ColonOption) =>
        opts.sh.positional = Parse(<<>>, opts.from, opts.stmt.optstring).operands
\* printf uses its format until the arguments have run out, each argument once, in order.
ArgumentsPrinted ==
    LET args == opts.sh.positional
        printed == FlattenSeq(opts.uses)
    IN (opts.stmt.op = "printf" /\ opts.stmt.verbs > 0) =>
          /\ \A u \in DOMAIN opts.uses : Len(opts.uses[u]) = opts.stmt.verbs
          /\ Len(printed) \in Len(args)..Len(args) + (IF args = <<>> THEN opts.stmt.verbs ELSE opts.stmt.verbs - 1)
          /\ SubSeq(printed, 1, Len(args)) = args
          /\ \A i \in Len(args) + 1..Len(printed) : printed[i] = <<>>

\* Options, operands and arguments come out once and in order.  (getopts, shift, printf)
ParametersRight == OptionsRight /\ OperandsRemain /\ ArgumentsPrinted
=============================================================================
