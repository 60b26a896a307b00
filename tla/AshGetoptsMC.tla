---------------------------- MODULE AshGetoptsMC ----------------------------
EXTENDS AshGetopts

Args == {<<"-", "a">>, <<"-", "b">>, <<"-", "a", "b", "c">>, <<"-", "x">>, <<"-", "b", "-">>, <<"-", "-">>, <<"-">>, <<"c">>, <<>>, <<"-", ":">>}
ArgLists == SeqOf(Args, 3)
Short == SeqOf({<<"-", "a">>, <<"-", "a", "b", "c">>, <<"-", "c", "a">>, <<"b">>}, 2)
OptStrings == {<<"a", "b", ":", "c">>, <<":", "a", "b", ":">>}
Loop(o, most) == [op |-> "loop", optstring |-> o, most |-> most]
SetTo(args) == [op |-> "set", args |-> args]
Reset == [op |-> "reset"]
Shift(o) == [op |-> "shift", optstring |-> o]
Script(args, script) == [args |-> args, script |-> script]
MCCalls ==
    {Script(args, <<Loop(o, 9), Shift(o)>>) : args \in ArgLists, o \in OptStrings}
    \union {Script(args, <<Loop(o, n), SetTo(<< <<"-", "-">> >> \o more), Reset, Loop(o, 9), Shift(o)>>) :
             args \in Short, more \in Short, o \in OptStrings, n \in 1..2}
    \union {Script(args, <<Loop(o, 1), Loop(o, 9), SetTo(more), Loop(o, 9)>>) : args \in Short, more \in Short, o \in OptStrings}
    \union {Script(args, <<[op |-> "printf", verbs |-> v]>>) : args \in SeqOf({<<"a">>, <<>>, <<"b">>}, 4), v \in 0..3}
\* The arguments -abc and -a of pkg/applets/ash/testdata/ash_test/ash-getopts/getopt_nested.tests.
Nested == GetoptsInit({Script(args, <<Loop(<<"a", "b", "c">>, 99)>>) : args \in {<< <<"-", "a">>, <<"-", "b", "c">> >>, << <<"-", "a", "b", "c">>, <<"-", "a">> >>}})
MCInit == GetoptsInit(MCCalls)
=============================================================================
