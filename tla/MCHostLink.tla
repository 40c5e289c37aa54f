----------------------------- MODULE MCHostLink -----------------------------
(* Three words: a and b at one destination, c at another. *)
EXTENDS HostLink, TLC

MCAddr == {"a", "b", "c"}
MCHome == [x \in MCAddr |-> IF x = "c" THEN "south" ELSE "north"]

On(kind, addrs) == [kind |-> kind, addrs |-> addrs]

MCCalls == {On("write_mem", <<"a", "b">>), On("write_mem", <<"b", "c">>),
            On("read_mem", <<"a", "b", "c", "b">>), On("read_mem", <<"c", "a">>),
            On("write", <<"c">>), On("read", <<"c">>), On("write_mem", <<"a", "far">>),
            On("read_mem", <<"far">>)}

\* "far" is not a word of the network.  Here a read meets it after a load has been sent.
BadCalls == {On("read_mem", <<"a", "far">>), On("read_mem", <<"b">>), On("write", <<"b">>)}

\* The fence's locals: anything but the awaited pair, or that pair too (left on the stack, say,
\* by the fence before).
CleanLocals == {<<0, 0>>}
AnyLocals   == {<<0, 0>>, <<HostCredits, MaxOutCredits>>}
=============================================================================
