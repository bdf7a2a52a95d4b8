--------------------------- MODULE MCNemuTcache ---------------------------
(* Programs for the trace cache.                                            *)
EXTENDS NemuTcache

I(kind, to) == [kind |-> kind, to |-> to]

Program(c, handler, faults, irq) ==
    [code |-> c, patch |-> I("N", {}), start |-> 1, handler |-> handler,
     faults |-> faults, irq |-> irq]

\* An indirect jump and a trap handler that returns anywhere, interrupted.
Preempted ==
    Program(<<I("I", {1, 2, 3}), I("B", {1}), I("J", {1}), I("X", {1, 2, 3})>>, 4, {}, TRUE)

\* Interrupts, and returns to one place only.
Looping ==
    Program(<<I("B", {3}), I("U", {}), I("N", {}), I("J", {1}), I("N", {}), I("X", {1})>>,
            5, {3}, TRUE)

\* No interrupts: indirect jumps, a trap and its return.
Calling ==
    Program(<<I("I", {2, 3, 4}), I("B", {1}), I("N", {}), I("J", {1}), I("X", {3, 4})>>,
            5, {3}, FALSE)

\* The instruction at 4 is overwritten.
Patching ==
    Program(<<I("B", {3}), I("S", {4}), I("F", {}), I("J", {1}), I("J", {1}), I("X", {1})>>,
            6, {}, TRUE)

\* Indirect jumps everywhere, and a fault when 2 is first reached.
Dispatching ==
    Program(<<I("I", {2, 3, 4}), I("I", {1, 3, 4}), I("N", {}), I("X", {1, 2, 3})>>, 4, {2}, FALSE)

StalePrograms == {Dispatching}
SomePrograms == {Looping, Calling, Patching}
AllPrograms == {Preempted}
===========================================================================
