--------------------------- MODULE MCDecomposeCall ---------------------------
(* Small machines and operators, and the programs that share a checkpoint.  *)
EXTENDS DecomposeCall

\* Two cores of two threads each, 256 KiB of L2 and plenty of memory: 16384
\* columns are worth two rows, and a dense operator of 512 fits whole.
Base == [samples |-> NotThere, declared |-> 262144,
         meminfo |-> 2^29, avphys |-> NotThere,
         cgroup2 |-> Unlimited, cgroup1 |-> NotThere, total |-> 2^30,
         allowed |-> {0, 1, 2, 3},
         siblings |-> [cpu \in 0 .. 3 |-> {cpu % 2, (cpu % 2) + 2}],
         flags |-> {"avx2", "bmi2", "fma", "popcnt"},
         built |-> {<<"wht", "v3">>, <<"coeffs", "v3">>}]

\* What the large operator and one row need, twice: the second row of its
\* chunk has no room, and less L2 than one row.  No kernel was built.
Tight == [Base EXCEPT !.meminfo = 1535368, !.declared = 131072, !.built = {}]

\* A job limited to less than the operator; a probe that sees both edges and
\* agrees with /sys that four rows fit.
Job == [Base EXCEPT !.cgroup2 = 2^18, !.declared = 2^20 + 2^18,
                    !.samples = <<[bytes |-> 32768, cycles |-> 4],
                                  [bytes |-> 2^20, cycles |-> 12],
                                  [bytes |-> 2^21, cycles |-> 30]>>]

\* Nothing can be read: two CPUs, 512 MiB, chunks of 32.  Only one kernel runs
\* on this CPU.
Blind == [Base EXCEPT !.declared = NotThere, !.meminfo = NotThere,
                      !.cgroup2 = NotThere, !.cgroup1 = 2^30,
                      !.allowed = {0, 1}, !.siblings = [cpu \in 0 .. 1 |-> NotThere],
                      !.flags = {}, !.built = @ \cup {<<"wht", "baseline">>}]

MCMachines == {Base, Tight, Job, Blind}

\* Room for what the code counts of two workers with two rows of the large
\* operator each.
NoRoomForValues == [Tight EXCEPT !.meminfo = 2100000, !.declared = 2^19]

MCShort == {NoRoomForValues}

MCOperators == {[qubits |-> 9, nnz |-> 40, sparse |-> FALSE, active |-> 3],
                [qubits |-> 14, nnz |-> 10000, sparse |-> TRUE, active |-> 3]}

MCBadRows == {{}, {2}}

Call(entry, chunk, hermitian, ckpt) ==
  Request(entry, chunk, NotThere, "auto", hermitian, ckpt)

\* The library calls.
MCCalls == {Call("terms", 2, TRUE, TRUE),
            Call("iter", 1, FALSE, TRUE),
            Call("auto", NotThere, TRUE, TRUE),
            Call("arrays", NotThere, TRUE, TRUE),
            Call("arrays", 1, FALSE, TRUE),
            Call("dicts", 1, TRUE, TRUE),
            Request("arrays", 2, 1, "thread", TRUE, FALSE),
            Request("dicts", NotThere, 0, "auto", TRUE, FALSE),
            Request("arrays", 2, NotThere, "fork", TRUE, FALSE)}

\* The command lines.
Commands ==
  [flags : SUBSET {"parallel", "stream", "sparse-output", "show-terms"},
   chunk : {NotThere, 0, 2}, workers : {2}, executor : {"auto"}, ckpt : {TRUE}]
  \cup [flags : {{"parallel"}}, chunk : {-1}, workers : {NotThere},
        executor : {"process"}, ckpt : BOOLEAN]

MCPrograms ==
  {<<c>> : c \in MCCalls}
  \cup ({CommandLine(c) : c \in Commands} \ {<<>>})
  \cup {Benchmark(compare, 2) : compare \in BOOLEAN}
=============================================================================
