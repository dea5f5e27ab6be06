----------------------------- MODULE MCBenchmark -----------------------------
(***************************************************************************)
(* A controller and a worker, one pod of DeathStarBench, which may be      *)
(* killed, and the two of Scaphandre.  A driver is started twice, after a  *)
(* failure or not: with intervals of which one begins the other in         *)
(* decimal, with and without --keep-vms, with VMs set up in turn and at    *)
(* once, for runs that are repeated and an experiment named twice.         *)
(***************************************************************************)
EXTENDS Benchmark

MCVmNames == <<"controller", "worker">>

CONSTANTS Short, Long \* measure intervals

Line(names, runs, interval, keep) ==
    [names |-> names, runs |-> runs, measure_interval |-> interval, keep_vms |-> keep]

MCArguments ==
    {Line(<<"kube-scheduler">>, 2, Long, TRUE),
     Line(<<"kube_prom", "kube_prom">>, 1, Short, TRUE),
     Line(<<"qemu_cpu100">>, 1, Long, FALSE)}
=============================================================================
