------------------------------- MODULE Timeline -------------------------------
(***************************************************************************)
(* How the application empty puts together, for every container of a       *)
(* control plane benchmark, when it passed each phase (fill_control).  The *)
(* lines of a log that name a job or a pod go to its containers.  The API  *)
(* server, and the controller when one Job has all the pods, name nothing: *)
(* their lines are matched with another phase by time.                     *)
(*                                                                         *)
(* A time is what time_delta makes of it, the time after the start.  The   *)
(* phases that are matched are here, and those that they are matched with; *)
(* the others are filled in like 2_kubectl_send and 7_scheduler_start.     *)
(***************************************************************************)
EXTENDS Naturals, Sequences, FiniteSets, SequencesExt, Orders

Phases == {"2_kubectl_send", "3_api_receive_job", "5_pod_object_create", "6_api_receive_pod",
           "7_scheduler_start", "8_api_receive_pod"}

Unset == 0
Exited == <<>>  \* fill_control has ended the program

\* The order in which the phases are filled: that of the pods before what is
\* matched with it.
Mapping ==
    LET tagged(tag) == [tag |-> tag, compare |-> "", future |-> FALSE]
        matched(tag, compare, future) == [tag |-> tag, compare |-> compare, future |-> future]
    IN <<tagged("2_kubectl_send"),
         matched("3_api_receive_job", "2_kubectl_send", FALSE),
         tagged("7_scheduler_start"),
         matched("6_api_receive_pod", "7_scheduler_start", TRUE),
         matched("5_pod_object_create", "6_api_receive_pod", TRUE),
         matched("8_api_receive_pod", "7_scheduler_start", FALSE)>>

\* create_control_object, for n containers.
ControlObject(n) == [k \in 1..n |-> [tag \in Phases |-> Unset]]

\* Mutant: a container that has a time already may get another.
OpenAgain(metrics, phase, t) ==
    {k \in DOMAIN metrics :
        IF phase.future THEN t < metrics[k][phase.compare] ELSE t > metrics[k][phase.compare]}

\* The containers that a line of time t may belong to.
Open(metrics, phase, t) ==
    {k \in DOMAIN metrics :
        /\ metrics[k][phase.tag] = Unset
        /\ IF phase.future THEN t < metrics[k][phase.compare] ELSE t > metrics[k][phase.compare]}

\* Of those that may have it, the line goes to the one whose other time is
\* first; a container without that time cannot be sorted.
SortOnTime(metrics, phase, t) ==
    LET open == Open(metrics, phase, t)
        time == Min({metrics[k][phase.compare] : k \in open})
    IN IF open = {} \/ \E k \in DOMAIN metrics : metrics[k][phase.compare] = Unset
       THEN Exited
       ELSE [metrics EXCEPT ![Min({k \in open : metrics[k][phase.compare] = time})][phase.tag] = t]

\* A line that names something goes to all its containers without a time.
Insert(metrics, phase, line) ==
    [k \in DOMAIN metrics |->
        IF k \in line.of /\ metrics[k][phase.tag] = Unset
        THEN [metrics[k] EXCEPT ![phase.tag] = line.time] ELSE metrics[k]]

\* One more line, after i times have been filled in.
CheckLine(found, phase, line) ==
    IF found.metrics = Exited \/ found.i = Len(found.metrics) THEN found
    ELSE IF phase.compare # ""
    THEN [metrics |-> SortOnTime(found.metrics, phase, line.time), i |-> found.i + 1]
    ELSE [metrics |-> Insert(found.metrics, phase, line),
          i |-> found.i + Cardinality({k \in line.of : found.metrics[k][phase.tag] = Unset})]

\* The one line of a Job or a pod is that of all its containers; with too few
\* lines the program ends.
FillUp(found, phase) ==
    IF found.metrics = Exited \/ found.i = Len(found.metrics) THEN found.metrics
    ELSE IF phase.compare # "" /\ found.i = 1
    THEN [k \in DOMAIN found.metrics |->
            [found.metrics[k] EXCEPT ![phase.tag] = found.metrics[1][phase.tag]]]
    ELSE Exited

Check(metrics, phase, lines) ==
    LET found[j \in 0..Len(lines)] ==
            IF j = 0 THEN [metrics |-> metrics, i |-> 0] ELSE CheckLine(found[j - 1], phase, lines[j])
    IN FillUp(found[Len(lines)], phase)

\* The lines of a log, in the order of their times: one of a Job, or one of
\* each pod.  history tells what happened when, podOf where a container is.
JobPhases == {"2_kubectl_send", "3_api_receive_job"}

Earlier(history, tag, p, q) ==
    \/ history[p][tag] < history[q][tag]
    \/ history[p][tag] = history[q][tag] /\ p < q

Log(history, podOf, tag) ==
    LET line(p, of) == [time |-> history[p][tag], of |-> of]
        pods == InOrder(Range(podOf), {b \in Range(podOf) \X Range(podOf) : Earlier(history, tag, b[1], b[2])})
    IN IF tag \in JobPhases THEN <<line(podOf[1], DOMAIN podOf)>>
       ELSE [j \in DOMAIN pods |-> line(pods[j], {k \in DOMAIN podOf : podOf[k] = pods[j]})]

\* Phase by phase; once the program has ended, Check changes nothing.
FillControl(history, podOf) ==
    LET filled[k \in 0..Len(Mapping)] ==
            IF k = 0 THEN ControlObject(Len(podOf))
            ELSE Check(filled[k - 1], Mapping[k], Log(history, podOf, Mapping[k].tag))
    IN filled[Len(Mapping)]

===============================================================================
