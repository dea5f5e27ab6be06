---------------------------- MODULE MCApplication ----------------------------
(***************************************************************************)
(* Two endpoints, sharing a worker with two processes or with a worker     *)
(* each, under Kubernetes and mist computing, or alone; control plane      *)
(* benchmarks with cached images, more pods than workers, and all          *)
(* containers in one pod.                                                  *)
(***************************************************************************)
EXTENDS Application

Config(manager, workers, endpoints, per_worker, threads, cache, deployment) ==
    [resource_manager |-> manager, workers |-> workers, endpoints |-> endpoints,
     applications_per_worker |-> per_worker, threads |-> threads,
     cache_worker |-> cache, kube_deployment |-> deployment]

MCConfigs ==
    {Config("kubernetes", 1, 2, 1, 2, FALSE, "pod"), Config("kubernetes", 1, 1, 1, 1, TRUE, "pod"),
     Config("kubernetes", 2, 2, 1, 1, FALSE, "pod"),
     Config("mist", 1, 2, 1, 1, FALSE, "pod"), Config("none", 0, 2, 1, 1, FALSE, "pod"),
     Config("kubecontrol", 2, 0, 1, 1, TRUE, "pod"), Config("kubecontrol", 1, 0, 2, 1, TRUE, "pod"),
     Config("kubecontrol", 1, 0, 2, 1, FALSE, "container"),
     Config("kubecontrol", 2, 0, 1, 1, TRUE, "container")}
=============================================================================
