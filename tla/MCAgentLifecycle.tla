---------------------------- MODULE MCAgentLifecycle ----------------------------
(* Instances of the lifecycle and of the process reporters it starts: the       *)
(* goroutines are model values, the sizes are in the configurations.            *)
EXTENDS AgentReports, TLC

ShortScript == <<"cpuTime", "cpuUsage">>
AnyThread == Permutations(Threads)
=============================================================================
