------------------------------ MODULE MCProfilers ------------------------------
(* An instance of Profilers: a stack that serves HTTP and one of the agent;    *)
(* the block profiler records twice, the CPU profiler reports twice.           *)
EXTENDS Profilers
CONSTANTS http, agent

TwiceWhereItMatters == [k \in Kinds |-> IF k \in {"block record", "cpu report"} THEN 2 ELSE 1]
AgentBlocksOnce == [s \in Stacks |-> IF s = agent THEN 1 ELSE 2]
=============================================================================
