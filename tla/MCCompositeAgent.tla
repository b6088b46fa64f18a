-------------------------- MODULE MCCompositeAgent --------------------------
(***************************************************************************)
(* Instances of CompositeAgent for TLC.  Each environment is a Script: the *)
(* event kinds that each thread outside the agent may post.                *)
(***************************************************************************)
EXTENDS CompositeAgent, TLC

CONSTANTS node, pylon, s1, s2, s3

K(type) == [type |-> type, transient |-> FALSE, newThread |-> TRUE]
KT(type) == [type |-> type, transient |-> TRUE, newThread |-> TRUE]
RunInCaller == [K("AGENT_START") EXCEPT !.newThread = FALSE]

TwoShards == <<s1, s2>>
OneShard == <<s1>>
Nothing == {}

\* The node starts and stops the agent, by start() or by run(); a pylon thread
\* delivers waves and may ask the agent to leave (AGENT_STOP with TRANSIENT).
LifeScript ==
    (node :> {K("AGENT_START"), RunInCaller, K("AGENT_STOP")}) @@
    (pylon :> {K("AGENT_WAVE"), K("BEFORE_MOVE"), K("AFTER_MOVE"), KT("AGENT_STOP")})
LifeHandler == {K("AGENT_WAVE"), KT("AGENT_STOP")}

\* One stop at most: only the node stops the agent.
OneStopScript ==
    (node :> {K("AGENT_START"), K("AGENT_STOP")}) @@
    (pylon :> {K("AGENT_WAVE"), K("BEFORE_MOVE")})
WaveHandler == {K("AGENT_WAVE")}

\* The node alone, with no other thread.
NodeScript == (node :> {K("AGENT_START"), K("AGENT_STOP")})
NodeWaveScript == (node :> {K("AGENT_START"), K("AGENT_STOP"), K("AGENT_WAVE")})

\* The node stops and starts the agent while the pylon delivers waves.
StartStopScript ==
    (node :> {K("AGENT_START"), K("AGENT_STOP")}) @@ (pylon :> {K("AGENT_WAVE")})

\* Two threads that both start the agent.
TwoStartersScript == [p \in {node, pylon} |-> {K("AGENT_START")}]
=============================================================================
