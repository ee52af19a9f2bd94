---------------------------- MODULE MCSimulator ----------------------------
(***************************************************************************)
(* Simulator on two nodes.  A script may inject every kind of fault but a  *)
(* partition and its healing, which the chaos test brings; the faults of a *)
(* link are those of the link from node 1 to node 2, and node 2 is the one *)
(* that crashes or is paused, so that a message meets all of them.         *)
(***************************************************************************)
EXTENDS Simulator

NodeFaults ==
    {[kind |-> k, node |-> 1] : k \in {"Isolate", "Reconnect", "Election"}}
    \cup {[kind |-> k, node |-> 2] : k \in {"Crash", "Restart", "Pause", "Resume", "Submit"}}

LinkFaults ==
    {[kind |-> k, link |-> <<1, 2>>] : k \in {"Block", "Unblock", "ClearDelay"}}
    \cup {[kind |-> "Drop", link |-> <<1, 2>>, count |-> 1],
          [kind |-> "Delay", link |-> <<1, 2>>, delay |-> 1],
          [kind |-> "Duplicate", link |-> <<1, 2>>, count |-> 1, delay |-> 1]}

Faults == NodeFaults \cup LinkFaults

\* Three faults are those of a script and are all applied at once; of two, any may be
\* scheduled or come from the chaos test.
ThreeAtOnce ==
    faults = 3 => fault_sequence_counter = 0 /\ pc \in {"script", "run", "idle"}

\* A chaos test starts early: before any message or scheduled fault, at time 0, after at
\* most one fault, a pause for instance.
ChaosFirst ==
    pc \in {"script", "idle"} /\ pc' = "chaos" =>
        now = 0 /\ sent = <<>> /\ faults <= 1 /\ fault_sequence_counter = 0

\* A flush of its own comes after two faults, at time 0, when the third fault may still
\* meet the messages.
FlushBeforeThird ==
    pc' = "script" /\ work = <<>> /\ work' = ForAllNodes("flush") =>
        faults = 2 /\ fault_sequence_counter = 0 /\ now = 0 /\ \E n \in Node : outbox[n] # <<>>
=============================================================================
