----------------------------- MODULE Simulator -----------------------------
(***************************************************************************)
(* The deterministic fault simulator (runtime/simulator.rs).  One thread   *)
(* moves messages from the outboxes of the nodes through a queue ordered   *)
(* by simulated time, and applies faults at once, at a scheduled time, or  *)
(* at random (run_chaos_test).                                             *)
(*                                                                         *)
(* A test makes any calls in any order.  The calls that loop are taken     *)
(* apart: "work" is what the call under way still has to do, first things  *)
(* first, and no other call starts before it is empty.  The nodes are      *)
(* those of module Raft; here a node is a black box: whatever it is called *)
(* for, it puts messages for some of its peers in its outbox.              *)
(***************************************************************************)
EXTENDS Integers, FiniteSets, Sequences, SequencesExt

CONSTANTS
    N,            \* the nodes are 1 .. N
    Fault,        \* the faults a test may inject (enum Fault)
    Delays,       \* the durations a test names
    DropCounts,   \* the numbers of packets a chaos test drops, of 1 .. 3
    MaxMessages,  \* bound on the messages the nodes send
    MaxFaults,    \* bound on the faults injected
    MaxTime       \* bound on the times a test names

ASSUME BoundType ==
    /\ N \in Nat /\ Delays \subseteq Nat /\ DropCounts \subseteq 1 .. 3
    /\ MaxMessages \in Nat /\ MaxFaults \in Nat /\ MaxTime \in Nat

Node == 1 .. N
Link == {l \in Node \X Node : l[1] # l[2]}

\* A fault names a node or a link of the simulation.
ASSUME FaultType ==
    \A f \in Fault :
        /\ f.kind \in {"Crash", "Restart", "Pause", "Resume"} => f.node \in Node
        /\ f.kind = "Block" => f.link \in Link

VARIABLES
    now,                     \* the simulated clock
    events,                  \* queued events: a time, a sequence number, a message
    sequence_counter,
    outbox,                  \* the messages each node has to send
    disabled_nodes,
    paused_nodes,
    paused_events,           \* events set aside for each paused node
    blocked_links,
    link_policies,
    scheduled_faults,
    fault_sequence_counter,
    work,                    \* what is left of the call under way
    pc,                      \* who calls: "script", "run" (run_until_idle) and "idle" when
                             \* it returned; "chaos", "inject", "move" (run_chaos_test),
                             \* then "converging" and "converged"
    sent,                    \* the links of the messages sent so far, message by message
    handled,                 \* how often each message was handled
    granted,                 \* the drops and the copies asked for on each link
    faults,                  \* the number of faults injected
    lossy                    \* a fault was applied that may lose any number of messages

queueVars == <<events, sequence_counter, link_policies>>
nodeVars  == <<disabled_nodes, paused_nodes, paused_events>>
faultVars == <<scheduled_faults, fault_sequence_counter, faults>>
linkVars  == <<blocked_links, granted, lossy>>
vars == <<now, queueVars, outbox, nodeVars, linkVars, faultVars, work, pc, sent, handled>>

\* struct LinkFaultPolicy; no delay is a delay of 0, no policy the default one.
NoPolicy == [drop_remaining |-> 0, delay |-> 0, duplicate_remaining |-> 0, duplicate_delay |-> 0]

Init ==
    /\ now = 0 /\ events = {} /\ sequence_counter = 0
    /\ outbox = [n \in Node |-> <<>>]
    /\ disabled_nodes = {} /\ paused_nodes = {} /\ paused_events = [n \in Node |-> {}]
    /\ blocked_links = {} /\ link_policies = [l \in Link |-> NoPolicy]
    /\ scheduled_faults = {} /\ fault_sequence_counter = 0
    /\ work = <<>> /\ pc = "script"
    /\ sent = <<>> /\ handled = [k \in 1 .. MaxMessages |-> 0]
    /\ granted = [l \in Link |-> [drops |-> 0, copies |-> 0]]
    /\ faults = 0 /\ lossy = FALSE

\* The pieces of work: "faults" (trigger_due_faults), "pop" (take the next event),
\* "deliver" it, and "tick", "flush" or "up" a node.
Job(do, n)      == [do |-> do, node |-> n]
ForAllNodes(do) == [n \in Node |-> Job(do, n)]
DeliverNext     == <<[do |-> "faults"], [do |-> "pop"]>>
Doing(do)       == work # <<>> /\ Head(work).do = do

-----------------------------------------------------------------------------
(* Nodes and their outboxes                                                *)

\* Any call of node n: it puts a message for each of the peers "to" in its outbox.
Call(n, to) ==
    /\ Len(sent) + Len(to) <= MaxMessages
    /\ sent' = sent \o [k \in 1 .. Len(to) |-> <<n, to[k]>>]
    /\ outbox' = [outbox EXCEPT ![n] = @ \o [k \in 1 .. Len(to) |-> Len(sent) + k]]

Recipients(n) == SetToAllKPermutations(Node \ {n})

\* The message m of a flush is queued at its time, or queued twice.
Queue(m) ==
    LET l     == sent[m]
        p     == link_policies[l]
        at    == now + p.delay
        Event(t, s) == [deliver_at |-> t, sequence |-> s, msg |-> m]
    IN  IF p.duplicate_remaining = 0
        THEN /\ events' = events \cup {Event(at, sequence_counter)}
             /\ sequence_counter' = sequence_counter + 1
             /\ UNCHANGED link_policies
        ELSE /\ events' = events \cup {Event(at, sequence_counter),
                                       Event(at + p.duplicate_delay, sequence_counter + 1)}
             /\ sequence_counter' = sequence_counter + 2
             /\ link_policies' = [link_policies EXCEPT ![l].duplicate_remaining = @ - 1]

\* One message of flush_node_outbox: skipped for a blocked link or a crashed receiver,
\* else taken by drop_packets, else queued.
Post(m) ==
    LET l == sent[m]
    IN  \/ /\ l \in blocked_links \/ l[2] \in disabled_nodes
           /\ UNCHANGED queueVars
        \/ /\ l \notin blocked_links /\ l[2] \notin disabled_nodes
           /\ link_policies[l].drop_remaining > 0
           /\ link_policies' = [link_policies EXCEPT ![l].drop_remaining = @ - 1]
           /\ UNCHANGED <<events, sequence_counter>>
        \/ /\ l \notin blocked_links /\ l[2] \notin disabled_nodes
           /\ link_policies[l].drop_remaining = 0
           /\ Queue(m)

\* A crashed node's outbox is emptied, a paused node's is left, any other is sent
\* message by message.
FlushNodeOutbox ==
    /\ Doing("flush")
    /\ LET n == Head(work).node
       IN  \/ /\ n \in disabled_nodes
              /\ outbox' = [outbox EXCEPT ![n] = <<>>]
              /\ work' = Tail(work)
              /\ UNCHANGED queueVars
           \/ /\ n \notin disabled_nodes
              /\ n \in paused_nodes \/ outbox[n] = <<>>
              /\ work' = Tail(work)
              /\ UNCHANGED <<outbox, queueVars>>
           \/ /\ n \notin disabled_nodes \cup paused_nodes
              /\ outbox[n] # <<>>
              /\ Post(Head(outbox[n]))
              /\ outbox' = [outbox EXCEPT ![n] = Tail(@)]
              /\ UNCHANGED work
    /\ UNCHANGED <<now, nodeVars, linkVars, faultVars, pc, sent, handled>>

-----------------------------------------------------------------------------
(* Faults.  Each is a change of the simulation; "rest" is the work after it. *)

disable_node(n, rest) ==
    /\ disabled_nodes' = disabled_nodes \cup {n}
    /\ outbox' = [outbox EXCEPT ![n] = <<>>]
    /\ lossy' = TRUE
    /\ work' = rest
    /\ UNCHANGED <<queueVars, paused_nodes, paused_events, blocked_links, granted, sent>>

\* The mutant leaves the deferred events behind.
RestartKeepsDeferred(n, rest) ==
    /\ disabled_nodes' = disabled_nodes \ {n}
    /\ paused_nodes' = paused_nodes \ {n}
    /\ outbox' = [outbox EXCEPT ![n] = <<>>]
    /\ lossy' = TRUE
    /\ work' = rest
    /\ UNCHANGED <<queueVars, paused_events, blocked_links, granted, sent>>

\* RaftNode::restart empties the outbox too.
restart_node(n, rest) ==
    /\ disabled_nodes' = disabled_nodes \ {n}
    /\ paused_nodes' = paused_nodes \ {n}
    /\ paused_events' = [paused_events EXCEPT ![n] = {}]
    /\ outbox' = [outbox EXCEPT ![n] = <<>>]
    /\ lossy' = TRUE
    /\ work' = rest
    /\ UNCHANGED <<queueVars, blocked_links, granted, sent>>

pause_node(n, rest) ==
    /\ paused_nodes' = paused_nodes \cup {n}
    /\ work' = rest
    /\ UNCHANGED <<queueVars, outbox, disabled_nodes, paused_events, linkVars, sent>>

\* The mutant does not queue the deferred events again.
ResumeForgets(n, rest) ==
    /\ paused_nodes' = paused_nodes \ {n}
    /\ paused_events' = [paused_events EXCEPT ![n] = {}]
    /\ work' = <<Job("flush", n)>> \o rest
    /\ UNCHANGED <<queueVars, outbox, disabled_nodes, linkVars, sent>>

\* The deferred events are queued again, at this time but with their old numbers.
resume_node(n, rest) ==
    /\ paused_nodes' = paused_nodes \ {n}
    /\ paused_events' = [paused_events EXCEPT ![n] = {}]
    /\ events' = events \cup {[e EXCEPT !.deliver_at = now] : e \in paused_events[n]}
    /\ work' = <<Job("flush", n)>> \o rest
    /\ UNCHANGED <<sequence_counter, link_policies, outbox, disabled_nodes, linkVars, sent>>

\* Both directions between two groups; isolate_node and reconnect_node are between a
\* node and all the others.
Between(A, B) == Link \cap ((A \X B) \cup (B \X A))

block(links, rest) ==
    /\ blocked_links' = blocked_links \cup links
    /\ lossy' = TRUE
    /\ work' = rest
    /\ UNCHANGED <<queueVars, outbox, nodeVars, granted, sent>>

unblock(links, rest) ==
    /\ blocked_links' = blocked_links \ links
    /\ work' = rest
    /\ UNCHANGED <<queueVars, outbox, nodeVars, granted, lossy, sent>>

\* drop_packets and duplicate_packets add to what is left of an earlier call.
drop_packets(l, count, rest) ==
    /\ link_policies' = [link_policies EXCEPT ![l].drop_remaining = @ + count]
    /\ granted' = [granted EXCEPT ![l].drops = @ + count]
    /\ work' = rest
    /\ UNCHANGED <<events, sequence_counter, outbox, nodeVars, blocked_links, lossy, sent>>

duplicate_packets(l, count, delay, rest) ==
    /\ link_policies' = [link_policies EXCEPT ![l].duplicate_remaining = @ + count,
                                              ![l].duplicate_delay = delay]
    /\ granted' = [granted EXCEPT ![l].copies = @ + count]
    /\ work' = rest
    /\ UNCHANGED <<events, sequence_counter, outbox, nodeVars, blocked_links, lossy, sent>>

\* clear_link_delay is a delay of 0.
delay_link(l, delay, rest) ==
    /\ link_policies' = [link_policies EXCEPT ![l].delay = delay]
    /\ work' = rest
    /\ UNCHANGED <<events, sequence_counter, outbox, nodeVars, linkVars, sent>>

\* The node is called and its outbox flushed.
call_node(n, rest) ==
    /\ \E to \in Recipients(n) : Call(n, to)
    /\ work' = <<Job("flush", n)>> \o rest
    /\ UNCHANGED <<queueVars, nodeVars, linkVars>>

\* A crashed or paused node starts no election.
start_election(n, rest) ==
    \/ n \notin disabled_nodes \cup paused_nodes /\ call_node(n, rest)
    \/ /\ n \in disabled_nodes \cup paused_nodes
       /\ work' = rest
       /\ UNCHANGED <<queueVars, outbox, nodeVars, linkVars, sent>>

\* A submitted command is run by any node, a crashed or a paused one too.
apply_fault(f, rest) ==
    \/ f.kind = "Crash"      /\ disable_node(f.node, rest)
    \/ f.kind = "Restart"    /\ restart_node(f.node, rest)
    \/ f.kind = "Pause"      /\ pause_node(f.node, rest)
    \/ f.kind = "Resume"     /\ resume_node(f.node, rest)
    \/ f.kind = "Block"      /\ block({f.link}, rest)
    \/ f.kind = "Unblock"    /\ unblock({f.link}, rest)
    \/ f.kind = "Partition"  /\ block(Between(f.group_a, f.group_b), rest)
    \/ f.kind = "Heal"       /\ unblock(Link, rest)
    \/ f.kind = "Isolate"    /\ block(Between({f.node}, Node), rest)
    \/ f.kind = "Reconnect"  /\ unblock(Between({f.node}, Node), rest)
    \/ f.kind = "Drop"       /\ drop_packets(f.link, f.count, rest)
    \/ f.kind = "Delay"      /\ delay_link(f.link, f.delay, rest)
    \/ f.kind = "ClearDelay" /\ delay_link(f.link, 0, rest)
    \/ f.kind = "Duplicate"  /\ duplicate_packets(f.link, f.count, f.delay, rest)
    \/ f.kind = "Election"   /\ start_election(f.node, rest)
    \/ f.kind = "Submit"     /\ call_node(f.node, rest)

\* The order of ScheduledFault: earlier trigger_at first, then earlier scheduled.
NextFault == CHOOSE x \in scheduled_faults : \A y \in scheduled_faults :
                 \/ x.trigger_at < y.trigger_at
                 \/ x.trigger_at = y.trigger_at /\ x.sequence <= y.sequence

Due == {x \in scheduled_faults : x.trigger_at <= now}

\* One round of the loop of trigger_due_faults.
TriggerDueFaults ==
    /\ Doing("faults")
    /\ \/ /\ Due # {}
          /\ scheduled_faults' = scheduled_faults \ {NextFault}
          /\ apply_fault(NextFault.fault, work)
       \/ /\ Due = {}
          /\ work' = Tail(work)
          /\ UNCHANGED <<queueVars, outbox, nodeVars, linkVars, scheduled_faults, sent>>
    /\ UNCHANGED <<now, fault_sequence_counter, faults, pc, handled>>

-----------------------------------------------------------------------------
(* Time and delivery                                                       *)

\* The order of Event: earlier deliver_at first, then the lower sequence number.
FirstEvent == CHOOSE e \in events : \A x \in events :
                  \/ e.deliver_at < x.deliver_at
                  \/ e.deliver_at = x.deliver_at /\ e.sequence <= x.sequence

\* The clock moves; the faults that fell due come before any node ticks.
advance_to(time, rest) ==
    /\ now' = time
    /\ work' = <<[do |-> "faults"]>> \o ForAllNodes("tick") \o rest

\* A tick for a live node, its messages queued before the next node ticks.
Tick ==
    /\ Doing("tick")
    /\ start_election(Head(work).node, Tail(work))
    /\ UNCHANGED <<now, faultVars, pc, handled>>

\* deliver_next found nothing to do and returns false.
Returned == CASE pc = "run"        -> "idle"
              [] pc = "converging" -> "converged"
              [] OTHER             -> pc

\* The mutant delivers with the faults of the new time still to come.
PopWithoutFaults ==
    /\ events # {}
    /\ events' = events \ {FirstEvent}
    /\ now' = IF FirstEvent.deliver_at > now THEN FirstEvent.deliver_at ELSE now
    /\ work' = <<[do |-> "deliver", event |-> FirstEvent]>> \o Tail(work)
    /\ UNCHANGED pc

\* The clock moves on to the event's time, never back, and the faults of that time are
\* applied before the event is delivered.
PopEvent ==
    /\ events # {}
    /\ events' = events \ {FirstEvent}
    /\ now' = IF FirstEvent.deliver_at > now THEN FirstEvent.deliver_at ELSE now
    /\ work' = <<[do |-> "faults"], [do |-> "deliver", event |-> FirstEvent]>> \o Tail(work)
    /\ UNCHANGED pc

\* The mutant returns false where the code goes on to the next scheduled fault.
PopStops ==
    /\ events = {}
    /\ pc' = Returned
    /\ work' = Tail(work)
    /\ UNCHANGED <<now, events>>

\* Without an event: on to the next scheduled fault, or return false.
PopNothing ==
    /\ events = {}
    /\ UNCHANGED events
    /\ \/ /\ scheduled_faults # {}
          /\ advance_to(NextFault.trigger_at, Tail(work))
          /\ UNCHANGED pc
       \/ /\ scheduled_faults = {}
          /\ pc' = Returned
          /\ work' = Tail(work)
          /\ UNCHANGED now

Pop ==
    /\ Doing("pop")
    /\ PopEvent \/ PopNothing
    /\ UNCHANGED <<sequence_counter, link_policies, outbox, nodeVars, linkVars, faultVars,
                   sent, handled>>

\* The mutant queues an event for a paused node again where the code sets it aside.
Requeue(e) ==
    /\ events' = events \cup {e}
    /\ UNCHANGED paused_events

\* An event for a paused node waits until it is resumed.
Defer(e) ==
    /\ paused_events' = [paused_events EXCEPT ![sent[e.msg][2]] = @ \cup {e}]
    /\ UNCHANGED events

\* The end of deliver_next: the event is dropped, deferred or handled, by the nodes and
\* links as the faults of this time have left them.
Deliver ==
    /\ Doing("deliver")
    /\ LET e    == Head(work).event
           l    == sent[e.msg]
           lost == disabled_nodes \cap {l[1], l[2]} # {} \/ l \in blocked_links
       IN  \/ /\ lost
              /\ work' = Tail(work)
              /\ UNCHANGED <<queueVars, outbox, nodeVars, linkVars, sent, handled>>
           \/ /\ ~lost /\ l[2] \in paused_nodes
              /\ Defer(e)
              /\ work' = Tail(work)
              /\ UNCHANGED <<sequence_counter, link_policies, outbox, disabled_nodes,
                             paused_nodes, linkVars, sent, handled>>
           \/ /\ ~lost /\ l[2] \notin paused_nodes
              /\ handled' = [handled EXCEPT ![e.msg] = @ + 1]
              /\ call_node(l[2], Tail(work))
    /\ UNCHANGED <<now, faultVars, pc>>

-----------------------------------------------------------------------------
(* A test: any calls in any order                                          *)

Ready == work = <<>> /\ pc \in {"script", "idle"}

ApplyFault(f) ==
    /\ Ready /\ faults < MaxFaults
    /\ apply_fault(f, <<>>)
    /\ faults' = faults + 1
    /\ pc' = "script"
    /\ UNCHANGED <<now, scheduled_faults, fault_sequence_counter, handled>>

\* schedule_fault_after
ScheduleFault(delay, f) ==
    /\ Ready /\ faults < MaxFaults /\ now + delay <= MaxTime
    /\ faults' = faults + 1
    /\ fault_sequence_counter' = fault_sequence_counter + 1
    /\ scheduled_faults' = scheduled_faults \cup
           {[trigger_at |-> now + delay, fault |-> f, sequence |-> fault_sequence_counter']}
    /\ pc' = "script"
    /\ UNCHANGED <<now, queueVars, outbox, nodeVars, linkVars, work, sent, handled>>

AdvanceTime(millis) ==
    /\ Ready /\ now + millis <= MaxTime
    /\ advance_to(now + millis, <<>>)
    /\ pc' = "script"
    /\ UNCHANGED <<queueVars, outbox, nodeVars, linkVars, faultVars, sent, handled>>

Step ==
    /\ Ready
    /\ work' = DeliverNext
    /\ pc' = "script"
    /\ UNCHANGED <<now, queueVars, outbox, nodeVars, linkVars, faultVars, sent, handled>>

\* flush_all_outboxes; run_steps is this and a number of steps.
FlushAllOutboxes ==
    /\ Ready
    /\ work' = ForAllNodes("flush")
    /\ pc' = "script"
    /\ UNCHANGED <<now, queueVars, outbox, nodeVars, linkVars, faultVars, sent, handled>>

\* A test calls a node itself (sim[1].append_command(...)): the messages stay in the
\* outbox until the next flush.
CallNode(n) ==
    /\ Ready
    /\ \E to \in Recipients(n) \ {<<>>} : Call(n, to)
    /\ pc' = "script"
    /\ UNCHANGED <<now, queueVars, nodeVars, linkVars, faultVars, work, handled>>

EnableNode(n) ==
    /\ Ready /\ n \in disabled_nodes
    /\ disabled_nodes' = disabled_nodes \ {n}
    /\ pc' = "script"
    /\ UNCHANGED <<now, queueVars, outbox, paused_nodes, paused_events, linkVars, faultVars,
                   work, sent, handled>>

RunUntilIdle ==
    /\ work = <<>> /\ pc = "script"
    /\ work' = ForAllNodes("flush")
    /\ pc' = "run"
    /\ UNCHANGED <<now, queueVars, outbox, nodeVars, linkVars, faultVars, sent, handled>>

\* The loop of run_until_idle calls deliver_next until it returns false.
RunLoop ==
    /\ work = <<>> /\ pc \in {"run", "converging"}
    /\ work' = DeliverNext
    /\ UNCHANGED <<now, queueVars, outbox, nodeVars, linkVars, faultVars, pc, sent, handled>>

-----------------------------------------------------------------------------
(* run_chaos_test                                                          *)

\* A test may have paused nodes, blocked links or scheduled faults before.
RunChaosTest ==
    /\ Ready
    /\ pc' = "chaos"
    /\ UNCHANGED <<now, queueVars, outbox, nodeVars, linkVars, faultVars, work, sent, handled>>

\* A command for a node that is up, in one round of eight.
ChaosSubmit(n) ==
    /\ work = <<>> /\ pc = "chaos"
    /\ n \notin disabled_nodes \cup paused_nodes
    /\ call_node(n, <<>>)
    /\ pc' = "inject"
    /\ UNCHANGED <<now, faultVars, handled>>

\* What inject_random_fault may inject: a crash only while two nodes are up, a restart
\* only of a crashed one, a partition into halves, a heal only of a partition.
RandomFault ==
    LET active == Node \ disabled_nodes
        Half   == {A \in SUBSET Node : Cardinality(A) = IF N < 4 THEN 1 ELSE N \div 2}
    IN  {[kind |-> "Crash", node |-> n] : n \in {k \in active : Cardinality(active) > 1}}
        \cup {[kind |-> "Restart", node |-> n] : n \in disabled_nodes}
        \cup {[kind |-> "Partition", group_a |-> A, group_b |-> Node \ A] : A \in Half}
        \cup {[kind |-> "Heal"] : l \in blocked_links}
        \cup {[kind |-> "Drop", link |-> l, count |-> c] : l \in Link, c \in DropCounts}
        \cup {[kind |-> "Delay", link |-> l, delay |-> d] : l \in Link, d \in Delays \ {0}}

ChaosInject ==
    /\ work = <<>> /\ pc \in {"chaos", "inject"}
    /\ \/ /\ faults < MaxFaults
          /\ faults' = faults + 1
          /\ \E f \in RandomFault : apply_fault(f, <<>>)
       \/ UNCHANGED <<queueVars, outbox, nodeVars, linkVars, work, faults, sent>>
    /\ pc' = "move"
    /\ UNCHANGED <<now, scheduled_faults, fault_sequence_counter, handled>>

\* Then time passes or an event is delivered.
ChaosMove ==
    /\ work = <<>> /\ pc = "move"
    /\ \/ \E millis \in Delays \ {0} : now + millis <= MaxTime /\ advance_to(now + millis, <<>>)
       \/ work' = DeliverNext /\ UNCHANGED now
    /\ pc' = "chaos"
    /\ UNCHANGED <<queueVars, outbox, nodeVars, linkVars, faultVars, sent, handled>>

\* The end of run_chaos_test: heal, bring every node up, flush and run until idle.
Converge ==
    /\ work = <<>> /\ pc = "chaos"
    /\ unblock(Link, ForAllNodes("up") \o ForAllNodes("flush"))
    /\ pc' = "converging"
    /\ UNCHANGED <<now, faultVars, handled>>

\* The mutant resumes the paused nodes and forgets the crashed ones.
ResumeOnly(n, rest) ==
    \/ n \in paused_nodes /\ resume_node(n, rest)
    \/ /\ n \notin paused_nodes
       /\ work' = rest
       /\ UNCHANGED <<queueVars, outbox, nodeVars, linkVars, sent>>

\* A crashed node is restarted, which resumes it too; a paused one is resumed.
BringUp(n, rest) ==
    \/ n \in disabled_nodes /\ restart_node(n, rest)
    \/ n \in paused_nodes \ disabled_nodes /\ resume_node(n, rest)
    \/ /\ n \notin disabled_nodes \cup paused_nodes
       /\ work' = rest
       /\ UNCHANGED <<queueVars, outbox, nodeVars, linkVars, sent>>

Up ==
    /\ Doing("up")
    /\ BringUp(Head(work).node, Tail(work))
    /\ UNCHANGED <<now, faultVars, pc, handled>>

-----------------------------------------------------------------------------

\* What the call under way does next.
Work == FlushNodeOutbox \/ TriggerDueFaults \/ Tick \/ Pop \/ Deliver \/ Up

Next ==
    \/ Work
    \/ \E f \in Fault : ApplyFault(f) \/ \E delay \in Delays : ScheduleFault(delay, f)
    \/ \E millis \in Delays \ {0} : AdvanceTime(millis)
    \/ Step
    \/ FlushAllOutboxes
    \/ \E n \in Node : CallNode(n) \/ EnableNode(n) \/ ChaosSubmit(n)
    \/ RunUntilIdle
    \/ RunLoop
    \/ RunChaosTest
    \/ ChaosInject
    \/ ChaosMove
    \/ Converge

\* A call of one thread goes on until it returns.
Spec == Init /\ [][Next]_vars /\ WF_vars(Work \/ RunLoop)

-----------------------------------------------------------------------------
(* Properties                                                              *)

\* The fields of the simulation are of their types, and an event waits aside only for
\* a paused node.
TypeOK ==
    /\ now \in Nat /\ disabled_nodes \subseteq Node /\ paused_nodes \subseteq Node
    /\ blocked_links \subseteq Link
    /\ \A n \in Node : paused_events[n] # {} => n \in paused_nodes
    /\ \A l \in Link : \A f \in DOMAIN NoPolicy : link_policies[l][f] \in Nat

\* The copies of message m: in its sender's outbox, queued, about to be delivered, set
\* aside, or handled.
Copies(m) ==
    LET Of(E) == Cardinality({e \in E : e.msg = m})
        n     == sent[m][1]
    IN  Cardinality({k \in 1 .. Len(outbox[n]) : outbox[n][k] = m})
        + Cardinality({k \in 1 .. Len(work) : work[k].do = "deliver" /\ work[k].event.msg = m})
        + Of(events) + Of(paused_events[sent[m][2]]) + handled[m]

\* No message appears or disappears by itself.  On every link, the copies of the
\* messages sent are those messages, less the packets drop_packets took and plus the
\* ones duplicate_packets added, as long as nothing crashed and no link was blocked;
\* after that there are at most as many.  Pauses, delays and resumes lose and repeat
\* nothing.
CopiesAccounted ==
    \A l \in Link :
        LET messages == {m \in 1 .. Len(sent) : sent[m] = l}
            copies   == FoldSet(LAMBDA m, sum : sum + Copies(m), 0, messages)
            dropped  == granted[l].drops - link_policies[l].drop_remaining
            doubled  == granted[l].copies - link_policies[l].duplicate_remaining
        IN  /\ copies <= Cardinality(messages) + doubled - dropped
            /\ ~lossy => copies = Cardinality(messages) + doubled - dropped

\* No message is handed to a node and no node ticks while a scheduled fault is overdue:
\* a test that crashes a node at a time sees no message handled at that time or later,
\* whatever the faults scheduled with it send or resume.
FaultsOnTime == Doing("deliver") \/ Doing("tick") => Due = {}

\* When run_until_idle returns, nothing is queued, no scheduled fault is still to come,
\* and only paused nodes have messages to send or to receive.
IdleIsQuiet ==
    pc \in {"idle", "converged"} /\ work = <<>> =>
        /\ events = {} /\ scheduled_faults = {}
        /\ \A n \in Node \ paused_nodes : outbox[n] = <<>> /\ paused_events[n] = {}

\* A chaos test ends with every node up, no link blocked and nothing on its way, also when
\* it began with paused nodes; unless a scheduled fault came in its last run.
ChaosConverges ==
    pc = "converged" /\ fault_sequence_counter = 0 =>
        /\ disabled_nodes = {} /\ paused_nodes = {} /\ blocked_links = {}
        /\ \A n \in Node : outbox[n] = <<>> /\ paused_events[n] = {}

\* run_until_idle returns, whatever is paused, delayed or scheduled: while the nodes
\* fall silent it never gets to its panic over too many steps.
RunReturns == pc \in {"run", "converging"} ~> pc \in {"idle", "converged"}
=============================================================================
