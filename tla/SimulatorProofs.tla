-------------------------- MODULE SimulatorProofs --------------------------
(***************************************************************************)
(* The simulator applies its scheduled faults on time, for any number of   *)
(* nodes, any faults, delays and bounds.                                   *)
(***************************************************************************)
EXTENDS Simulator, SequenceTheorems, TLAPS

\* A leaf that names no prover is tried with each of these, in this order.
USE SMT, Zenon, SMTT(60), ZenonT(60)

\* A delivery or a tick that is still to come, with a fault overdue, has a round of
\* trigger_due_faults before it.
Guarded(w, due) ==
    \A k \in 1 .. Len(w) :
        w[k].do \in {"deliver", "tick"} => due = {} \/ \E j \in 1 .. k - 1 : w[j].do = "faults"

IsWork(w) == \E S : w \in Seq(S)

GuardInv == IsWork(work) /\ Guarded(work, Due)

-----------------------------------------------------------------------------
(* What the calls do to the list of work                                   *)

LEMMA EmptyGuarded == IsWork(<<>>) /\ \A due : Guarded(<<>>, due)
<1>1. <<>> \in Seq({}) /\ Len(<<>>) = 0
  OBVIOUS
<1>2. QED
  BY <1>1 DEF IsWork, Guarded

\* The first piece of work is done; if it was a round of faults, none is overdue.
LEMMA TailGuarded ==
    ASSUME NEW w, IsWork(w), w # <<>>, NEW due, Guarded(w, due),
           Head(w).do = "faults" => due = {}
    PROVE  IsWork(Tail(w)) /\ Guarded(Tail(w), due)
<1>1. PICK S : w \in Seq(S)
  BY DEF IsWork
<1>2. /\ Tail(w) \in Seq(S) /\ Len(Tail(w)) = Len(w) - 1 /\ Len(w) \in Nat
      /\ \A k \in 1 .. Len(Tail(w)) : Tail(w)[k] = w[k + 1]
      /\ Head(w) = w[1]
  BY <1>1, HeadTailProperties, LenProperties
<1>3. ASSUME NEW k \in 1 .. Len(Tail(w)), Tail(w)[k].do \in {"deliver", "tick"}, due # {}
      PROVE  \E j \in 1 .. k - 1 : Tail(w)[j].do = "faults"
  <2>1. k + 1 \in 1 .. Len(w) /\ w[k + 1].do \in {"deliver", "tick"}
    BY <1>2, <1>3
  <2>2. PICK j \in 1 .. k : w[j].do = "faults"
    BY <1>3, <2>1 DEF Guarded
  <2>3. j # 1
    BY <1>2, <1>3, <2>2
  <2>4. j - 1 \in 1 .. k - 1 /\ Tail(w)[j - 1].do = "faults"
    BY <1>2, <2>2, <2>3
  <2>5. QED
    BY <2>4
<1>4. QED
  BY <1>2, <1>3 DEF IsWork, Guarded

\* A piece of work that is neither a delivery nor a tick is put in front.
LEMMA ConsGuarded ==
    ASSUME NEW x, x.do \notin {"deliver", "tick"}, NEW w, IsWork(w), NEW due,
           Guarded(w, due) \/ x.do = "faults"
    PROVE  IsWork(<<x>> \o w) /\ Guarded(<<x>> \o w, due)
<1> DEFINE v == <<x>> \o w
<1>1. PICK S : w \in Seq(S)
  BY DEF IsWork
<1>2. w \in Seq(S \cup {x}) /\ <<x>> \in Seq(S \cup {x}) /\ Len(<<x>>) = 1 /\ Len(w) \in Nat
  BY <1>1, SeqDef
<1>3. /\ v \in Seq(S \cup {x}) /\ Len(v) = Len(w) + 1 /\ v[1] = x
      /\ \A k \in 2 .. Len(w) + 1 : v[k] = w[k - 1]
  BY <1>2, ConcatProperties
<1>4. ASSUME NEW k \in 1 .. Len(v), v[k].do \in {"deliver", "tick"}, due # {}
      PROVE  \E j \in 1 .. k - 1 : v[j].do = "faults"
  <2>1. k # 1 /\ k - 1 \in 1 .. Len(w) /\ w[k - 1].do \in {"deliver", "tick"}
    BY <1>2, <1>3, <1>4
  <2>2. CASE x.do = "faults"
    BY <1>2, <1>3, <2>1, <2>2
  <2>3. CASE Guarded(w, due)
    <3>1. PICK j \in 1 .. (k - 1) - 1 : w[j].do = "faults"
      BY <1>4, <2>1, <2>3 DEF Guarded
    <3>2. j + 1 \in 1 .. k - 1 /\ v[j + 1] = w[j]
      BY <1>2, <1>3, <1>4, <2>1, <3>1
    <3>3. QED
      BY <3>1, <3>2
  <2>4. QED
    BY <2>2, <2>3
<1>5. QED
  BY <1>3, <1>4 DEF IsWork, Guarded

LEMMA ConcatWork ==
    ASSUME NEW v, IsWork(v), NEW w, IsWork(w)
    PROVE  /\ IsWork(v \o w) /\ Len(v \o w) = Len(v) + Len(w) /\ Len(v) \in Nat /\ Len(w) \in Nat
           /\ \A k \in 1 .. Len(v) + Len(w) :
                 (v \o w)[k] = IF k <= Len(v) THEN v[k] ELSE w[k - Len(v)]
<1>1. PICK S : v \in Seq(S)
  BY DEF IsWork
<1>2. PICK T : w \in Seq(T)
  BY DEF IsWork
<1>3. v \in Seq(S \cup T) /\ w \in Seq(S \cup T)
  BY <1>1, <1>2, SeqDef
<1>4. QED
  BY <1>3, ConcatProperties, LenProperties DEF IsWork

\* After a round of faults anything may follow.
LEMMA FaultsFirst ==
    ASSUME NEW v, IsWork(v), Len(v) > 0, v[1].do = "faults", NEW w, IsWork(w), NEW due
    PROVE  IsWork(v \o w) /\ Guarded(v \o w, due)
<1>1. /\ IsWork(v \o w) /\ Len(v \o w) = Len(v) + Len(w) /\ Len(v) \in Nat /\ Len(w) \in Nat
      /\ \A k \in 1 .. Len(v) + Len(w) :
            (v \o w)[k] = IF k <= Len(v) THEN v[k] ELSE w[k - Len(v)]
  BY ConcatWork
<1>2. 1 \in 1 .. Len(v) + Len(w) /\ 1 <= Len(v)
  BY <1>1
<1>3. (v \o w)[1].do = "faults"
  BY <1>1, <1>2
<1>4. QED
  BY <1>1, <1>3 DEF Guarded

LEMMA AllNodesWork ==
    ASSUME NEW do
    PROVE  /\ IsWork(ForAllNodes(do)) /\ Len(ForAllNodes(do)) = N
           /\ \A k \in 1 .. N : ForAllNodes(do)[k].do = do
<1>1. ForAllNodes(do) \in [1 .. N -> {Job(do, n) : n \in Node}]
  BY DEF ForAllNodes, Node
<1>2. ForAllNodes(do) \in Seq({Job(do, n) : n \in Node}) /\ Len(ForAllNodes(do)) = N
  <2> DEFINE f == ForAllNodes(do)
             S == {Job(do, n) : n \in Node}
  <2>1. f \in [1 .. N -> S] /\ N \in Nat
    BY <1>1, BoundType
  <2> HIDE DEF f, S
  <2>2. f \in Seq(S)
    BY <2>1, SeqDef
  <2>3. Len(f) \in Nat /\ 1 .. Len(f) = 1 .. N
    BY <2>1, <2>2, LenProperties
  <2>4. Len(f) = N
    BY <2>1, <2>3
  <2>5. QED
    BY <2>2, <2>4 DEF f, S
<1>3. \A k \in 1 .. N : ForAllNodes(do)[k].do = do
  BY DEF ForAllNodes, Node, Job
<1>4. QED
  BY <1>2, <1>3 DEF IsWork

\* deliver_next and advance_time begin with a round of faults.
LEMMA CallsGuarded ==
    /\ IsWork(DeliverNext) /\ \A due : Guarded(DeliverNext, due)
    /\ \A time, rest, due : IsWork(rest) /\ advance_to(time, rest)
                               => IsWork(work') /\ Guarded(work', due)
<1> DEFINE round == <<[do |-> "faults"]>>
<1>1. IsWork(round) /\ Len(round) = 1 /\ round[1].do = "faults"
  <2>1. round \in Seq({[do |-> "faults"]})
    OBVIOUS
  <2>2. QED
    BY <2>1, Zenon DEF IsWork
<1>2. IsWork(DeliverNext) /\ \A due : Guarded(DeliverNext, due)
  <2>1. DeliverNext \in Seq({[do |-> "faults"], [do |-> "pop"]}) /\ Len(DeliverNext) = 2
    BY DEF DeliverNext
  <2>2. DeliverNext[1].do = "faults" /\ DeliverNext[2].do = "pop"
    BY DEF DeliverNext
  <2>3. QED
    BY <2>1, <2>2 DEF IsWork, Guarded
<1>3. ASSUME NEW time, NEW rest, NEW due, IsWork(rest), advance_to(time, rest)
      PROVE  IsWork(work') /\ Guarded(work', due)
  <2>1. work' = round \o ForAllNodes("tick") \o rest
    BY <1>3 DEF advance_to
  <2>2. /\ IsWork(round \o ForAllNodes("tick")) /\ Len(round \o ForAllNodes("tick")) > 0
        /\ (round \o ForAllNodes("tick"))[1].do = "faults"
    BY <1>1, AllNodesWork, BoundType, ConcatWork
  <2>3. QED
    BY <1>3, <2>1, <2>2, FaultsFirst, Zenon
<1>4. QED
  BY <1>2, <1>3

\* A list without deliveries and ticks needs no guard.
LEMMA QuietGuarded ==
    ASSUME NEW w, \A k \in 1 .. Len(w) : w[k].do \notin {"deliver", "tick"}, NEW due
    PROVE  Guarded(w, due)
BY DEF Guarded

\* No fault puts a delivery or a tick in the list.
LEMMA FaultWork ==
    ASSUME NEW f, NEW rest, apply_fault(f, rest)
    PROVE  work' = rest \/ \E n : work' = <<Job("flush", n)>> \o rest
BY DEF apply_fault, disable_node, restart_node, pause_node, resume_node, block, unblock,
       drop_packets, duplicate_packets, delay_link, start_election, call_node

LEMMA FlushFirst ==
    ASSUME NEW rest, IsWork(rest), NEW due, Guarded(rest, due),
           work' = rest \/ \E n : work' = <<Job("flush", n)>> \o rest
    PROVE  IsWork(work') /\ Guarded(work', due)
<1>1. CASE work' = rest
  BY <1>1
<1>2. ASSUME NEW n, work' = <<Job("flush", n)>> \o rest
      PROVE  IsWork(work') /\ Guarded(work', due)
  <2>1. Job("flush", n).do \notin {"deliver", "tick"}
    BY DEF Job
  <2>2. QED
    BY <1>2, <2>1, ConsGuarded
<1>3. QED
  BY <1>1, <1>2, Zenon

-----------------------------------------------------------------------------
(* Every step                                                              *)

LEMMA FewerDue ==
    ASSUME NEW w, NEW due, NEW less \in SUBSET due, Guarded(w, due)
    PROVE  Guarded(w, less)
BY DEF Guarded

\* A step that neither moves the clock nor schedules a fault, and drops the first piece
\* of work or puts a flush before the rest.
LEMMA WorkDone ==
    ASSUME GuardInv, work # <<>>, Head(work).do # "faults", UNCHANGED <<now, scheduled_faults>>,
           work' = Tail(work) \/ \E n : work' = <<Job("flush", n)>> \o Tail(work)
    PROVE  GuardInv'
<1>1. Due' = Due
  BY DEF Due
<1>2. IsWork(Tail(work)) /\ Guarded(Tail(work), Due)
  BY TailGuarded DEF GuardInv
<1>3. IsWork(work') /\ Guarded(work', Due)
  BY <1>2, FlushFirst, Zenon
<1>4. QED
  BY <1>1, <1>3 DEF GuardInv

LEMMA GuardStep == GuardInv /\ [Next]_vars => GuardInv'
<1> SUFFICES ASSUME GuardInv, [Next]_vars PROVE GuardInv'
  OBVIOUS
<1>0. IsWork(work) /\ Guarded(work, Due)
  BY DEF GuardInv
<1>e. ASSUME work' = <<>> PROVE GuardInv'
  BY <1>e, EmptyGuarded DEF GuardInv
<1>n. ASSUME work' = DeliverNext PROVE GuardInv'
  BY <1>n, CallsGuarded DEF GuardInv
<1>f. ASSUME work' = <<>> \/ \E n : work' = <<Job("flush", n)>> \o <<>> PROVE GuardInv'
  <2>1. IsWork(<<>>) /\ Guarded(<<>>, Due')
    BY EmptyGuarded
  <2>2. IsWork(work') /\ Guarded(work', Due')
    BY <1>f, <2>1, FlushFirst, Zenon
  <2>3. QED
    BY <2>2 DEF GuardInv
<1>a. ASSUME NEW time, NEW rest, IsWork(rest), advance_to(time, rest) PROVE GuardInv'
  BY <1>a, CallsGuarded DEF GuardInv
<1>1. CASE FlushNodeOutbox
  <2>1. work # <<>> /\ Head(work).do = "flush" /\ UNCHANGED <<now, scheduled_faults>>
    BY <1>1 DEF FlushNodeOutbox, Doing, faultVars
  <2>2. work' = Tail(work) \/ work' = work
    BY <1>1 DEF FlushNodeOutbox
  <2>3. CASE work' = work
    BY <1>0, <2>1, <2>3 DEF GuardInv, Due
  <2>4. QED
    BY <2>1, <2>2, <2>3, WorkDone
<1>2. CASE TriggerDueFaults
  <2>1. work # <<>> /\ Head(work).do = "faults" /\ UNCHANGED now
    BY <1>2 DEF TriggerDueFaults, Doing
  <2>2. CASE scheduled_faults' \subseteq scheduled_faults /\ apply_fault(NextFault.fault, work)
    <3>1. Due' \in SUBSET Due
      BY <2>1, <2>2 DEF Due
    <3>2. Guarded(work, Due')
      BY <1>0, <3>1, FewerDue
    <3>3. IsWork(work') /\ Guarded(work', Due')
      BY <1>0, <2>2, <3>2, FaultWork, FlushFirst
    <3>4. QED
      BY <3>3 DEF GuardInv
  <2>3. CASE Due = {} /\ work' = Tail(work) /\ UNCHANGED scheduled_faults
    <3>1. Due' = Due
      BY <2>1, <2>3 DEF Due
    <3>2. IsWork(Tail(work)) /\ Guarded(Tail(work), Due)
      BY <1>0, <2>1, <2>3, TailGuarded
    <3>3. QED
      BY <2>3, <3>1, <3>2 DEF GuardInv
  <2>4. QED
    BY <1>2, <2>2, <2>3 DEF TriggerDueFaults
<1>3. CASE Tick
  <2>1. /\ work # <<>> /\ Head(work).do # "faults" /\ UNCHANGED <<now, scheduled_faults>>
        /\ work' = Tail(work) \/ \E n : work' = <<Job("flush", n)>> \o Tail(work)
    BY <1>3 DEF Tick, Doing, faultVars, start_election, call_node
  <2>2. QED
    BY <2>1, WorkDone
<1>4. CASE Pop
  <2>1. work # <<>> /\ Head(work).do # "faults" /\ UNCHANGED scheduled_faults
    BY <1>4 DEF Pop, Doing, faultVars
  <2>2. IsWork(Tail(work))
    BY <1>0, <2>1, TailGuarded
  <2>3. CASE PopEvent
    <3> DEFINE v == <<[do |-> "faults"], [do |-> "deliver", event |-> FirstEvent]>>
    <3>1. v \in Seq({[do |-> "faults"], [do |-> "deliver", event |-> FirstEvent]})
      OBVIOUS
    <3>2. IsWork(v) /\ Len(v) > 0 /\ v[1].do = "faults"
      <4>1. Len(v) = 2 /\ v[1] = [do |-> "faults"]
        OBVIOUS
      <4>2. IsWork(v)
        BY <3>1, Zenon DEF IsWork
      <4> HIDE DEF v
      <4>3. QED
        BY <4>1, <4>2
    <3>3. work' = v \o Tail(work)
      BY <2>3 DEF PopEvent
    <3>4. IsWork(work') /\ Guarded(work', Due')
      BY <2>2, <3>2, <3>3, FaultsFirst
    <3>5. QED
      BY <3>4 DEF GuardInv
  <2>4. CASE PopNothing
    <3>1. CASE advance_to(NextFault.trigger_at, Tail(work))
      BY <1>a, <2>2, <3>1
    <3>2. CASE work' = Tail(work) /\ UNCHANGED now
      BY <2>1, <3>2, WorkDone
    <3>3. QED
      BY <2>4, <3>1, <3>2 DEF PopNothing
  <2>5. QED
    BY <1>4, <2>3, <2>4 DEF Pop
<1>5. CASE Deliver
  <2>1. /\ work # <<>> /\ Head(work).do # "faults" /\ UNCHANGED <<now, scheduled_faults>>
        /\ work' = Tail(work) \/ \E n : work' = <<Job("flush", n)>> \o Tail(work)
    BY <1>5, Zenon DEF Deliver, Doing, faultVars, call_node
  <2>2. QED
    BY <2>1, WorkDone
<1>6. CASE Up
  <2>1. /\ work # <<>> /\ Head(work).do # "faults" /\ UNCHANGED <<now, scheduled_faults>>
        /\ work' = Tail(work) \/ \E n : work' = <<Job("flush", n)>> \o Tail(work)
    BY <1>6 DEF Up, Doing, faultVars, BringUp, restart_node, resume_node
  <2>2. QED
    BY <2>1, WorkDone
<1>7. ASSUME NEW f, ApplyFault(f) PROVE GuardInv'
  BY <1>7, <1>f, FaultWork, Zenon DEF ApplyFault
<1>8. ASSUME NEW f, NEW delay, ScheduleFault(delay, f) PROVE GuardInv'
  BY <1>8, <1>e DEF ScheduleFault, Ready
<1>9. ASSUME NEW millis, AdvanceTime(millis) PROVE GuardInv'
  BY <1>9, <1>a, EmptyGuarded DEF AdvanceTime
<1>10. CASE Step \/ RunLoop
  BY <1>10, <1>n DEF Step, RunLoop
<1>11. ASSUME NEW n, CallNode(n) \/ EnableNode(n) PROVE GuardInv'
  BY <1>11, <1>e DEF CallNode, EnableNode, Ready
<1>12. CASE RunUntilIdle \/ FlushAllOutboxes
  <2>1. work' = ForAllNodes("flush")
    BY <1>12 DEF RunUntilIdle, FlushAllOutboxes
  <2>2. QED
    BY <2>1, AllNodesWork, QuietGuarded DEF GuardInv
<1>13. CASE RunChaosTest
  BY <1>13, <1>e DEF RunChaosTest, Ready
<1>14. ASSUME NEW n, ChaosSubmit(n) PROVE GuardInv'
  BY <1>14, <1>f DEF ChaosSubmit, call_node
<1>15. CASE ChaosInject
  <2>1. CASE UNCHANGED work
    BY <1>15, <1>e, <2>1 DEF ChaosInject
  <2>2. ASSUME NEW f, apply_fault(f, <<>>) PROVE GuardInv'
    BY <2>2, <1>f, FaultWork, Zenon
  <2>3. QED
    BY <1>15, <2>1, <2>2 DEF ChaosInject
<1>16. CASE ChaosMove
  BY <1>16, <1>a, <1>n, EmptyGuarded DEF ChaosMove
<1>17. CASE Converge
  <2> DEFINE v == ForAllNodes("up") \o ForAllNodes("flush")
  <2>1. work' = v
    BY <1>17 DEF Converge, unblock
  <2>2. IsWork(v) /\ \A k \in 1 .. Len(v) : v[k].do \in {"up", "flush"}
    <3> DEFINE u == ForAllNodes("up")
               w == ForAllNodes("flush")
    <3>1. /\ IsWork(u) /\ Len(u) = N /\ \A k \in 1 .. N : u[k].do = "up"
          /\ IsWork(w) /\ Len(w) = N /\ \A k \in 1 .. N : w[k].do = "flush"
      BY AllNodesWork
    <3> HIDE DEF u, w
    <3>2. /\ IsWork(u \o w) /\ Len(u \o w) = N + N
          /\ \A k \in 1 .. N + N : (u \o w)[k] = IF k <= N THEN u[k] ELSE w[k - N]
      <4>1. /\ IsWork(u \o w) /\ Len(u \o w) = Len(u) + Len(w)
            /\ \A k \in 1 .. Len(u) + Len(w) :
                  (u \o w)[k] = IF k <= Len(u) THEN u[k] ELSE w[k - Len(u)]
        BY <3>1, ConcatWork, Zenon
      <4>2. QED
        BY <3>1, <4>1
    <3>3. ASSUME NEW k \in 1 .. N + N PROVE (u \o w)[k].do \in {"up", "flush"}
      BY <3>1, <3>2, <3>3, BoundType
    <3>4. QED
      BY <3>2, <3>3 DEF u, w
  <2>3. QED
    BY <2>1, <2>2, QuietGuarded, Zenon DEF GuardInv
<1>18. CASE UNCHANGED vars
  BY <1>18 DEF vars, GuardInv, Due, faultVars
<1>19. QED
  BY <1>1, <1>2, <1>3, <1>4, <1>5, <1>6, <1>7, <1>8, <1>9, <1>10, <1>11, <1>12, <1>13, <1>14,
     <1>15, <1>16, <1>17, <1>18 DEF Next, Work

\* Whatever a test schedules and calls, deliver_next hands no message to a node and
\* advance_time ticks none while a scheduled fault is overdue.
THEOREM FaultsAlwaysOnTime == Spec => []FaultsOnTime
<1>1. Init => GuardInv
  BY EmptyGuarded DEF Init, GuardInv
<1>2. GuardInv => FaultsOnTime
  <2> SUFFICES ASSUME GuardInv, Doing("deliver") \/ Doing("tick") PROVE Due = {}
    BY DEF FaultsOnTime
  <2>1. PICK S : work \in Seq(S)
    BY DEF GuardInv, IsWork
  <2>2. work # <<>> /\ Head(work) = work[1] /\ Len(work) \in Nat \ {0}
    BY <2>1, HeadTailProperties, LenProperties, EmptySeq DEF Doing
  <2>3. 1 \in 1 .. Len(work) /\ work[1].do \in {"deliver", "tick"}
    BY <2>2 DEF Doing
  <2>4. QED
    BY <2>3 DEF GuardInv, Guarded
<1>3. QED
  BY <1>1, <1>2, GuardStep, PTL DEF Spec

-----------------------------------------------------------------------------
(* run_until_idle leaves nothing behind                                    *)

\* The list of work has a piece of work for node n.
HasJob(w, do, n) == \E k \in 1 .. Len(w) : w[k] = Job(do, n)

\* deliver_next takes an event as the last thing it does.
PopLast(w) == \A k \in 1 .. Len(w) : w[k].do = "pop" => k = Len(w)

\* A node that has messages to send is paused or about to be flushed.
WillFlush(w) == \A n \in Node \ paused_nodes : outbox[n] # <<>> => HasJob(w, "flush", n)

Running == pc \in {"run", "idle", "converging", "converged"}

QuietInv ==
    /\ IsWork(work) /\ PopLast(work)
    /\ DOMAIN outbox = Node /\ DOMAIN paused_events = Node
    /\ \A n \in Node : paused_events[n] # {} => n \in paused_nodes
    /\ Running => WillFlush(work)
    /\ pc \in {"idle", "converged"} => work = <<>> /\ events = {} /\ scheduled_faults = {}

LEMMA TailWork ==
    ASSUME NEW w, IsWork(w), w # <<>>
    PROVE  /\ IsWork(Tail(w)) /\ Len(w) \in Nat /\ Len(w) >= 1 /\ Len(Tail(w)) = Len(w) - 1
           /\ Head(w) = w[1] /\ \A k \in 1 .. Len(w) - 1 : Tail(w)[k] = w[k + 1]
<1>1. PICK S : w \in Seq(S)
  BY DEF IsWork
<1>2. /\ Tail(w) \in Seq(S) /\ Len(w) \in Nat /\ Len(w) >= 1 /\ Len(Tail(w)) = Len(w) - 1
      /\ Head(w) = w[1] /\ \A k \in 1 .. Len(w) - 1 : Tail(w)[k] = w[k + 1]
  BY <1>1, HeadTailProperties, LenProperties, EmptySeq
<1>3. QED
  BY <1>2, Zenon DEF IsWork

\* The first piece of work is done.
LEMMA TailQuiet ==
    ASSUME NEW w, IsWork(w), w # <<>>, PopLast(w)
    PROVE  /\ IsWork(Tail(w)) /\ PopLast(Tail(w))
           /\ Head(w).do = "pop" => Tail(w) = <<>>
           /\ \A do, n : HasJob(w, do, n) /\ Head(w) # Job(do, n) => HasJob(Tail(w), do, n)
<1>1. /\ IsWork(Tail(w)) /\ Len(w) \in Nat /\ Len(w) >= 1 /\ Len(Tail(w)) = Len(w) - 1
      /\ Head(w) = w[1] /\ \A k \in 1 .. Len(w) - 1 : Tail(w)[k] = w[k + 1]
  BY TailWork, Zenon
<1>2. PopLast(Tail(w))
  <2> SUFFICES ASSUME NEW k \in 1 .. Len(w) - 1, Tail(w)[k].do = "pop" PROVE k = Len(w) - 1
    BY <1>1, Zenon DEF PopLast
  <2>1. k + 1 \in 1 .. Len(w) /\ w[k + 1].do = "pop"
    BY <1>1
  <2>2. k + 1 = Len(w)
    BY <2>1, Zenon DEF PopLast
  <2>3. Len(w) \in Nat
    BY <1>1, Zenon
  <2>4. QED
    BY <2>2, <2>3
<1>3. ASSUME Head(w).do = "pop" PROVE Tail(w) = <<>>
  <2>1. 1 \in 1 .. Len(w) /\ w[1].do = "pop"
    BY <1>1, <1>3
  <2>2. Len(w) = 1
    BY <2>1, Zenon DEF PopLast
  <2>3. PICK S : Tail(w) \in Seq(S)
    BY <1>1 DEF IsWork
  <2>4. Len(Tail(w)) = 0
    <3>1. Len(Tail(w)) = Len(w) - 1
      BY <1>1, Zenon
    <3>2. QED
      BY <2>2, <3>1
  <2>5. QED
    BY <2>3, <2>4, EmptySeq, Zenon
<1>4. ASSUME NEW do, NEW n, HasJob(w, do, n), Head(w) # Job(do, n) PROVE HasJob(Tail(w), do, n)
  <2>1. PICK k \in 1 .. Len(w) : w[k] = Job(do, n)
    BY <1>4 DEF HasJob
  <2>2. k # 1
    BY <1>1, <1>4, <2>1, Zenon
  <2>3. k - 1 \in 1 .. Len(w) - 1 /\ (k - 1) + 1 = k
    BY <1>1, <2>1, <2>2
  <2>4. Tail(w)[k - 1] = Job(do, n)
    BY <1>1, <2>1, <2>3, Zenon
  <2>5. QED
    BY <1>1, <2>3, <2>4, Zenon DEF HasJob
<1>5. QED
  BY <1>1, <1>2, <1>3, <1>4, Zenon

\* New work without a pop comes first.
LEMMA ConcatQuiet ==
    ASSUME NEW v, IsWork(v), NEW w, IsWork(w), PopLast(w),
           \A k \in 1 .. Len(v) : v[k].do # "pop"
    PROVE  /\ IsWork(v \o w) /\ PopLast(v \o w)
           /\ \A do, n : HasJob(v, do, n) \/ HasJob(w, do, n) => HasJob(v \o w, do, n)
<1>1. /\ IsWork(v \o w) /\ Len(v \o w) = Len(v) + Len(w) /\ Len(v) \in Nat /\ Len(w) \in Nat
      /\ \A k \in 1 .. Len(v) + Len(w) :
            (v \o w)[k] = IF k <= Len(v) THEN v[k] ELSE w[k - Len(v)]
  BY ConcatWork
<1> DEFINE u == v \o w
<1> HIDE DEF u
<1>2. ASSUME NEW k \in 1 .. Len(v) PROVE k \in 1 .. Len(u) /\ u[k] = v[k]
  BY <1>1 DEF u
<1>3. ASSUME NEW k \in 1 .. Len(w) PROVE k + Len(v) \in 1 .. Len(u) /\ u[k + Len(v)] = w[k]
  BY <1>1 DEF u
<1>4. PopLast(u)
  <2> SUFFICES ASSUME NEW k \in 1 .. Len(u), u[k].do = "pop" PROVE k = Len(u)
    BY DEF PopLast
  <2>1. CASE k <= Len(v)
    <3>1. k \in 1 .. Len(v)
      BY <1>1, <2>1
    <3>2. QED
      BY <1>2, <3>1, Zenon
  <2>2. CASE k > Len(v)
    <3>1. k - Len(v) \in 1 .. Len(w) /\ u[k] = w[k - Len(v)]
      BY <1>1, <2>2 DEF u
    <3>2. k - Len(v) = Len(w)
      BY <3>1, Zenon DEF PopLast
    <3>3. QED
      BY <1>1, <3>2 DEF u
  <2>3. QED
    BY <1>1, <2>1, <2>2
<1>5. ASSUME NEW do, NEW n, HasJob(v, do, n) \/ HasJob(w, do, n) PROVE HasJob(u, do, n)
  BY <1>2, <1>3, <1>5, Zenon DEF HasJob
<1>6. QED
  BY <1>1, <1>4, <1>5, Zenon DEF u

LEMMA EmptyQuiet ==
    /\ IsWork(<<>>) /\ PopLast(<<>>)
    /\ \A do, n : ~HasJob(<<>>, do, n)
<1>1. <<>> \in Seq({}) /\ Len(<<>>) = 0
  OBVIOUS
<1>2. QED
  BY <1>1 DEF IsWork, PopLast, HasJob

LEMMA FlushQuiet ==
    ASSUME NEW n
    PROVE  LET v == <<Job("flush", n)>> IN
           IsWork(v) /\ HasJob(v, "flush", n) /\ \A k \in 1 .. Len(v) : v[k].do # "pop"
<1> DEFINE v == <<Job("flush", n)>>
<1>1. v \in Seq({Job("flush", n)}) /\ Len(v) = 1 /\ v[1] = Job("flush", n)
  OBVIOUS
<1>2. Job("flush", n).do # "pop"
  BY DEF Job
<1> HIDE DEF v
<1>3. IsWork(v)
  BY <1>1, Zenon DEF IsWork
<1>4. HasJob(v, "flush", n) /\ \A k \in 1 .. Len(v) : v[k].do # "pop"
  BY <1>1, <1>2 DEF HasJob
<1>5. QED
  BY <1>3, <1>4, Zenon DEF v

\* The outboxes and the pauses stay as they are, and "rest" is left to do.
Still(rest) == UNCHANGED <<outbox, paused_nodes, paused_events>> /\ work' = rest

\* Only node n's outbox and pause may change.  If it has something to send and nothing
\* holds it back, it is flushed before the rest.
AtNode(n, rest) ==
    /\ DOMAIN outbox' = DOMAIN outbox /\ DOMAIN paused_events' = DOMAIN paused_events
    /\ \A m \in Node \ {n} : /\ outbox'[m] = outbox[m] /\ paused_events'[m] = paused_events[m]
                             /\ m \in paused_nodes' <=> m \in paused_nodes
    /\ n \in Node /\ paused_events'[n] # {} => n \in paused_nodes'
    /\ \/ work' = <<Job("flush", n)>> \o rest
       \/ /\ work' = rest
          /\ n \in Node => n \in paused_nodes' \/ outbox'[n] = <<>>

LEMMA CallNodeShape ==
    ASSUME QuietInv, NEW n, NEW rest, call_node(n, rest)
    PROVE  AtNode(n, rest)
<1>1. /\ DOMAIN outbox' = DOMAIN outbox /\ DOMAIN outbox = Node
      /\ \A m \in Node \ {n} : outbox'[m] = outbox[m]
  BY Zenon DEF call_node, Call, QuietInv
<1>2. UNCHANGED nodeVars /\ work' = <<Job("flush", n)>> \o rest
  BY Zenon DEF call_node
<1>3. QED
  BY <1>1, <1>2, Zenon DEF AtNode, nodeVars, QuietInv

LEMMA RestartShape ==
    ASSUME QuietInv, NEW n, NEW rest, restart_node(n, rest)
    PROVE  AtNode(n, rest)
<1>1. /\ outbox' = [outbox EXCEPT ![n] = <<>>] /\ DOMAIN outbox = Node
      /\ paused_events' = [paused_events EXCEPT ![n] = {}] /\ DOMAIN paused_events = Node
      /\ paused_nodes' = paused_nodes \ {n} /\ work' = rest
  BY Zenon DEF restart_node, QuietInv
<1>2. QED
  BY <1>1, Zenon DEF AtNode

LEMMA ResumeShape ==
    ASSUME QuietInv, NEW n, NEW rest, resume_node(n, rest)
    PROVE  AtNode(n, rest)
<1>1. /\ paused_events' = [paused_events EXCEPT ![n] = {}] /\ DOMAIN paused_events = Node
      /\ paused_nodes' = paused_nodes \ {n} /\ outbox' = outbox
      /\ work' = <<Job("flush", n)>> \o rest
  BY Zenon DEF resume_node, QuietInv
<1>2. QED
  BY <1>1, Zenon DEF AtNode

LEMMA FaultShape ==
    ASSUME QuietInv, NEW f, NEW rest, apply_fault(f, rest)
    PROVE  Still(rest) \/ \E n : AtNode(n, rest)
<1>1. ASSUME NEW n, disable_node(n, rest) PROVE AtNode(n, rest)
  <2>1. /\ outbox' = [outbox EXCEPT ![n] = <<>>] /\ DOMAIN outbox = Node
        /\ UNCHANGED <<paused_nodes, paused_events>> /\ work' = rest
    BY <1>1, Zenon DEF disable_node, QuietInv
  <2>2. QED
    BY <2>1, Zenon DEF AtNode, QuietInv
<1>2. ASSUME NEW n, pause_node(n, rest) PROVE AtNode(n, rest)
  <2>1. paused_nodes' = paused_nodes \cup {n} /\ UNCHANGED <<outbox, paused_events>> /\ work' = rest
    BY <1>2, Zenon DEF pause_node
  <2>2. QED
    BY <2>1, Zenon DEF AtNode, QuietInv
<1>3. ASSUME NEW links, block(links, rest) \/ unblock(links, rest) PROVE Still(rest)
  BY <1>3, Zenon DEF block, unblock, nodeVars, Still
<1>4. ASSUME NEW l, NEW count, NEW delay,
             drop_packets(l, count, rest) \/ delay_link(l, delay, rest)
                \/ duplicate_packets(l, count, delay, rest)
      PROVE  Still(rest)
  BY <1>4, Zenon DEF drop_packets, delay_link, duplicate_packets, nodeVars, Still
<1>5. ASSUME NEW n, start_election(n, rest) PROVE Still(rest) \/ AtNode(n, rest)
  BY <1>5, CallNodeShape, Zenon DEF start_election, nodeVars, Still
<1>6. \/ \E n : \/ disable_node(n, rest) \/ restart_node(n, rest) \/ pause_node(n, rest)
                \/ resume_node(n, rest) \/ start_election(n, rest) \/ call_node(n, rest)
      \/ \E links : block(links, rest) \/ unblock(links, rest)
      \/ \E l, count, delay : drop_packets(l, count, rest) \/ delay_link(l, delay, rest)
                                 \/ duplicate_packets(l, count, delay, rest)
  BY Zenon DEF apply_fault
<1>7. QED
  BY <1>1, <1>2, <1>3, <1>4, <1>5, <1>6, CallNodeShape, RestartShape, ResumeShape, Zenon

\* A step of one of the shapes keeps the invariant while the caller stays the same or is
\* not run_until_idle.
LEMMA ShapeQuiet ==
    ASSUME QuietInv, NEW rest, Still(rest) \/ \E n : AtNode(n, rest), IsWork(rest), PopLast(rest),
           pc' \notin {"idle", "converged"}, Running' => WillFlush(rest)
    PROVE  QuietInv'
<1>1. CASE Still(rest)
  <2>1. /\ UNCHANGED <<outbox, paused_nodes, paused_events>> /\ work' = rest
    BY <1>1, Zenon DEF Still
  <2>2. Running' => WillFlush(work)'
    BY <2>1, Zenon DEF WillFlush
  <2>3. QED
    BY <2>1, <2>2, Zenon DEF QuietInv
<1>2. ASSUME NEW n, AtNode(n, rest) PROVE QuietInv'
  <2>1. /\ IsWork(work') /\ PopLast(work')
        /\ \A m : HasJob(rest, "flush", m) => HasJob(work', "flush", m)
        /\ n \in Node \ paused_nodes' /\ outbox'[n] # <<>> => HasJob(work', "flush", n)
    <3>1. CASE work' = <<Job("flush", n)>> \o rest
      <4> DEFINE v == <<Job("flush", n)>>
      <4>1. IsWork(v) /\ HasJob(v, "flush", n) /\ \A k \in 1 .. Len(v) : v[k].do # "pop"
        BY FlushQuiet, Zenon
      <4> HIDE DEF v
      <4>2. work' = v \o rest
        BY <3>1, Zenon DEF v
      <4>3. QED
        BY <4>1, <4>2, ConcatQuiet, Zenon
    <3>2. CASE work' = rest /\ (n \in Node => n \in paused_nodes' \/ outbox'[n] = <<>>)
      BY <3>2, Zenon
    <3>3. QED
      BY <1>2, <3>1, <3>2, Zenon DEF AtNode
  <2>2. DOMAIN outbox' = Node /\ DOMAIN paused_events' = Node
    BY <1>2, Zenon DEF AtNode, QuietInv
  <2>3. \A m \in Node : paused_events'[m] # {} => m \in paused_nodes'
    BY <1>2, Zenon DEF AtNode, QuietInv
  <2>4. ASSUME Running', NEW m \in Node \ paused_nodes', outbox'[m] # <<>>
        PROVE  HasJob(work', "flush", m)
    <3>1. CASE m = n
      BY <2>1, <2>4, <3>1, Zenon
    <3>2. CASE m # n
      <4>1. m \in Node \ paused_nodes /\ outbox[m] # <<>>
        BY <1>2, <2>4, <3>2, Zenon DEF AtNode
      <4>2. QED
        BY <2>1, <2>4, <4>1, Zenon DEF WillFlush
    <3>3. QED
      BY <3>1, <3>2, Zenon
  <2>5. Running' => WillFlush(work)'
    BY <2>4, Zenon DEF WillFlush
  <2>6. QED
    BY <2>1, <2>2, <2>3, <2>5, Zenon DEF QuietInv
<1>3. QED
  BY <1>1, <1>2, Zenon

LEMMA DeliverNextQuiet == IsWork(DeliverNext) /\ PopLast(DeliverNext)
<1>1. DeliverNext \in Seq({[do |-> "faults"], [do |-> "pop"]}) /\ Len(DeliverNext) = 2
  BY DEF DeliverNext
<1>2. DeliverNext[1].do = "faults"
  BY DEF DeliverNext
<1>3. IsWork(DeliverNext)
  BY <1>1, Zenon DEF IsWork
<1>4. PopLast(DeliverNext)
  BY <1>1, <1>2 DEF PopLast
<1>5. QED
  BY <1>3, <1>4, Zenon

LEMMA AllNodesQuiet ==
    ASSUME NEW do, do # "pop"
    PROVE  /\ IsWork(ForAllNodes(do)) /\ PopLast(ForAllNodes(do))
           /\ \A k \in 1 .. Len(ForAllNodes(do)) : ForAllNodes(do)[k].do # "pop"
           /\ \A n \in Node : HasJob(ForAllNodes(do), do, n)
<1> DEFINE w == ForAllNodes(do)
<1>1. IsWork(w) /\ Len(w) = N /\ \A k \in 1 .. N : w[k].do = do
  BY AllNodesWork, Zenon
<1>2. \A n \in Node : w[n] = Job(do, n)
  BY Zenon DEF ForAllNodes
<1> HIDE DEF w
<1>3. \A k \in 1 .. Len(w) : w[k].do # "pop"
  BY <1>1, Zenon
<1>4. PopLast(w)
  BY <1>3, Zenon DEF PopLast
<1>5. \A n \in Node : HasJob(w, do, n)
  BY <1>1, <1>2, Zenon DEF HasJob, Node
<1>6. QED
  BY <1>1, <1>3, <1>4, <1>5, Zenon DEF w

\* The clock moves: a round of faults and a tick of each node come first.
LEMMA AdvanceQuiet ==
    ASSUME NEW time, NEW rest, IsWork(rest), PopLast(rest), advance_to(time, rest)
    PROVE  /\ IsWork(work') /\ PopLast(work')
           /\ \A do, n : HasJob(rest, do, n) => HasJob(work', do, n)
<1> DEFINE round == <<[do |-> "faults"]>>
           ticks == ForAllNodes("tick")
<1>1. round \in Seq({[do |-> "faults"]}) /\ Len(round) = 1 /\ round[1].do = "faults"
  OBVIOUS
<1>2. work' = (round \o ticks) \o rest
  BY Zenon DEF advance_to
<1>3. "tick" # "pop" /\ "faults" # "pop"
  OBVIOUS
<1>4. /\ IsWork(ticks) /\ Len(ticks) = N /\ N \in Nat
      /\ \A k \in 1 .. N : ticks[k].do = "tick"
  BY AllNodesWork, BoundType, Zenon
<1> HIDE DEF round, ticks
<1>5. IsWork(round)
  BY <1>1, Zenon DEF IsWork
<1>6. /\ IsWork(round \o ticks) /\ Len(round \o ticks) = 1 + N
      /\ \A k \in 1 .. 1 + N : (round \o ticks)[k] = IF k <= 1 THEN round[k] ELSE ticks[k - 1]
  <2>1. /\ IsWork(round \o ticks) /\ Len(round \o ticks) = Len(round) + Len(ticks)
        /\ \A k \in 1 .. Len(round) + Len(ticks) :
              (round \o ticks)[k] = IF k <= Len(round) THEN round[k] ELSE ticks[k - Len(round)]
    BY <1>4, <1>5, ConcatWork, Zenon
  <2>2. QED
    BY <1>1, <1>4, <2>1
<1>7. ASSUME NEW k \in 1 .. 1 + N PROVE (round \o ticks)[k].do # "pop"
  <2>1. CASE k = 1
    BY <1>1, <1>3, <1>4, <1>6, <2>1
  <2>2. CASE k # 1
    <3>1. k - 1 \in 1 .. N /\ ~(k <= 1)
      BY <1>4, <2>2
    <3>2. (round \o ticks)[k] = ticks[k - 1]
      BY <1>6, <3>1, Zenon
    <3>3. QED
      BY <1>3, <1>4, <3>1, <3>2, Zenon
  <2>3. QED
    BY <2>1, <2>2, Zenon
<1>8. QED
  BY <1>2, <1>6, <1>7, ConcatQuiet, Zenon

\* The first piece of work, which is no flush, is replaced by the shapes above.
LEMMA WorkQuiet ==
    ASSUME QuietInv, work # <<>>, Head(work).do # "flush", UNCHANGED pc,
           Still(Tail(work)) \/ \E n : AtNode(n, Tail(work))
    PROVE  QuietInv'
<1>1. \A n : Head(work) # Job("flush", n)
  BY DEF Job
<1>2. /\ IsWork(Tail(work)) /\ PopLast(Tail(work))
      /\ \A n : HasJob(work, "flush", n) => HasJob(Tail(work), "flush", n)
  BY <1>1, TailQuiet, Zenon DEF QuietInv
<1>3. Running' => WillFlush(Tail(work))
  BY <1>2, Zenon DEF QuietInv, Running, WillFlush
<1>4. pc' \notin {"idle", "converged"}
  BY Zenon DEF QuietInv
<1>5. QED
  BY <1>2, <1>3, <1>4, ShapeQuiet, Zenon

LEMMA FlushKeepsQuiet == QuietInv /\ FlushNodeOutbox => QuietInv'
<1> SUFFICES ASSUME QuietInv, FlushNodeOutbox PROVE QuietInv'
  OBVIOUS
<1> DEFINE n == Head(work).node
<1>1. work # <<>> /\ Head(work).do = "flush" /\ UNCHANGED <<pc, paused_nodes, paused_events>>
  BY Zenon DEF FlushNodeOutbox, Doing, nodeVars
<1>2. pc' \notin {"idle", "converged"}
  BY <1>1, Zenon DEF QuietInv
<1>3. /\ DOMAIN outbox' = Node
      /\ \A m \in Node \ {n} : outbox'[m] = outbox[m]
      /\ \/ work' = work /\ outbox[n] # <<>>
         \/ work' = Tail(work) /\ (n \in paused_nodes \/ (n \in Node => outbox'[n] = <<>>))
  BY Zenon DEF FlushNodeOutbox, QuietInv
<1> HIDE DEF n
<1>4. /\ IsWork(Tail(work)) /\ PopLast(Tail(work))
      /\ \A m : HasJob(work, "flush", m) /\ Head(work) # Job("flush", m) => HasJob(Tail(work), "flush", m)
  BY <1>1, TailQuiet, Zenon DEF QuietInv
<1>5. \A m : Head(work) = Job("flush", m) => m = n
  BY DEF Job, n
<1>6. ASSUME Running', NEW m \in Node \ paused_nodes', outbox'[m] # <<>>
      PROVE  HasJob(work', "flush", m)
  <2>1. Running /\ m \in Node \ paused_nodes
    BY <1>1, <1>6, Zenon DEF Running
  <2>2. CASE m # n
    <3>1. HasJob(work, "flush", m)
      BY <1>3, <1>6, <2>1, <2>2, Zenon DEF QuietInv, WillFlush
    <3>2. QED
      BY <1>3, <1>4, <1>5, <2>2, <3>1, Zenon
  <2>3. CASE m = n
    <3>1. work' = work /\ outbox[m] # <<>>
      BY <1>3, <1>6, <2>1, <2>3, Zenon
    <3>2. QED
      BY <2>1, <3>1, Zenon DEF QuietInv, WillFlush
  <2>4. QED
    BY <2>2, <2>3, Zenon
<1>7. Running' => WillFlush(work)'
  BY <1>6, Zenon DEF WillFlush
<1>8. IsWork(work') /\ PopLast(work')
  BY <1>3, <1>4, Zenon DEF QuietInv
<1>9. QED
  BY <1>1, <1>2, <1>3, <1>7, <1>8, Zenon DEF QuietInv

\* deliver_next takes an event, moves on to the next fault or returns false.
LEMMA PopKeepsQuiet == QuietInv /\ Pop => QuietInv'
<1> SUFFICES ASSUME QuietInv, Pop PROVE QuietInv'
  OBVIOUS
<1>1. /\ work # <<>> /\ Head(work).do = "pop"
      /\ UNCHANGED <<outbox, paused_nodes, paused_events, scheduled_faults>>
  BY Zenon DEF Pop, Doing, nodeVars, faultVars
<1>2. /\ IsWork(Tail(work)) /\ PopLast(Tail(work)) /\ Tail(work) = <<>>
      /\ \A n : HasJob(work, "flush", n) => HasJob(Tail(work), "flush", n)
  <2>1. \A n : Head(work) # Job("flush", n)
    BY <1>1 DEF Job
  <2>2. QED
    BY <1>1, <2>1, TailQuiet, Zenon DEF QuietInv
<1>3. pc \notin {"idle", "converged"}
  BY <1>1, Zenon DEF QuietInv
<1>4. Running => WillFlush(Tail(work))
  BY <1>2, Zenon DEF QuietInv, WillFlush
<1>5. ASSUME UNCHANGED pc, IsWork(work'), PopLast(work'),
             \A n : HasJob(Tail(work), "flush", n) => HasJob(work', "flush", n)
      PROVE  QuietInv'
  <2>1. Running' => WillFlush(work)'
    BY <1>1, <1>4, <1>5, Zenon DEF Running, WillFlush
  <2>2. QED
    BY <1>1, <1>3, <1>5, <2>1, Zenon DEF QuietInv
<1>6. CASE PopEvent
  <2> DEFINE x == [do |-> "faults"]
             y == [do |-> "deliver", event |-> FirstEvent]
             v == <<x, y>>
  <2>1. x.do # "pop" /\ y.do # "pop"
    OBVIOUS
  <2>2. work' = v \o Tail(work) /\ UNCHANGED pc
    BY <1>6, Zenon DEF PopEvent
  <2> HIDE DEF x, y
  <2>3. v \in Seq({x, y}) /\ Len(v) = 2 /\ v[1] = x /\ v[2] = y
    OBVIOUS
  <2> HIDE DEF v
  <2>4. IsWork(v)
    BY <2>3, Zenon DEF IsWork
  <2>5. \A k \in 1 .. Len(v) : v[k].do # "pop"
    BY <2>1, <2>3
  <2>6. QED
    BY <1>2, <1>5, <2>2, <2>4, <2>5, ConcatQuiet, Zenon
<1>7. CASE PopNothing
  <2>1. CASE advance_to(NextFault.trigger_at, Tail(work)) /\ UNCHANGED pc
    BY <1>2, <1>5, <2>1, AdvanceQuiet, Zenon
  <2>2. CASE /\ events = {} /\ UNCHANGED events /\ scheduled_faults = {} /\ pc' = Returned
             /\ work' = Tail(work)
    <3>1. Running' => Running
      BY <1>3, <2>2 DEF Returned, Running
    <3>2. Running' => WillFlush(work)'
      BY <1>1, <1>4, <2>2, <3>1, Zenon DEF WillFlush
    <3>3. QED
      BY <1>1, <1>2, <2>2, <3>2, Zenon DEF QuietInv
  <2>3. QED
    BY <1>7, <2>1, <2>2, Zenon DEF PopNothing
<1>8. QED
  BY <1>6, <1>7, Zenon DEF Pop

\* A test's own call: the caller is not run_until_idle any more.
LEMMA ScriptQuiet ==
    ASSUME QuietInv, UNCHANGED <<paused_nodes, paused_events>>, IsWork(work'), PopLast(work'),
           DOMAIN outbox' = Node, pc' \in {"script", "chaos", "inject", "move"}
    PROVE  QuietInv'
<1>1. ~Running' /\ pc' \notin {"idle", "converged"}
  BY DEF Running
<1>2. QED
  BY <1>1, Zenon DEF QuietInv

LEMMA QuietStep == QuietInv /\ [Next]_vars => QuietInv'
<1> SUFFICES ASSUME QuietInv, [Next]_vars PROVE QuietInv'
  OBVIOUS
<1>e. IsWork(<<>>) /\ PopLast(<<>>)
  BY EmptyQuiet, Zenon
<1>1. CASE FlushNodeOutbox
  BY <1>1, FlushKeepsQuiet
<1>2. CASE TriggerDueFaults
  <2>1. work # <<>> /\ Head(work).do = "faults" /\ UNCHANGED pc
    BY <1>2, Zenon DEF TriggerDueFaults, Doing
  <2>2. pc' \notin {"idle", "converged"} /\ IsWork(work) /\ PopLast(work)
    BY <2>1, Zenon DEF QuietInv
  <2>3. CASE apply_fault(NextFault.fault, work)
    <3>1. Still(work) \/ \E n : AtNode(n, work)
      BY <2>3, FaultShape, Zenon
    <3>2. Running' => WillFlush(work)
      BY <2>1, Zenon DEF QuietInv, Running
    <3>3. QED
      BY <2>2, <3>1, <3>2, ShapeQuiet, Zenon
  <2>4. CASE work' = Tail(work) /\ UNCHANGED <<outbox, nodeVars>>
    <3>1. Still(Tail(work))
      BY <2>4, Zenon DEF Still, nodeVars
    <3>2. Head(work).do # "flush"
      BY <2>1
    <3>3. QED
      BY <2>1, <3>1, <3>2, WorkQuiet, Zenon
  <2>5. QED
    BY <1>2, <2>3, <2>4, Zenon DEF TriggerDueFaults
<1>3. CASE Tick
  <2>1. work # <<>> /\ Head(work).do = "tick" /\ UNCHANGED pc
    BY <1>3, Zenon DEF Tick, Doing
  <2>2. Head(work).do # "flush"
    BY <2>1
  <2>3. Still(Tail(work)) \/ \E n : AtNode(n, Tail(work))
    BY <1>3, CallNodeShape, Zenon DEF Tick, start_election, Still, nodeVars
  <2>4. QED
    BY <2>1, <2>2, <2>3, WorkQuiet, Zenon
<1>4. CASE Pop
  BY <1>4, PopKeepsQuiet
<1>5. CASE Deliver
  <2>1. work # <<>> /\ Head(work).do = "deliver" /\ UNCHANGED pc
    BY <1>5, Zenon DEF Deliver, Doing
  <2>2. Head(work).do # "flush"
    BY <2>1
  <2>3. ASSUME NEW n, call_node(n, Tail(work)) PROVE AtNode(n, Tail(work))
    BY <2>3, CallNodeShape, Zenon
  <2>4. ASSUME NEW n \in paused_nodes, NEW es, work' = Tail(work),
               paused_events' = [paused_events EXCEPT ![n] = es], UNCHANGED <<outbox, paused_nodes>>
        PROVE  AtNode(n, Tail(work))
    BY <2>4, Zenon DEF AtNode, QuietInv
  <2>5. Still(Tail(work)) \/ \E n : AtNode(n, Tail(work))
    BY <1>5, <2>3, <2>4, Zenon DEF Deliver, Defer, Still, nodeVars
  <2>6. QED
    BY <2>1, <2>2, <2>5, WorkQuiet, Zenon
<1>6. CASE Up
  <2>1. work # <<>> /\ Head(work).do = "up" /\ UNCHANGED pc
    BY <1>6, Zenon DEF Up, Doing
  <2>2. Head(work).do # "flush"
    BY <2>1
  <2>3. Still(Tail(work)) \/ \E n : AtNode(n, Tail(work))
    BY <1>6, RestartShape, ResumeShape, Zenon DEF Up, BringUp, Still, nodeVars
  <2>4. QED
    BY <2>1, <2>2, <2>3, WorkQuiet, Zenon
<1>7. ASSUME NEW f, apply_fault(f, <<>>), pc' \in {"script", "move"} PROVE QuietInv'
  <2>1. pc' \notin {"idle", "converged"} /\ ~Running'
    BY <1>7 DEF Running
  <2>2. Still(<<>>) \/ \E n : AtNode(n, <<>>)
    BY <1>7, FaultShape, Zenon
  <2>3. QED
    BY <1>e, <2>1, <2>2, ShapeQuiet, Zenon
<1>8. ASSUME NEW f, ApplyFault(f) PROVE QuietInv'
  BY <1>7, <1>8, Zenon DEF ApplyFault
<1>9. ASSUME NEW f, NEW delay, ScheduleFault(delay, f) PROVE QuietInv'
  BY <1>9, ScriptQuiet, Zenon DEF ScheduleFault, nodeVars, QuietInv
<1>10. ASSUME NEW millis, advance_to(now + millis, <<>>), UNCHANGED <<outbox, nodeVars>>,
              pc' \in {"script", "chaos"}
       PROVE  QuietInv'
  <2>1. IsWork(work') /\ PopLast(work')
    BY <1>e, <1>10, AdvanceQuiet, Zenon
  <2>2. QED
    BY <1>10, <2>1, ScriptQuiet, Zenon DEF nodeVars, QuietInv
<1>11. ASSUME work' = DeliverNext, UNCHANGED <<outbox, nodeVars>>, pc' \in {"script", "chaos"}
       PROVE  QuietInv'
  BY <1>11, DeliverNextQuiet, ScriptQuiet, Zenon DEF nodeVars, QuietInv
<1>12. CASE Step
  BY <1>11, <1>12, Zenon DEF Step
<1>13. CASE FlushAllOutboxes
  <2>1. "flush" # "pop"
    OBVIOUS
  <2>2. QED
    BY <1>13, <2>1, AllNodesQuiet, ScriptQuiet, Zenon DEF FlushAllOutboxes, nodeVars, QuietInv
<1>14. ASSUME NEW n, CallNode(n) PROVE QuietInv'
  <2>1. DOMAIN outbox' = Node
    BY <1>14, Zenon DEF CallNode, Call, QuietInv
  <2>2. QED
    BY <1>14, <2>1, ScriptQuiet, Zenon DEF CallNode, nodeVars, QuietInv
<1>15. ASSUME NEW n, EnableNode(n) PROVE QuietInv'
  BY <1>15, ScriptQuiet, Zenon DEF EnableNode, QuietInv
<1>16. ASSUME NEW n, ChaosSubmit(n) PROVE QuietInv'
  <2>1. AtNode(n, <<>>) /\ pc' = "inject"
    BY <1>16, CallNodeShape, Zenon DEF ChaosSubmit
  <2>2. pc' \notin {"idle", "converged"} /\ ~Running'
    BY <2>1 DEF Running
  <2>3. QED
    BY <1>e, <2>1, <2>2, ShapeQuiet, Zenon
<1>17. CASE RunUntilIdle
  <2>1. /\ work' = ForAllNodes("flush") /\ pc' = "run"
        /\ UNCHANGED <<outbox, paused_nodes, paused_events>>
    BY <1>17, Zenon DEF RunUntilIdle, nodeVars
  <2>2. pc' \notin {"idle", "converged"} /\ "flush" # "pop"
    BY <2>1
  <2>3. IsWork(work') /\ PopLast(work') /\ \A n \in Node : HasJob(work', "flush", n)
    BY <2>1, <2>2, AllNodesQuiet, Zenon
  <2>4. WillFlush(work)'
    BY <2>3, Zenon DEF WillFlush
  <2>5. QED
    BY <2>1, <2>2, <2>3, <2>4, Zenon DEF QuietInv
<1>18. CASE RunLoop
  <2>1. /\ work = <<>> /\ work' = DeliverNext /\ pc \in {"run", "converging"} /\ UNCHANGED pc
        /\ UNCHANGED <<outbox, paused_nodes, paused_events>>
    BY <1>18, Zenon DEF RunLoop, nodeVars
  <2>2. pc' \notin {"idle", "converged"} /\ Running
    BY <2>1 DEF Running
  <2>3. \A n \in Node \ paused_nodes : outbox[n] = <<>>
    BY <2>1, <2>2, EmptyQuiet, Zenon DEF QuietInv, WillFlush
  <2>4. WillFlush(work)'
    BY <2>1, <2>3, Zenon DEF WillFlush
  <2>5. QED
    BY <2>1, <2>2, <2>4, DeliverNextQuiet, Zenon DEF QuietInv
<1>19. CASE RunChaosTest
  BY <1>19, ScriptQuiet, Zenon DEF RunChaosTest, nodeVars, QuietInv
<1>20. CASE ChaosInject
  <2>1. CASE UNCHANGED <<outbox, nodeVars, work>> /\ pc' = "move"
    BY <2>1, ScriptQuiet, Zenon DEF nodeVars, QuietInv
  <2>2. QED
    BY <1>7, <1>20, <2>1, Zenon DEF ChaosInject
<1>21. CASE ChaosMove
  BY <1>10, <1>11, <1>21, Zenon DEF ChaosMove
<1>22. CASE Converge
  <2> DEFINE u == ForAllNodes("up")
             w == ForAllNodes("flush")
  <2>1. /\ work' = u \o w /\ pc' = "converging"
        /\ UNCHANGED <<outbox, paused_nodes, paused_events>>
    BY <1>22, Zenon DEF Converge, unblock, nodeVars
  <2>2. pc' \notin {"idle", "converged"} /\ "flush" # "pop" /\ "up" # "pop"
    BY <2>1
  <2>3. /\ IsWork(u) /\ \A k \in 1 .. Len(u) : u[k].do # "pop"
        /\ IsWork(w) /\ PopLast(w) /\ \A n \in Node : HasJob(w, "flush", n)
    BY <2>2, AllNodesQuiet, Zenon
  <2> HIDE DEF u, w
  <2>4. IsWork(work') /\ PopLast(work') /\ \A n \in Node : HasJob(work', "flush", n)
    BY <2>1, <2>3, ConcatQuiet, Zenon
  <2>5. WillFlush(work)'
    BY <2>4, Zenon DEF WillFlush
  <2>6. QED
    BY <2>1, <2>2, <2>4, <2>5, Zenon DEF QuietInv
<1>23. CASE UNCHANGED vars
  <2>1. UNCHANGED <<work, outbox, paused_nodes, paused_events, pc, events, scheduled_faults>>
    BY <1>23, Zenon DEF vars, queueVars, nodeVars, faultVars
  <2>2. Running' = Running /\ WillFlush(work)' = WillFlush(work)
    BY <2>1, Zenon DEF Running, WillFlush
  <2>3. QED
    BY <2>1, <2>2, Zenon DEF QuietInv
<1>24. QED
  BY <1>1, <1>2, <1>3, <1>4, <1>5, <1>6, <1>8, <1>9, <1>12, <1>13, <1>14, <1>15, <1>16, <1>17,
     <1>18, <1>19, <1>20, <1>21, <1>22, <1>23, <1>10, Zenon DEF Next, Work, AdvanceTime

LEMMA QuietInit == Init => QuietInv
<1> SUFFICES ASSUME Init PROVE QuietInv
  OBVIOUS
<1>1. work = <<>> /\ pc = "script"
  BY Zenon DEF Init
<1>2. ~Running /\ pc \notin {"idle", "converged"}
  BY <1>1 DEF Running
<1>3. \A n \in Node : paused_events[n] = {}
  BY Zenon DEF Init
<1>4. QED
  BY <1>1, <1>2, <1>3, EmptyQuiet, Zenon DEF Init, QuietInv

\* When run_until_idle returns, also at the end of a chaos test, nothing is queued or
\* scheduled, and only paused nodes have messages to send or to receive; whatever the
\* faults did to outboxes, pauses and the queue on the way.
THEOREM IdleAlwaysQuiet == Spec => []IdleIsQuiet
<1>1. QuietInv => IdleIsQuiet
  <2> SUFFICES ASSUME QuietInv, pc \in {"idle", "converged"}, work = <<>>
               PROVE  /\ events = {} /\ scheduled_faults = {}
                      /\ \A n \in Node \ paused_nodes : outbox[n] = <<>> /\ paused_events[n] = {}
    BY Zenon DEF IdleIsQuiet
  <2>1. Running
    BY DEF Running
  <2>2. \A n \in Node \ paused_nodes : outbox[n] = <<>>
    BY <2>1, EmptyQuiet, Zenon DEF QuietInv, WillFlush
  <2>3. QED
    BY <2>2, Zenon DEF QuietInv
<1>2. QED
  BY <1>1, QuietInit, QuietStep, PTL DEF Spec

-----------------------------------------------------------------------------
(* The end of a chaos test                                                 *)

Sound == disabled_nodes \subseteq Node /\ paused_nodes \subseteq Node /\ blocked_links \subseteq Link

\* A node that is down or paused will be brought up.
WillRise(w) == \A n \in disabled_nodes \cup paused_nodes : HasJob(w, "up", n)

Converging == pc \in {"converging", "converged"}

\* As long as nothing was scheduled, no fault comes between heal_all_partitions and the
\* end of the test.
ChaosInv ==
    /\ fault_sequence_counter \in Nat
    /\ fault_sequence_counter = 0 =>
          /\ scheduled_faults = {} /\ Sound
          /\ Converging => blocked_links = {} /\ WillRise(work)

\* The faults a test or the chaos test may apply
Nameable(f) ==
    /\ f.kind \in {"Crash", "Restart", "Pause", "Resume"} => f.node \in Node
    /\ f.kind = "Block" => f.link \in Link

LEMMA FaultSound ==
    ASSUME Sound, NEW f, Nameable(f), NEW rest, apply_fault(f, rest)
    PROVE  Sound'
<1>1. ASSUME NEW n \in Node,
             disable_node(n, rest) \/ restart_node(n, rest) \/ pause_node(n, rest) \/ resume_node(n, rest)
      PROVE  Sound'
  BY <1>1, Zenon DEF Sound, disable_node, restart_node, pause_node, resume_node, linkVars
<1>2. ASSUME NEW links, links \subseteq Link, block(links, rest) PROVE Sound'
  BY <1>2, Zenon DEF Sound, block, nodeVars
<1>3. ASSUME NEW links, unblock(links, rest) PROVE Sound'
  BY <1>3, Zenon DEF Sound, unblock, nodeVars
<1>4. ASSUME NEW l, NEW count, NEW delay,
             drop_packets(l, count, rest) \/ delay_link(l, delay, rest)
                \/ duplicate_packets(l, count, delay, rest)
      PROVE  Sound'
  BY <1>4, Zenon DEF Sound, drop_packets, delay_link, duplicate_packets, nodeVars, linkVars
<1>5. ASSUME NEW n, start_election(n, rest) \/ call_node(n, rest) PROVE Sound'
  BY <1>5, Zenon DEF Sound, start_election, call_node, nodeVars, linkVars
<1>6. \A A, B : Between(A, B) \subseteq Link
  BY Zenon DEF Between
<1>7. \/ \E n \in Node : \/ disable_node(n, rest) \/ restart_node(n, rest)
                         \/ pause_node(n, rest) \/ resume_node(n, rest)
      \/ \E links : block(links, rest) /\ links \subseteq Link
      \/ \E links : unblock(links, rest)
      \/ \E l, count, delay : drop_packets(l, count, rest) \/ delay_link(l, delay, rest)
                                 \/ duplicate_packets(l, count, delay, rest)
      \/ \E n : start_election(n, rest) \/ call_node(n, rest)
  BY <1>6, Zenon DEF apply_fault, Nameable
<1>8. QED
  BY <1>1, <1>2, <1>3, <1>4, <1>5, <1>7, Zenon

LEMMA RandomNameable == Sound => \A f \in RandomFault : Nameable(f)
<1> SUFFICES ASSUME Sound, NEW f \in RandomFault PROVE Nameable(f)
  OBVIOUS
<1> DEFINE active == Node \ disabled_nodes
           Half   == {A \in SUBSET Node : Cardinality(A) = IF N < 4 THEN 1 ELSE N \div 2}
           Crash  == {[kind |-> "Crash", node |-> n] : n \in {k \in active : Cardinality(active) > 1}}
           Rise   == {[kind |-> "Restart", node |-> n] : n \in disabled_nodes}
           Split  == {[kind |-> "Partition", group_a |-> A, group_b |-> Node \ A] : A \in Half}
           Heal   == {[kind |-> "Heal"] : l \in blocked_links}
           Lose   == {[kind |-> "Drop", link |-> l, count |-> c] : l \in Link, c \in DropCounts}
           Slow   == {[kind |-> "Delay", link |-> l, delay |-> d] : l \in Link, d \in Delays \ {0}}
<1>1. f \in Crash \cup Rise \cup Split \cup Heal \cup Lose \cup Slow
  BY DEF RandomFault
<1> HIDE DEF Half
<1>2. CASE f \in Crash
  <2>1. PICK n \in Node : f = [kind |-> "Crash", node |-> n]
    BY <1>2, Zenon
  <2>2. QED
    BY <2>1 DEF Nameable
<1>3. CASE f \in Rise
  <2>1. PICK n \in Node : f = [kind |-> "Restart", node |-> n]
    BY <1>3, Zenon DEF Sound
  <2>2. QED
    BY <2>1 DEF Nameable
<1>4. CASE f \in Split \cup Heal \cup Lose \cup Slow
  <2>1. f.kind \in {"Partition", "Heal", "Drop", "Delay"}
    BY <1>4
  <2>2. QED
    BY <2>1 DEF Nameable
<1> HIDE DEF Crash, Rise, Split, Heal, Lose, Slow
<1>5. QED
  BY <1>1, <1>2, <1>3, <1>4, Zenon

\* A step that leaves the nodes and links alone and forgets no node to be brought up.
LEMMA ChaosSame ==
    ASSUME ChaosInv, UNCHANGED <<disabled_nodes, paused_nodes, blocked_links, fault_sequence_counter>>,
           scheduled_faults' \subseteq scheduled_faults, Converging' => Converging,
           Converging' => \A n : HasJob(work, "up", n) => HasJob(work', "up", n)
    PROVE  ChaosInv'
BY Zenon DEF ChaosInv, Sound, WillRise

\* The same, with other calls than those of the end of the test.
LEMMA ChaosElsewhere ==
    ASSUME ChaosInv, UNCHANGED fault_sequence_counter, scheduled_faults' \subseteq scheduled_faults,
           pc' \in {"script", "run", "chaos", "inject", "move"}, Sound => Sound'
    PROVE  ChaosInv'
<1>1. ~Converging'
  BY DEF Converging
<1>2. QED
  BY <1>1, Zenon DEF ChaosInv

\* The first piece of work, which brings no node up, is replaced.
LEMMA ChaosWork ==
    ASSUME QuietInv, ChaosInv, work # <<>>, Head(work).do # "up",
           UNCHANGED <<disabled_nodes, paused_nodes, blocked_links, fault_sequence_counter, pc,
                       scheduled_faults>>,
           work' = Tail(work) \/ \E n : work' = <<Job("flush", n)>> \o Tail(work)
    PROVE  ChaosInv'
<1>1. \A n : Head(work) # Job("up", n)
  BY DEF Job
<1>2. /\ IsWork(Tail(work)) /\ PopLast(Tail(work))
      /\ \A n : HasJob(work, "up", n) => HasJob(Tail(work), "up", n)
  BY <1>1, TailQuiet, Zenon DEF QuietInv
<1>3. ASSUME NEW m, work' = <<Job("flush", m)>> \o Tail(work)
      PROVE  \A n : HasJob(Tail(work), "up", n) => HasJob(work', "up", n)
  <2> DEFINE v == <<Job("flush", m)>>
  <2>1. IsWork(v) /\ \A k \in 1 .. Len(v) : v[k].do # "pop"
    BY FlushQuiet, Zenon
  <2> HIDE DEF v
  <2>2. work' = v \o Tail(work)
    BY <1>3, Zenon DEF v
  <2>3. QED
    BY <1>2, <2>1, <2>2, ConcatQuiet, Zenon
<1>4. \A n : HasJob(work, "up", n) => HasJob(work', "up", n)
  BY <1>2, <1>3, Zenon
<1>5. QED
  BY <1>4, ChaosSame, Zenon DEF Converging

\* A fault is applied before the end of the test, or where nothing is scheduled any more.
LEMMA FaultChaos ==
    ASSUME ChaosInv, NEW f, fault_sequence_counter = 0 => Nameable(f), NEW rest, apply_fault(f, rest),
           UNCHANGED <<scheduled_faults, fault_sequence_counter>>, pc' \in {"script", "move"}
    PROVE  ChaosInv'
<1>1. ~Converging'
  BY DEF Converging
<1>2. fault_sequence_counter = 0 => Sound'
  BY FaultSound, Zenon DEF ChaosInv
<1>3. QED
  BY <1>1, <1>2, Zenon DEF ChaosInv

\* Once something was scheduled, nothing is promised.
LEMMA ChaosScheduled ==
    ASSUME ChaosInv, fault_sequence_counter # 0, UNCHANGED fault_sequence_counter
    PROVE  ChaosInv'
BY Zenon DEF ChaosInv

LEMMA PopChaos == QuietInv /\ ChaosInv /\ Pop => ChaosInv'
<1> SUFFICES ASSUME QuietInv, ChaosInv, Pop PROVE ChaosInv'
  OBVIOUS
<1>1. /\ work # <<>> /\ Head(work).do = "pop"
      /\ UNCHANGED <<disabled_nodes, paused_nodes, blocked_links, scheduled_faults,
                     fault_sequence_counter>>
  BY Zenon DEF Pop, Doing, nodeVars, linkVars, faultVars
<1>2. /\ IsWork(Tail(work)) /\ PopLast(Tail(work))
      /\ \A n : HasJob(work, "up", n) => HasJob(Tail(work), "up", n)
  <2>1. \A n : Head(work) # Job("up", n)
    BY <1>1 DEF Job
  <2>2. QED
    BY <1>1, <2>1, TailQuiet, Zenon DEF QuietInv
<1>3. CASE PopEvent
  <2> DEFINE x == [do |-> "faults"]
             y == [do |-> "deliver", event |-> FirstEvent]
             v == <<x, y>>
  <2>1. x.do # "pop" /\ y.do # "pop"
    OBVIOUS
  <2>2. work' = v \o Tail(work) /\ UNCHANGED pc
    BY <1>3, Zenon DEF PopEvent
  <2> HIDE DEF x, y
  <2>3. v \in Seq({x, y}) /\ Len(v) = 2 /\ v[1] = x /\ v[2] = y
    OBVIOUS
  <2> HIDE DEF v
  <2>4. IsWork(v)
    BY <2>3, Zenon DEF IsWork
  <2>5. \A k \in 1 .. Len(v) : v[k].do # "pop"
    BY <2>1, <2>3
  <2>6. \A n : HasJob(work, "up", n) => HasJob(work', "up", n)
    BY <1>2, <2>2, <2>4, <2>5, ConcatQuiet, Zenon
  <2>7. QED
    BY <1>1, <2>2, <2>6, ChaosSame, Zenon DEF Converging
<1>4. CASE PopNothing
  <2>1. CASE scheduled_faults # {}
    <3>1. fault_sequence_counter # 0
      BY <2>1, Zenon DEF ChaosInv
    <3>2. QED
      BY <1>1, <3>1, ChaosScheduled, Zenon
  <2>2. CASE pc' = Returned /\ work' = Tail(work)
    <3>1. Converging' => Converging
      BY <2>2 DEF Returned, Converging
    <3>2. QED
      BY <1>1, <1>2, <2>2, <3>1, ChaosSame, Zenon
  <2>3. QED
    BY <1>4, <2>1, <2>2, Zenon DEF PopNothing
<1>5. QED
  BY <1>3, <1>4, Zenon DEF Pop

LEMMA UpChaos == QuietInv /\ ChaosInv /\ Up => ChaosInv'
<1> SUFFICES ASSUME QuietInv, ChaosInv, Up PROVE ChaosInv'
  OBVIOUS
<1> DEFINE m == Head(work).node
<1>1. /\ work # <<>> /\ Head(work).do = "up"
      /\ BringUp(m, Tail(work))
      /\ UNCHANGED <<pc, scheduled_faults, fault_sequence_counter>>
  BY Zenon DEF Up, Doing, faultVars
<1>2. \A n : n # m => Head(work) # Job("up", n)
  BY DEF Job
<1>3. \A n : HasJob(work, "up", n) /\ n # m => HasJob(Tail(work), "up", n)
  BY <1>1, <1>2, TailQuiet, Zenon DEF QuietInv
<1>4. disabled_nodes' \subseteq disabled_nodes /\ paused_nodes' \subseteq paused_nodes
      /\ m \notin disabled_nodes' \cup paused_nodes' /\ UNCHANGED blocked_links
  BY <1>1, Zenon DEF BringUp, restart_node, resume_node, nodeVars, linkVars
<1>5. CASE work' = Tail(work)
  <2>1. Sound => Sound'
    BY <1>4, Zenon DEF Sound
  <2>2. WillRise(work) => WillRise(work)'
    BY <1>3, <1>4, <1>5, Zenon DEF WillRise
  <2>3. QED
    BY <1>1, <1>4, <2>1, <2>2, Zenon DEF ChaosInv, Converging
<1>6. CASE work' = <<Job("flush", m)>> \o Tail(work)
  <2> DEFINE v == <<Job("flush", m)>>
  <2>1. IsWork(v) /\ \A k \in 1 .. Len(v) : v[k].do # "pop"
    BY FlushQuiet, Zenon
  <2>2. IsWork(Tail(work)) /\ PopLast(Tail(work))
    BY <1>1, TailQuiet, Zenon DEF QuietInv
  <2>3. \A n : HasJob(Tail(work), "up", n) => HasJob(work', "up", n)
    <3> HIDE DEF v
    <3>1. work' = v \o Tail(work)
      BY <1>6, Zenon DEF v
    <3>2. QED
      BY <2>1, <2>2, <3>1, ConcatQuiet, Zenon
  <2>4. Sound => Sound'
    BY <1>4, Zenon DEF Sound
  <2>5. WillRise(work) => WillRise(work)'
    BY <1>3, <1>4, <2>3, Zenon DEF WillRise
  <2>6. QED
    BY <1>1, <1>4, <2>4, <2>5, Zenon DEF ChaosInv, Converging
<1>7. QED
  BY <1>1, <1>5, <1>6, Zenon DEF BringUp, restart_node, resume_node

LEMMA ChaosStep == QuietInv /\ ChaosInv /\ [Next]_vars => ChaosInv'
<1> SUFFICES ASSUME QuietInv, ChaosInv, [Next]_vars PROVE ChaosInv'
  OBVIOUS
<1>1. CASE FlushNodeOutbox
  <2>1. /\ UNCHANGED <<disabled_nodes, paused_nodes, blocked_links, fault_sequence_counter, pc,
                       scheduled_faults>>
        /\ work # <<>> /\ Head(work).do = "flush" /\ (work' = Tail(work) \/ UNCHANGED work)
    BY <1>1, Zenon DEF FlushNodeOutbox, Doing, nodeVars, linkVars, faultVars
  <2>2. Head(work).do # "up"
    BY <2>1
  <2>3. CASE work' = Tail(work)
    BY <2>1, <2>2, <2>3, ChaosWork, Zenon
  <2>4. CASE UNCHANGED work
    BY <2>1, <2>4, ChaosSame, Zenon DEF Converging
  <2>5. QED
    BY <2>1, <2>3, <2>4, Zenon
<1>2. CASE TriggerDueFaults
  <2>1. work # <<>> /\ Head(work).do = "faults" /\ UNCHANGED <<pc, fault_sequence_counter>>
    BY <1>2, Zenon DEF TriggerDueFaults, Doing
  <2>2. CASE Due # {}
    <3>1. fault_sequence_counter # 0
      BY <2>2, Zenon DEF ChaosInv, Due
    <3>2. QED
      BY <2>1, <3>1, ChaosScheduled, Zenon
  <2>3. CASE work' = Tail(work) /\ UNCHANGED <<nodeVars, linkVars, scheduled_faults>>
    <3>1. Head(work).do # "up"
      BY <2>1
    <3>2. QED
      BY <2>1, <2>3, <3>1, ChaosWork, Zenon DEF nodeVars, linkVars
  <2>4. QED
    BY <1>2, <2>2, <2>3, Zenon DEF TriggerDueFaults
<1>3. CASE Tick
  <2>1. work # <<>> /\ Head(work).do = "tick" /\ UNCHANGED <<pc, faultVars>>
    BY <1>3, Zenon DEF Tick, Doing
  <2>2. Head(work).do # "up"
    BY <2>1
  <2>3. /\ UNCHANGED <<nodeVars, linkVars>>
        /\ work' = Tail(work) \/ \E n : work' = <<Job("flush", n)>> \o Tail(work)
    BY <1>3, Zenon DEF Tick, start_election, call_node
  <2>4. QED
    BY <2>1, <2>2, <2>3, ChaosWork, Zenon DEF nodeVars, linkVars, faultVars
<1>4. CASE Pop
  BY <1>4, PopChaos
<1>5. CASE Deliver
  <2>1. work # <<>> /\ Head(work).do = "deliver" /\ UNCHANGED <<pc, faultVars>>
    BY <1>5, Zenon DEF Deliver, Doing
  <2>2. Head(work).do # "up"
    BY <2>1
  <2>3. /\ UNCHANGED <<disabled_nodes, paused_nodes, linkVars>>
        /\ work' = Tail(work) \/ \E n : work' = <<Job("flush", n)>> \o Tail(work)
    BY <1>5, Zenon DEF Deliver, call_node, nodeVars
  <2>4. QED
    BY <2>1, <2>2, <2>3, ChaosWork, Zenon DEF linkVars, faultVars
<1>6. CASE Up
  BY <1>6, UpChaos
<1>7. ASSUME NEW f \in Fault, ApplyFault(f) PROVE ChaosInv'
  <2>1. Nameable(f)
    BY FaultType, Zenon DEF Nameable
  <2>2. /\ apply_fault(f, <<>>) /\ UNCHANGED <<scheduled_faults, fault_sequence_counter>>
        /\ pc' \in {"script", "move"}
    BY <1>7, Zenon DEF ApplyFault
  <2>3. QED
    BY <2>1, <2>2, FaultChaos, Zenon
<1>8. ASSUME NEW f, NEW delay, ScheduleFault(delay, f) PROVE ChaosInv'
  <2>1. fault_sequence_counter' = fault_sequence_counter + 1
    BY <1>8, Zenon DEF ScheduleFault
  <2>2. fault_sequence_counter' \in Nat /\ fault_sequence_counter' # 0
    BY <2>1 DEF ChaosInv
  <2>3. QED
    BY <2>2, Zenon DEF ChaosInv
<1>9. ASSUME UNCHANGED <<disabled_nodes, paused_nodes, linkVars, faultVars>>,
             pc' \in {"script", "run", "chaos", "inject", "move"}
      PROVE  ChaosInv'
  <2>1. Sound => Sound'
    BY <1>9, Zenon DEF Sound, linkVars
  <2>2. QED
    BY <1>9, <2>1, ChaosElsewhere, Zenon DEF faultVars
<1>10. ASSUME NEW millis, AdvanceTime(millis) PROVE ChaosInv'
  BY <1>9, <1>10, Zenon DEF AdvanceTime, nodeVars
<1>11. CASE Step
  BY <1>9, <1>11, Zenon DEF Step, nodeVars
<1>12. CASE FlushAllOutboxes
  BY <1>9, <1>12, Zenon DEF FlushAllOutboxes, nodeVars
<1>13. ASSUME NEW n, CallNode(n) PROVE ChaosInv'
  BY <1>9, <1>13, Zenon DEF CallNode, nodeVars
<1>14. ASSUME NEW n, EnableNode(n) PROVE ChaosInv'
  <2>1. Sound => Sound'
    BY <1>14, Zenon DEF EnableNode, Sound, linkVars
  <2>2. QED
    BY <1>14, <2>1, ChaosElsewhere, Zenon DEF EnableNode, faultVars
<1>15. ASSUME NEW n, ChaosSubmit(n) PROVE ChaosInv'
  BY <1>9, <1>15, Zenon DEF ChaosSubmit, call_node, nodeVars
<1>16. CASE RunUntilIdle
  BY <1>9, <1>16, Zenon DEF RunUntilIdle, nodeVars
<1>17. CASE RunLoop
  <2>1. /\ work = <<>>
        /\ UNCHANGED <<disabled_nodes, paused_nodes, blocked_links, scheduled_faults,
                       fault_sequence_counter, pc>>
    BY <1>17, Zenon DEF RunLoop, nodeVars, linkVars, faultVars
  <2>2. \A n : HasJob(work, "up", n) => HasJob(work', "up", n)
    BY <2>1, EmptyQuiet, Zenon
  <2>3. QED
    BY <2>1, <2>2, ChaosSame, Zenon DEF Converging
<1>18. CASE RunChaosTest
  BY <1>9, <1>18, Zenon DEF RunChaosTest, nodeVars
<1>19. CASE ChaosInject
  <2>1. ASSUME NEW f \in RandomFault, apply_fault(f, <<>>) PROVE ChaosInv'
    <3>1. fault_sequence_counter = 0 => Nameable(f)
      BY RandomNameable, Zenon DEF ChaosInv
    <3>2. UNCHANGED <<scheduled_faults, fault_sequence_counter>> /\ pc' \in {"script", "move"}
      BY <1>19, Zenon DEF ChaosInject
    <3>3. QED
      BY <2>1, <3>1, <3>2, FaultChaos, Zenon
  <2>2. CASE UNCHANGED <<nodeVars, linkVars, faults>>
    BY <1>9, <1>19, <2>2, Zenon DEF ChaosInject, nodeVars, faultVars
  <2>3. QED
    BY <1>19, <2>1, <2>2, Zenon DEF ChaosInject
<1>20. CASE ChaosMove
  BY <1>9, <1>20, Zenon DEF ChaosMove, nodeVars
<1>21. CASE Converge
  <2> DEFINE u == ForAllNodes("up")
             w == ForAllNodes("flush")
  <2>1. /\ work' = u \o w /\ blocked_links' = blocked_links \ Link
        /\ UNCHANGED <<disabled_nodes, paused_nodes, scheduled_faults, fault_sequence_counter>>
    BY <1>21, Zenon DEF Converge, unblock, nodeVars, faultVars
  <2>2. "flush" # "pop" /\ "up" # "pop"
    OBVIOUS
  <2>3. /\ IsWork(u) /\ \A k \in 1 .. Len(u) : u[k].do # "pop"
        /\ IsWork(w) /\ PopLast(w) /\ \A n \in Node : HasJob(u, "up", n)
    BY <2>2, AllNodesQuiet, Zenon
  <2> HIDE DEF u, w
  <2>4. \A n \in Node : HasJob(work', "up", n)
    BY <2>1, <2>3, ConcatQuiet, Zenon
  <2>5. Sound => Sound' /\ blocked_links' = {} /\ WillRise(work)'
    BY <2>1, <2>4, Zenon DEF Sound, WillRise
  <2>6. QED
    BY <2>1, <2>5, Zenon DEF ChaosInv
<1>22. CASE UNCHANGED vars
  <2>1. UNCHANGED <<disabled_nodes, paused_nodes, blocked_links, scheduled_faults,
                    fault_sequence_counter, pc, work>>
    BY <1>22, Zenon DEF vars, nodeVars, linkVars, faultVars
  <2>2. QED
    BY <2>1, ChaosSame, Zenon DEF Converging
<1>23. QED
  BY <1>1, <1>2, <1>3, <1>4, <1>5, <1>6, <1>7, <1>8, <1>10, <1>11, <1>12, <1>13, <1>14, <1>15,
     <1>16, <1>17, <1>18, <1>19, <1>20, <1>21, <1>22, Zenon DEF Next, Work

\* run_chaos_test ends with every node up, no link blocked and nothing on its way, whatever
\* the random faults did and whatever was paused, crashed or blocked before it began; unless
\* the test scheduled a fault.
THEOREM ChaosAlwaysConverges == Spec => []ChaosConverges
<1>1. Init => ChaosInv
  <2> SUFFICES ASSUME Init PROVE ChaosInv
    OBVIOUS
  <2>1. fault_sequence_counter = 0 /\ scheduled_faults = {} /\ pc = "script" /\ Sound
    BY Zenon DEF Init, Sound
  <2>2. fault_sequence_counter \in Nat /\ ~Converging
    BY <2>1 DEF Converging
  <2>3. QED
    BY <2>1, <2>2, Zenon DEF ChaosInv
<1>2. QuietInv /\ ChaosInv => ChaosConverges
  <2> SUFFICES ASSUME QuietInv, ChaosInv, pc = "converged", fault_sequence_counter = 0
               PROVE  /\ disabled_nodes = {} /\ paused_nodes = {} /\ blocked_links = {}
                      /\ \A n \in Node : outbox[n] = <<>> /\ paused_events[n] = {}
    BY Zenon DEF ChaosConverges
  <2>1. Converging /\ Running /\ pc \in {"idle", "converged"}
    BY DEF Converging, Running
  <2>2. work = <<>>
    BY <2>1, Zenon DEF QuietInv
  <2>3. disabled_nodes = {} /\ paused_nodes = {} /\ blocked_links = {}
    BY <2>1, <2>2, EmptyQuiet, Zenon DEF ChaosInv, WillRise
  <2>4. \A n \in Node : outbox[n] = <<>>
    BY <2>1, <2>2, <2>3, EmptyQuiet, Zenon DEF QuietInv, WillFlush
  <2>5. QED
    BY <2>3, <2>4, Zenon DEF QuietInv
<1>3. QED
  BY <1>1, <1>2, QuietInit, QuietStep, ChaosStep, PTL DEF Spec
=============================================================================
