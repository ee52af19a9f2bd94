----------------------------- MODULE ApiGateway -----------------------------
(***************************************************************************)
(* The Go gateway (api/main.go) in front of the cluster: its HTTP handlers *)
(* and executeRust, which takes a call from node to node; and on each node *)
(* the listener and the part of the Runtime loop that serves it.  The      *)
(* nodes are those of Raft.                                                *)
(*                                                                         *)
(* A call opens one connection to each node it asks.  It stops listening   *)
(* when the connection fails or its deadline passes, but what it has sent  *)
(* is still handled.                                                       *)
(***************************************************************************)
EXTENDS RaftMembership

CONSTANTS
    Call,       \* the HTTP requests
    Operation,  \* what each may ask for, as records with a kind: "read" (GET, STATUS),
                \* "write" (PUT, DELETE), "add" or "remove" with the id of a node, or
                \* "none" for a request that is never made
    Ids,        \* node ids in ascending order, as a sequence
    Unreliable  \* bound: the connections that may fail, as <<call, node>> pairs

ASSUME OperationType ==
    /\ \A c \in Call : \A o \in Operation[c] :
          o.kind \in {"none", "read", "write"} \/ o \in Reconfig
    /\ Ids \in Seq(Server) /\ {Ids[k] : k \in DOMAIN Ids} = Server
    /\ Request = Call \X Server
    /\ None \notin Call

VARIABLES
    registry,     \* rustNodes: the nodes the gateway knows
    membershipMu, \* the call that holds it, or None
    op,           \* op[c]: what the call asks for
    stage,        \* where its goroutine is
    untried,      \* executeRust: the nodes of the snapshot that are not in tried
    target,       \* the node that is asked; between two, the leader the last one named
    gotResponse,
    expired,      \* the context's deadline has passed
    status,       \* the HTTP status of the answer, or 0
    conn          \* conn[c][i]: what has become of call c's request to node i

callVars == <<registry, membershipMu, op, stage, untried, target, gotResponse, expired,
              status>>
gatewayVars == <<callVars, conn>>
allVars == <<vars, gatewayVars>>

\* at: "none", "sent" to the listener, "submitted" to Raft, or "answered"
Conn(at, ok, leader) == [at |-> at, success |-> ok, leader_id |-> leader]

GatewayInit ==
    /\ registry = Members
    /\ membershipMu = None
    /\ op \in {f \in [Call -> UNION {Operation[c] : c \in Call}] :
                 \A c \in Call : f[c] \in Operation[c]}
    /\ stage = [c \in Call |-> "new"]
    /\ untried = [c \in Call |-> {}]
    /\ target = [c \in Call |-> None]
    /\ gotResponse = [c \in Call |-> FALSE]
    /\ expired = [c \in Call |-> FALSE]
    /\ status = [c \in Call |-> 0]
    /\ conn = [c \in Call |-> [i \in Server |-> Conn("none", FALSE, None)]]

-----------------------------------------------------------------------------
(* The handlers and executeRust                                            *)

\* executeRust begins: a snapshot of the registry, nothing tried yet.
Begin(c) ==
    /\ stage' = [stage EXCEPT ![c] = "loop"]
    /\ untried' = [untried EXCEPT ![c] = registry]
    /\ UNCHANGED <<registry, op, target, gotResponse, expired, status, conn>>

\* The handler answers; one for a membership change gives the mutex back, and an OK
\* changes the registry first.
Finish(c, s) ==
    /\ stage' = [stage EXCEPT ![c] = "done"]
    /\ status' = [status EXCEPT ![c] = s]
    /\ membershipMu' = IF membershipMu = c THEN None ELSE membershipMu
    /\ registry' = (registry \cup {x \in Server : s = 200 /\ op[c] = [kind |-> "add", id |-> x]})
                             \ {x \in Server : s = 200 /\ op[c] = [kind |-> "remove", id |-> x]}

\* handleKV and handleStatus, once the body of a PUT has been read
HandleKV(c) ==
    /\ stage[c] = "new" /\ op[c].kind \in {"read", "write"}
    /\ Begin(c)
    /\ UNCHANGED <<vars, membershipMu>>

\* Mutant: the membership handlers do not exclude each other.
NoMutex == TRUE

\* membershipMu.Lock()
Unlocked == membershipMu = None

\* handleAddNode refuses a node that is registered, handleRemoveNode one that is not.
Refused(o) ==
    \/ o.kind = "add" /\ o.id \in registry
    \/ o.kind = "remove" /\ o.id \notin registry

\* The handler answers without calling executeRust.
Refuse(c, s) == Finish(c, s) /\ UNCHANGED <<op, untried, target, gotResponse, expired, conn>>

\* handleRemoveNode, up to executeRust: the id is in the URL.
HandleRemoveNode(c) ==
    /\ stage[c] = "new" /\ op[c].kind = "remove"
    /\ Unlocked
    /\ \/ Refused(op[c]) /\ Refuse(c, 404)
       \/ ~Refused(op[c]) /\ Begin(c) /\ membershipMu' = c
    /\ UNCHANGED vars

\* handleAddNode takes the mutex and goes on to read the body.
HandleAddNode(c) ==
    /\ stage[c] = "new" /\ op[c].kind = "add"
    /\ Unlocked
    /\ stage' = [stage EXCEPT ![c] = "body"]
    /\ membershipMu' = c
    /\ UNCHANGED <<vars, registry, op, untried, target, gotResponse, expired, status, conn>>

\* The rest of handleAddNode, up to executeRust.  The client has sent its body, or has
\* gone away or sent one that is not accepted; nothing makes it do either.
ReadBody(c) ==
    /\ stage[c] = "body"
    /\ \/ Refuse(c, 400)
       \/ Refused(op[c]) /\ Refuse(c, 409)
       \/ ~Refused(op[c]) /\ Begin(c) /\ UNCHANGED membershipMu
    /\ UNCHANGED vars

\* Mutant: a node that was asked before is asked again when it is named as the leader.
CandidatesHinted(c) == untried[c] \cup ({target[c]} \ {None})

\* The candidates that are not skipped as tried
Candidates(c) == untried[c]

\* The leader the last answer named, if it is a candidate, or else the lowest id (node 1
\* is put first, and ids are positive).
NextTarget(c) ==
    IF target[c] \in Candidates(c) THEN target[c]
    ELSE Ids[CHOOSE k \in DOMAIN Ids : /\ Ids[k] \in Candidates(c)
                                       /\ \A j \in 1 .. k - 1 : Ids[j] \notin Candidates(c)]

\* The network fails, or the process of node i is gone.
Fails(c, i) == <<c, i>> \in Unreliable \/ i \in panicked

\* callRust, up to the answer: the connection is made and the request sent, or not.
CallRust(c) ==
    LET i == NextTarget(c) IN
    /\ stage[c] = "loop" /\ ~expired[c] /\ Candidates(c) # {}
    /\ untried' = [untried EXCEPT ![c] = @ \ {i}]
    /\ \/ /\ stage' = [stage EXCEPT ![c] = "wait"]
          /\ target' = [target EXCEPT ![c] = i]
          /\ conn' = [conn EXCEPT ![c][i] = Conn("sent", FALSE, None)]
       \/ /\ Fails(c, i)
          /\ target' = [target EXCEPT ![c] = None]
          /\ UNCHANGED <<stage, conn>>
    /\ UNCHANGED <<vars, registry, membershipMu, op, gotResponse, expired, status>>

\* The answers that node i has sent on call c's connection
Answers(c, i) ==
    IF conn[c][i].at = "answered" THEN {conn[c][i]}
    ELSE {Conn("answered", r.success, None) :
             r \in {x \in clientResponses : conn[c][i].at = "submitted" /\ x.request = <<c, i>>}}

\* Mutant: whatever the node answers is taken for a success.
AnyAnswer(a) == TRUE

Succeeded(a) == a.success

\* callRust returns an answer, and the rest of the loop
HandleAnswer(c) ==
    /\ stage[c] = "wait"
    /\ \E a \in Answers(c, target[c]) :
          /\ gotResponse' = [gotResponse EXCEPT ![c] = TRUE]
          /\ \/ /\ Succeeded(a)
                /\ Finish(c, 200)
                /\ UNCHANGED target
             \/ /\ ~Succeeded(a)
                /\ stage' = [stage EXCEPT ![c] = "loop"]
                /\ target' = [target EXCEPT ![c] = a.leader_id]
                /\ UNCHANGED <<registry, membershipMu, status>>
    /\ UNCHANGED <<vars, op, untried, expired, conn>>

\* callRust returns an error.
GiveUp(c) ==
    /\ stage' = [stage EXCEPT ![c] = "loop"]
    /\ target' = [target EXCEPT ![c] = None]

\* The connection fails before the answer has arrived.
ConnectionLost(c) ==
    /\ stage[c] = "wait" /\ Fails(c, target[c])
    /\ GiveUp(c)
    /\ UNCHANGED <<vars, registry, membershipMu, op, untried, gotResponse, expired, status,
                   conn>>

\* Mutant: the connection has no deadline of its own.
DeadlineBetweenCalls(c) ==
    /\ stage[c] = "loop" /\ ~expired[c]
    /\ expired' = [expired EXCEPT ![c] = TRUE]
    /\ UNCHANGED <<vars, registry, membershipMu, op, stage, untried, target, gotResponse,
                   status, conn>>

\* Five seconds have passed, or the HTTP client has gone away: the context's deadline
\* is also the connection's.
Deadline(c) ==
    /\ stage[c] \in {"loop", "wait"} /\ ~expired[c]
    /\ expired' = [expired EXCEPT ![c] = TRUE]
    /\ GiveUp(c)
    /\ UNCHANGED <<vars, registry, membershipMu, op, untried, gotResponse, status, conn>>

\* executeRust runs out of time or of candidates.
Return(c) ==
    /\ stage[c] = "loop"
    /\ expired[c] \/ Candidates(c) = {}
    /\ Finish(c, IF ~gotResponse[c] THEN 502 ELSE IF expired[c] THEN 504 ELSE 409)
    /\ UNCHANGED <<vars, op, untried, target, gotResponse, expired, conn>>

-----------------------------------------------------------------------------
(* The nodes' side: handle_connection and handle_service_request           *)

\* handle_message of a membership change; a follower that knows no leader drops it.
SubmitMembership(i, payload) ==
    \/ Propose(i, payload)
    \/ role[i] # Leader /\ leader_id[i] = None /\ UNCHANGED vars

\* The Runtime loop takes call c's request from its channel.  A write of the leader is
\* answered when Raft answers it; a membership change is answered as submitted.
HandleServiceRequest(c, i) ==
    /\ i \notin panicked /\ conn[c][i].at = "sent"
    /\ \/ /\ op[c].kind = "read"
          /\ conn' = [conn EXCEPT ![c][i] = Conn("answered", TRUE, leader_id[i])]
          /\ UNCHANGED vars
       \/ /\ op[c].kind = "write"
          /\ SubmitStoreWrite(i, <<c, i>>)
          /\ conn' = [conn EXCEPT ![c][i] =
                IF role[i] = Leader THEN Conn("submitted", FALSE, None)
                ELSE Conn("answered", FALSE, leader_id[i])]
       \/ /\ op[c].kind \in {"add", "remove"}
          /\ SubmitMembership(i, op[c])
          /\ conn' = [conn EXCEPT ![c][i] = Conn("answered", TRUE, None)]
    /\ UNCHANGED callVars

-----------------------------------------------------------------------------
\* What a goroutine does without waiting for its client
CallStep(c) ==
    \/ HandleKV(c)
    \/ HandleRemoveNode(c)
    \/ HandleAddNode(c)
    \/ CallRust(c)
    \/ HandleAnswer(c)
    \/ ConnectionLost(c)
    \/ Deadline(c)
    \/ Return(c)

GatewayNext ==
    \/ NodeStep /\ UNCHANGED gatewayVars
    \/ \E c \in Call : CallStep(c)
    \/ \E c \in Call : ReadBody(c)
    \/ \E c \in Call : \E i \in Server : HandleServiceRequest(c, i)

\* Goroutines run and deadlines pass; nothing is assumed of the nodes, nor of the client
\* whose body handleAddNode waits for: the server has no ReadTimeout, and the five seconds
\* begin after the body.
GatewaySpec ==
    /\ Init /\ GatewayInit
    /\ [][GatewayNext]_allVars
    /\ \A c \in Call : WF_allVars(CallStep(c))

-----------------------------------------------------------------------------
(* Properties                                                              *)

\* A PUT or DELETE answered with 200 has been applied by a node, whatever failed, was
\* refused or was asked of another node before (executeRust, submit_store_write).
OkMeansApplied ==
    \A c \in Call : op[c].kind = "write" /\ status[c] = 200 =>
        \E i, j \in Server : \E k \in DOMAIN applied[j] :
            applied[j][k].payload = CommandPayload(<<c, i>>)

\* While a membership change is on its way, the registry says what its handler has
\* checked: no other call adds or removes the same node (membershipMu).
CheckedUntilDone ==
    \A c \in Call : stage[c] \in {"loop", "wait"} => ~Refused(op[c])

\* However the nodes name each other as leader, a call does not come back to a node it
\* has asked: a write is not submitted twice to one node (tried).
AskedOnce ==
    [][\A c \in Call, i \in Server :
          conn[c][i].at # "none" /\ conn'[c][i] # conn[c][i] => conn'[c][i].at # "sent"]_allVars

\* What keeps the two properties above true from step to step: a membership change on
\* its way holds the mutex, and a call that has not begun has no connection, nor has one
\* to a node it has not tried.
GatewayTypes ==
    /\ registry \subseteq Server
    /\ stage \in [Call -> {"new", "body", "loop", "wait", "done"}]
    /\ untried \in [Call -> SUBSET Server]
    /\ DOMAIN op = Call
    /\ DOMAIN conn = Call /\ \A c \in Call : DOMAIN conn[c] = Server
ChangeHoldsMutex ==
    \A c \in Call : stage[c] \in {"body", "loop", "wait"} /\ op[c].kind \in {"add", "remove"} =>
        membershipMu = c
UntriedNotAsked ==
    \A c \in Call, i \in Server :
        stage[c] \in {"new", "body"} \/ i \in untried[c] => conn[c][i].at = "none"
GatewayInv == GatewayTypes /\ ChangeHoldsMutex /\ CheckedUntilDone /\ UntriedNotAsked

\* Client c does not keep handleAddNode waiting for its body for ever.
BodyComes(c) == []<>(stage[c] # "body")

\* Every read or write whose request was read is answered, whatever the membership handlers
\* wait for and also when no node ever answers or a write cannot be committed; and so is
\* every membership change, unless a client stalls in the body that handleAddNode reads
\* under the mutex.
CallsAnswered ==
    \A c \in Call :
        /\ op[c].kind \in {"read", "write"} => <>(status[c] # 0)
        /\ op[c].kind \in {"add", "remove"} =>
              ((\A d \in Call : BodyComes(d)) => <>(status[c] # 0))
=============================================================================
