------------------------- MODULE RaftOrderProofs ----------------------------
(***************************************************************************)
(* What a step of Raft commits, applies and answers, and the order of the  *)
(* entries in the logs, for a fixed cluster of any size.                   *)
(***************************************************************************)
EXTENDS RaftCells

\* A leaf that names no prover is tried with each of these, in this order.
USE SMT, Zenon, SMTT(60), ZenonT(60)

-----------------------------------------------------------------------------
(* What a step commits, applies and answers                                *)

LEMMA UpdateCommits ==
    ASSUME Base, Base', NEW i \in Server, NEW next \in [Server -> Nat], NEW match \in [Server -> Nat],
           NEW pending, UpdateCommitIndex(i, next, match, pending),
           role'[i] = Leader, current_term'[i] = current_term[i]
    PROVE  /\ Decides(i)
           /\ ApplyCommittedEntries(i, next, match, pending, clientResponses)
<1>1. PICK c \in commit_index[i] .. Len(log'[i]) :
         /\ c # commit_index[i] => Committable(i, log'[i], match, c)
         /\ commit_index' = [commit_index EXCEPT ![i] = c]
         /\ ApplyCommittedEntries(i, next, match, pending, clientResponses)
  BY Zenon DEF UpdateCommitIndex
<1>2. match_index' = [match_index EXCEPT ![i] = match]
  BY <1>1, ApplyKeepsProgress, Zenon
<1>3. match_index \in [Server -> [Server -> Nat]]
  BY Zenon DEF Base, Typed, TypeOK
<1>4. match_index'[i] = match
  BY <1>2, <1>3
<1>5. Applies(i)
  BY <1>1, Zenon DEF ApplyCommittedEntries, Applies
<1>6. QED
  BY <1>1, <1>4, <1>5, Zenon DEF Decides

\* An AppendEntries that passes the consistency check.
LEMMA Accepts ==
    ASSUME Base, NEW m \in appendEntries, HandleAppendEntries(m),
           ~(m.term < current_term[m.to]), PrevMatches(m, log[m.to])
    PROVE  /\ Follows(m)
           /\ ApplyCommittedEntries(m.to, next_index[m.to], match_index[m.to],
                 IF m.term > current_term[m.to] THEN {} ELSE pending_requests[m.to],
                 clientResponses \cup
                    (IF m.term > current_term[m.to] THEN Drained(m.to, m.term) ELSE {}))
<1> DEFINE i == m.to
           pending == IF m.term > current_term[i] THEN {} ELSE pending_requests[i]
           responses == clientResponses \cup
                          (IF m.term > current_term[i] THEN Drained(i, m.term) ELSE {})
<1>1. /\ m.term >= current_term[i]
      /\ current_term' = [current_term EXCEPT ![i] = m.term]
      /\ role' = [role EXCEPT ![i] = Follower]
      /\ log' = [log EXCEPT ![i] = MergedLog(@, m.prev_log_index, m.entries)]
      /\ commit_index' = [commit_index EXCEPT ![i] = FollowerCommit(m, log'[i])]
      /\ ApplyCommittedEntries(i, next_index[i], match_index[i], pending, responses)
      /\ AppendReply(m, m.term, TRUE, m.prev_log_index + Len(m.entries))
      /\ UNCHANGED <<requestVotes, voteResponses, appendEntries>>
  BY Zenon DEF HandleAppendEntries
<1>2. \A a \in appendResponses' \ appendResponses :
         /\ a.term = m.term /\ a.follower_id = m.to /\ a.to = m.leader_id
         /\ a.match_index = LastIndex(m)
  <2>1. AppendReply(m, m.term, TRUE, LastIndex(m))
    BY <1>1, Zenon DEF LastIndex
  <2>2. QED
    BY <2>1 DEF AppendReply, Sent
<1>3. Receives(m)
  BY <1>1, <1>2, Zenon DEF Receives
<1>4. Applies(i)
  BY <1>1, Zenon DEF ApplyCommittedEntries, Applies
<1>5. QED
  BY <1>1, <1>3, <1>4, Zenon DEF Follows

LEMMA AppendEntryCommits ==
    ASSUME Base, Base', NEW i \in Server, role[i] = Leader, NEW payload \in Payload, NEW pending,
           AppendEntry(i, payload, pending)
    PROVE  /\ Commits
           /\ \/ ApplyCommittedEntries(i, next_index[i], match_index[i], pending, clientResponses)
              \/ /\ pending_requests' = [pending_requests EXCEPT ![i] = pending]
                 /\ clientResponses' = clientResponses
<1>1. UNCHANGED <<current_term, role>>
  BY Zenon DEF AppendEntry, termVars
<1>2. role'[i] = Leader /\ current_term'[i] = current_term[i]
  BY <1>1
<1>3. next_index[i] \in [Server -> Nat] /\ match_index[i] \in [Server -> Nat]
  BY DEF Base, Typed, TypeOK
<1>4. CASE peers[i] = {}
  <2>1. UpdateCommitIndex(i, next_index[i], match_index[i], pending)
    BY <1>4, Zenon DEF AppendEntry
  <2>2. QED
    BY <1>2, <1>3, <2>1, UpdateCommits, Zenon DEF Commits
<1>5. CASE peers[i] # {}
  BY <1>5, Zenon DEF AppendEntry, stateVars, Commits
<1>6. QED
  BY <1>4, <1>5

LEMMA HandleAppendEntriesCommits ==
    ASSUME Base, NEW m \in appendEntries, HandleAppendEntries(m)
    PROVE  Commits
<1>1. CASE ~(m.term < current_term[m.to]) /\ PrevMatches(m, log[m.to])
  BY <1>1, Accepts, Zenon DEF Commits
<1>2. CASE m.term < current_term[m.to] \/ ~PrevMatches(m, log[m.to])
  <2>1. ~(m.term < current_term[m.to] /\ m.term >= current_term[m.to])
    <3>1. m.term \in Nat /\ current_term[m.to] \in Nat
      BY Zenon DEF Base, Typed, TypeOK, AppendEntriesMsg
    <3>2. QED
      BY <3>1
  <2>2. UNCHANGED stateVars
    BY <1>2, <2>1, Zenon DEF HandleAppendEntries
  <2>3. QED
    BY <2>2, Zenon DEF stateVars, Commits
<1>3. QED
  BY <1>1, <1>2

\* The two map updates that handle_append_entries_response makes.
LEMMA ProgressTyped ==
    ASSUME Base, NEW m \in appendResponses
    PROVE  /\ [next_index[m.to] EXCEPT ![m.follower_id] = m.match_index + 1] \in [Server -> Nat]
           /\ [match_index[m.to] EXCEPT ![m.follower_id] = m.match_index] \in [Server -> Nat]
<1>1. m.to \in Server /\ m.follower_id \in Server /\ m.match_index \in Nat
  BY Zenon DEF Base, Typed, TypeOK, AppendResponseMsg
<1>2. next_index[m.to] \in [Server -> Nat] /\ match_index[m.to] \in [Server -> Nat]
  BY <1>1, Zenon DEF Base, Typed, TypeOK
<1>3. m.match_index + 1 \in Nat
  BY <1>1
<1>4. ASSUME NEW f \in [Server -> Nat], NEW n \in Nat
      PROVE  [f EXCEPT ![m.follower_id] = n] \in [Server -> Nat]
  BY Zenon
<1>5. QED
  BY <1>1, <1>2, <1>3, <1>4, Zenon

LEMMA HandleAppendResponseCommits ==
    ASSUME Base, Base', NEW m \in appendResponses, HandleAppendResponse(m)
    PROVE  \/ UNCHANGED stateVars /\ (StepDown(m.to, m.term) \/ UNCHANGED clientVars)
           \/ /\ Decides(m.to)
              /\ \E next, match :
                    ApplyCommittedEntries(m.to, next, match, pending_requests[m.to], clientResponses)
<1> DEFINE next  == [next_index[m.to] EXCEPT ![m.follower_id] = m.match_index + 1]
           match == [match_index[m.to] EXCEPT ![m.follower_id] = m.match_index]
<1>1. \/ UNCHANGED stateVars /\ (StepDown(m.to, m.term) \/ UNCHANGED clientVars)
      \/ /\ role[m.to] = Leader /\ UNCHANGED <<termVars, role>>
         /\ UpdateCommitIndex(m.to, next, match, pending_requests[m.to])
  BY Zenon DEF HandleAppendResponse
<1>2. next \in [Server -> Nat] /\ match \in [Server -> Nat] /\ m.to \in Server
  BY ProgressTyped, Zenon DEF Base, Typed, TypeOK, AppendResponseMsg
<1> HIDE DEF next, match
<1>3. CASE /\ role[m.to] = Leader /\ UNCHANGED <<termVars, role>>
           /\ UpdateCommitIndex(m.to, next, match, pending_requests[m.to])
  <2>1. role'[m.to] = Leader /\ current_term'[m.to] = current_term[m.to]
    BY <1>3 DEF termVars
  <2>2. Decides(m.to) /\ ApplyCommittedEntries(m.to, next, match, pending_requests[m.to], clientResponses)
    BY <1>2, <1>3, <2>1, UpdateCommits, Zenon
  <2>3. QED
    BY <2>2, Zenon
<1>4. QED
  BY <1>1, <1>3, Zenon

LEMMA CommitsStep ==
    ASSUME Base, Base', [Next]_vars
    PROVE  Commits
<1>1. CASE UNCHANGED stateVars
  BY <1>1, Zenon DEF stateVars, Commits
<1>2. ASSUME NEW i \in Server, StartElection(i) \/ SendHeartbeats(i) \/ Restart(i)
      PROVE  UNCHANGED stateVars
  BY <1>2, Zenon DEF StartElection, SendHeartbeats, Restart
<1>3. ASSUME NEW m \in requestVotes, HandleRequestVote(m) PROVE UNCHANGED stateVars
  BY <1>3, Zenon DEF HandleRequestVote
<1>4. ASSUME NEW m \in voteResponses, HandleVoteResponse(m) PROVE UNCHANGED stateVars
  BY <1>4, Zenon DEF HandleVoteResponse
<1>5. ASSUME NEW m \in appendResponses, HandleAppendResponse(m) PROVE Commits
  <2>1. m.to \in Server
    BY Zenon DEF Base, Typed, TypeOK, AppendResponseMsg
  <2>2. UNCHANGED stateVars \/ Decides(m.to)
    BY <1>5, HandleAppendResponseCommits, Zenon
  <2>3. QED
    BY <1>1, <2>1, <2>2, Zenon DEF Commits
<1>6. ASSUME NEW i \in Server, NEW payload \in Payload, Propose(i, payload) PROVE Commits
  BY <1>1, <1>6, AppendEntryCommits, Zenon DEF Propose
<1>7. ASSUME NEW i \in Server, NEW x \in Request, ClientRequest(i, x) PROVE Commits
  <2>1. CommandPayload(x) \in Payload
    BY DEF CommandPayload, Payload
  <2>2. QED
    BY <1>1, <1>7, <2>1, AppendEntryCommits, Zenon DEF ClientRequest, SubmitStoreWrite
<1>8. ASSUME NEW m \in forwarded, HandleForwarded(m) PROVE Commits
  <2>1. m.to \in Server /\ m.payload \in Payload
    BY DEF Base, Typed, TypeOK
  <2>2. QED
    BY <1>6, <1>8, <2>1 DEF HandleForwarded
<1>9. ASSUME NEW i \in Server, NEW c \in Command, ClientCommand(i, CommandPayload(c)) PROVE Commits
  <2>1. CommandPayload(c) \in Payload
    BY DEF CommandPayload, Payload
  <2>2. QED
    BY <1>6, <1>9, <2>1 DEF ClientCommand
<1>10. CASE UNCHANGED vars
  BY <1>1, <1>10, Zenon DEF vars, stateVars
<1>11. QED
  BY <1>1, <1>2, <1>3, <1>4, <1>5, <1>7, <1>8, <1>9, <1>10, HandleAppendEntriesCommits, Zenon
     DEF Next, NodeStep, ElectionTimeout, TimeoutMessage

\* Answers that are not successes, and pending requests that are kept or dropped.
LEMMA QuietServes ==
    ASSUME \A i \in Server : pending_requests'[i] \subseteq pending_requests[i],
           \A r \in clientResponses' : r \in clientResponses \/ ~r.success
    PROVE  Serves
BY Zenon DEF Serves, Mine

LEMMA SameClientsServe ==
    ASSUME UNCHANGED clientVars
    PROVE  Serves
<1>1. UNCHANGED <<pending_requests, clientResponses>>
  BY DEF clientVars
<1>2. QED
  BY <1>1, QuietServes

LEMMA DrainedFails ==
    ASSUME NEW i \in Server, NEW t, NEW r \in Drained(i, t)
    PROVE  ~r.success
BY DEF Drained, Response

LEMMA AdoptTermServes ==
    ASSUME Base, NEW i \in Server, NEW t, AdoptTerm(i, t)
    PROVE  Serves
<1>1. /\ pending_requests' = [pending_requests EXCEPT ![i] = {}]
      /\ clientResponses' = clientResponses \cup Drained(i, t)
  BY Zenon DEF AdoptTerm
<1>2. DOMAIN pending_requests = Server
  BY DEF Base, Typed, TypeOK
<1>3. \A j \in Server : pending_requests'[j] \subseteq pending_requests[j]
  BY <1>1, <1>2
<1>4. \A r \in clientResponses' : r \in clientResponses \/ ~r.success
  BY <1>1, DrainedFails, Zenon
<1>5. QED
  BY <1>3, <1>4, QuietServes

\* apply_committed_entries answers the requests it is given when it applies their entries.
LEMMA ApplyServes ==
    ASSUME Base, NEW i \in Server, NEW next, NEW match, NEW pending, NEW responses,
           ApplyCommittedEntries(i, next, match, pending, responses),
           \A x \in pending : Mine(i, x),
           \A r \in responses : r \in clientResponses \/ ~r.success
    PROVE  Serves
<1> DEFINE ks == last_applied[i] + 1 .. commit_index'[i]
           answered == {x \in pending : x.index \in ks /\ log'[i][x.index].term = x.term}
<1>1. /\ pending_requests' = [pending_requests EXCEPT ![i] = pending \ answered]
      /\ clientResponses' = responses \cup
            {Response(x.request, TRUE, x.index, x.term) : x \in answered}
      /\ Applies(i)
  BY Zenon DEF ApplyCommittedEntries, Applies
<1>2. DOMAIN pending_requests = Server
  BY DEF Base, Typed, TypeOK
<1>3. ASSUME NEW j \in Server, NEW x \in pending_requests'[j] PROVE Mine(j, x)
  <2>1. CASE j = i
    <3>1. x \in pending
      BY <1>1, <1>2, <1>3, <2>1
    <3>2. QED
      BY <2>1, <3>1
  <2>2. CASE j # i
    <3>1. x \in pending_requests[j]
      BY <1>1, <1>2, <1>3, <2>2
    <3>2. QED
      BY <3>1 DEF Mine
  <2>3. QED
    BY <2>1, <2>2
<1>4. ASSUME NEW r \in clientResponses', r \notin clientResponses, r.success
      PROVE  \E j \in Server : \E x : Mine(j, x) /\ Answered(j, x, r)
  <2>1. PICK x \in answered : r = Response(x.request, TRUE, x.index, x.term)
    BY <1>1, <1>4, Zenon
  <2>2. x \in pending /\ x.index \in ks /\ log'[i][x.index].term = x.term
    BY <2>1
  <2>3. r.index = x.index /\ r.term = x.term /\ r.request = x.request
    BY <2>1 DEF Response
  <2>4. Mine(i, x) /\ Answered(i, x, r)
    BY <1>1, <2>2, <2>3, Zenon DEF Answered
  <2>5. QED
    BY <2>4, Zenon
<1>5. QED
  BY <1>3, <1>4, Zenon DEF Serves

LEMMA AppendEntryServes ==
    ASSUME Base, Base', NEW i \in Server, role[i] = Leader, NEW payload \in Payload, NEW pending,
           AppendEntry(i, payload, pending), \A x \in pending : Mine(i, x)
    PROVE  Serves
<1>1. CASE ApplyCommittedEntries(i, next_index[i], match_index[i], pending, clientResponses)
  BY <1>1, ApplyServes, Zenon
<1>2. CASE /\ pending_requests' = [pending_requests EXCEPT ![i] = pending]
           /\ clientResponses' = clientResponses
  <2>1. DOMAIN pending_requests = Server
    BY DEF Base, Typed, TypeOK
  <2>2. ASSUME NEW j \in Server, NEW x \in pending_requests'[j] PROVE Mine(j, x)
    <3>1. CASE j = i
      <4>1. x \in pending
        BY <1>2, <2>1, <2>2, <3>1
      <4>2. QED
        BY <3>1, <4>1
    <3>2. CASE j # i
      <4>1. x \in pending_requests[j]
        BY <1>2, <2>1, <2>2, <3>2
      <4>2. QED
        BY <4>1 DEF Mine
    <3>3. QED
      BY <3>1, <3>2
  <2>3. QED
    BY <1>2, <2>2, Zenon DEF Serves
<1>3. QED
  BY <1>1, <1>2, AppendEntryCommits, Zenon

LEMMA HandleAppendEntriesServes ==
    ASSUME Base, Base', NEW m \in appendEntries, HandleAppendEntries(m)
    PROVE  Serves
<1> DEFINE i == m.to
           pending == IF m.term > current_term[i] THEN {} ELSE pending_requests[i]
           responses == clientResponses \cup
                          (IF m.term > current_term[i] THEN Drained(i, m.term) ELSE {})
<1>1. i \in Server /\ DOMAIN pending_requests = Server
  BY DEF Base, Typed, TypeOK, AppendEntriesMsg
<1>2. pending \subseteq pending_requests[i]
  OBVIOUS
<1>3. \A r \in responses : r \in clientResponses \/ ~r.success
  BY <1>1, DrainedFails
<1>4. CASE ~(m.term < current_term[i]) /\ PrevMatches(m, log[i])
  <2>1. ApplyCommittedEntries(i, next_index[i], match_index[i], pending, responses)
    BY <1>4, Accepts, Zenon
  <2>2. \A x \in pending : Mine(i, x)
    BY <1>2 DEF Mine
  <2> HIDE DEF pending, responses
  <2>3. QED
    BY <1>1, <1>3, <2>1, <2>2, ApplyServes
<1>5. CASE m.term < current_term[i] \/ ~PrevMatches(m, log[i])
  <2>1. ~(m.term < current_term[i] /\ m.term >= current_term[i])
    <3>1. m.term \in Nat /\ current_term[i] \in Nat
      BY <1>1, Zenon DEF Base, Typed, TypeOK, AppendEntriesMsg
    <3>2. QED
      BY <3>1
  <2>2. \/ UNCHANGED clientVars
        \/ pending_requests' = [pending_requests EXCEPT ![i] = pending] /\ clientResponses' = responses
    BY <1>5, <2>1, Zenon DEF HandleAppendEntries
  <2>3. CASE pending_requests' = [pending_requests EXCEPT ![i] = pending] /\ clientResponses' = responses
    <3>1. \A j \in Server : pending_requests'[j] \subseteq pending_requests[j]
      <4> HIDE DEF pending
      <4>1. QED
        BY <1>1, <1>2, <2>3
    <3>2. QED
      BY <1>3, <2>3, <3>1, QuietServes
  <2>4. QED
    BY <2>2, <2>3, SameClientsServe
<1>6. QED
  BY <1>4, <1>5

LEMMA ServesStep ==
    ASSUME Base, Base', [Next]_vars
    PROVE  Serves
<1>1. ASSUME NEW i \in Server, StartElection(i) \/ SendHeartbeats(i) PROVE UNCHANGED clientVars
  BY <1>1, Zenon DEF StartElection, SendHeartbeats
<1>2. ASSUME NEW i \in Server, Restart(i) PROVE Serves
  <2>1. pending_requests' = [pending_requests EXCEPT ![i] = {}] /\ clientResponses' = clientResponses
    BY <1>2, Zenon DEF Restart
  <2>2. DOMAIN pending_requests = Server
    BY DEF Base, Typed, TypeOK
  <2>3. \A j \in Server : pending_requests'[j] \subseteq pending_requests[j]
    BY <2>1, <2>2
  <2>4. QED
    BY <2>1, <2>3, QuietServes
<1>3. ASSUME NEW m \in requestVotes, HandleRequestVote(m) PROVE Serves
  <2>1. m.to \in Server
    BY Zenon DEF Base, Typed, TypeOK, RequestVoteMsg
  <2>2. AdoptTerm(m.to, m.term) \/ UNCHANGED clientVars
    BY <1>3, Zenon DEF HandleRequestVote
  <2>3. QED
    BY <2>1, <2>2, AdoptTermServes, SameClientsServe, Zenon
<1>4. ASSUME NEW m \in voteResponses, HandleVoteResponse(m) PROVE Serves
  <2>1. m.to \in Server
    BY Zenon DEF Base, Typed, TypeOK, VoteResponseMsg
  <2>2. AdoptTerm(m.to, m.term) \/ UNCHANGED clientVars
    BY <1>4, Zenon DEF HandleVoteResponse, StepDown
  <2>3. QED
    BY <2>1, <2>2, AdoptTermServes, SameClientsServe, Zenon
<1>5. ASSUME NEW m \in appendResponses, HandleAppendResponse(m) PROVE Serves
  <2>1. m.to \in Server
    BY Zenon DEF Base, Typed, TypeOK, AppendResponseMsg
  <2>2. \A x \in pending_requests[m.to] : Mine(m.to, x)
    BY DEF Mine
  <2>3. ASSUME NEW next, NEW match,
               ApplyCommittedEntries(m.to, next, match, pending_requests[m.to], clientResponses)
        PROVE  Serves
    BY <2>1, <2>2, <2>3, ApplyServes, Zenon
  <2>4. QED
    BY <1>5, <2>1, <2>3, HandleAppendResponseCommits, AdoptTermServes, SameClientsServe, Zenon
       DEF StepDown
<1>6. ASSUME NEW i \in Server, NEW payload \in Payload, Propose(i, payload) PROVE Serves
  <2>1. \A x \in pending_requests[i] : Mine(i, x)
    BY DEF Mine
  <2>2. \/ UNCHANGED clientVars
        \/ role[i] = Leader /\ AppendEntry(i, payload, pending_requests[i])
    BY <1>6, Zenon DEF Propose
  <2>3. QED
    BY <2>1, <2>2, AppendEntryServes, SameClientsServe, Zenon
<1>7. ASSUME NEW i \in Server, NEW x \in Request, ClientRequest(i, x) PROVE Serves
  <2> DEFINE new == [index |-> Len(log[i]) + 1, term |-> current_term[i], request |-> x]
  <2>1. CommandPayload(x) \in Payload /\ current_term[i] \in Nat
    BY DEF CommandPayload, Payload, Base, Typed, TypeOK
  <2>2. CASE role[i] = Leader /\ AppendEntry(i, CommandPayload(x), pending_requests[i] \cup {new})
    <3> DEFINE e == [term |-> current_term[i], payload |-> CommandPayload(x)]
    <3>1. Extends(i, e) /\ e \in Entry
      BY <2>1, <2>2, AppendEntryShape DEF Entry
    <3>2. e.payload = CommandPayload(new.request) /\ new.index = Len(log[i]) + 1
          /\ new.term = current_term[i]
      OBVIOUS
    <3> HIDE DEF e, new
    <3>3. Mine(i, new)
      BY <3>1, <3>2, Zenon DEF Mine, NewPending
    <3>4. \A y \in pending_requests[i] \cup {new} : Mine(i, y)
      BY <3>3 DEF Mine
    <3>5. QED
      BY <2>1, <2>2, <3>4, AppendEntryServes, Zenon
  <2>3. CASE /\ clientResponses' = clientResponses \cup {Response(x, FALSE, 0, current_term[i])}
             /\ UNCHANGED pending_requests
    <3>1. \A r \in clientResponses' : r \in clientResponses \/ ~r.success
      BY <2>3 DEF Response
    <3>2. \A j \in Server : pending_requests'[j] \subseteq pending_requests[j]
      BY <2>3
    <3>3. QED
      BY <3>1, <3>2, QuietServes
  <2>4. QED
    BY <1>7, <2>2, <2>3, Zenon DEF ClientRequest, SubmitStoreWrite
<1>8. ASSUME NEW m \in forwarded, HandleForwarded(m) PROVE Serves
  <2>1. m.to \in Server /\ m.payload \in Payload
    BY DEF Base, Typed, TypeOK
  <2>2. QED
    BY <1>6, <1>8, <2>1 DEF HandleForwarded
<1>9. ASSUME NEW i \in Server, NEW c \in Command, ClientCommand(i, CommandPayload(c)) PROVE Serves
  <2>1. CommandPayload(c) \in Payload
    BY DEF CommandPayload, Payload
  <2>2. QED
    BY <1>6, <1>9, <2>1 DEF ClientCommand
<1>10. CASE UNCHANGED vars
  BY <1>10, SameClientsServe DEF vars, clientVars
<1>11. QED
  BY <1>1, <1>2, <1>3, <1>4, <1>5, <1>7, <1>8, <1>9, <1>10, HandleAppendEntriesServes,
     SameClientsServe, Zenon
     DEF Next, NodeStep, ElectionTimeout, TimeoutMessage

-----------------------------------------------------------------------------
(* Terms along a piece                                                     *)

LEMMA TermsRise ==
    ASSUME Base, TermsOrdered, NEW p \in Pieces, NEW a \in Nat, NEW b \in Nat,
           p.prev_log_index <= a, a <= b, b <= LastIndex(p)
    PROVE  PieceTerm(p, a) <= PieceTerm(p, b)
<1> DEFINE S == {n \in Nat : a <= n /\ n <= b /\ ~(PieceTerm(p, a) <= PieceTerm(p, n))}
<1>1. PieceOK(p)
  BY PiecesTyped DEF Base, Typed
<1>2. /\ p.prev_log_index \in Nat /\ LastIndex(p) \in Nat
      /\ \A n \in p.prev_log_index .. LastIndex(p) : PieceTerm(p, n) \in Nat
  BY <1>1, PieceTermType DEF PieceOK
<1>3. b \notin S => PieceTerm(p, a) <= PieceTerm(p, b)
  OBVIOUS
<1>4. SUFFICES ASSUME S # {} PROVE FALSE
  BY <1>3
<1>5. S \in SUBSET Nat
  OBVIOUS
<1> HIDE DEF S
<1>6. PICK n \in S : \A k \in S : n <= k
  BY <1>4, <1>5, LeastNumber
<1>7. n \in Nat /\ a <= n /\ n <= b /\ ~(PieceTerm(p, a) <= PieceTerm(p, n))
  BY <1>6 DEF S
<1>8. n # a
  <2>1. PieceTerm(p, a) \in Nat
    BY <1>2
  <2>2. QED
    BY <1>7, <2>1
<1>9. /\ n - 1 \in Nat /\ a <= n - 1 /\ n - 1 <= b /\ ~(n <= n - 1)
      /\ p.prev_log_index < n /\ n <= LastIndex(p)
  BY <1>2, <1>7, <1>8
<1>10. PieceTerm(p, a) <= PieceTerm(p, n - 1)
  BY <1>6, <1>9 DEF S
<1>11. PieceTerm(p, n - 1) <= PieceTerm(p, n)
  <2>1. PICK c \in Cells : c.entry.term = PieceTerm(p, n) /\ c.before = PieceTerm(p, n - 1)
    BY <1>7, <1>9, PieceCell DEF CellIs
  <2>2. c.before <= c.entry.term
    BY DEF TermsOrdered
  <2>3. QED
    BY <2>1, <2>2
<1>12. PieceTerm(p, a) \in Nat /\ PieceTerm(p, n - 1) \in Nat /\ PieceTerm(p, n) \in Nat
  BY <1>2, <1>7, <1>9
<1>13. QED
  BY <1>7, <1>10, <1>11, <1>12

LogsRise ==
    \A i \in Server : \A a, b \in Nat :
        a <= b /\ b <= Len(log[i]) => TermAt(log[i], a) <= TermAt(log[i], b)

LEMMA LogTermsRise == Base /\ TermsOrdered => LogsRise
<1> SUFFICES ASSUME Base, TermsOrdered, NEW i \in Server, NEW a \in Nat, NEW b \in Nat,
                    a <= b, b <= Len(log[i])
             PROVE  TermAt(log[i], a) <= TermAt(log[i], b)
  BY DEF LogsRise
<1> DEFINE p == LogPiece(log[i])
<1>1. /\ p \in Pieces /\ p.prev_log_index = 0 /\ LastIndex(p) = Len(log[i])
      /\ \A n \in 0 .. Len(log[i]) : PieceTerm(p, n) = TermAt(log[i], n)
  BY LogPieces, Zenon DEF LogIsPiece
<1>2. Len(log[i]) \in Nat
  BY LogTyped DEF LogTypes
<1> HIDE DEF p
<1>3. p.prev_log_index <= a /\ b <= LastIndex(p)
  BY <1>1
<1>4. PieceTerm(p, a) <= PieceTerm(p, b)
  BY <1>1, <1>3, TermsRise
<1>5. QED
  BY <1>1, <1>2, <1>4

LEMMA LogTermsRiseNext == Base' /\ TermsOrdered' => LogsRise'
BY LogTermsRise, PTL

\* Terms in a log are never beyond the node's term.
LogsBound ==
    \A i \in Server : \A k \in Nat :
        k <= Len(log[i]) => TermAt(log[i], k) \in Nat /\ TermAt(log[i], k) <= current_term[i]

LEMMA LogTermsBound == Base /\ TermsOrdered => LogsBound
<1> SUFFICES ASSUME Base, TermsOrdered, NEW i \in Server, NEW k \in Nat, k <= Len(log[i])
             PROVE  TermAt(log[i], k) \in Nat /\ TermAt(log[i], k) <= current_term[i]
  BY DEF LogsBound
<1>1. current_term[i] \in Nat /\ log[i] \in Seq(Entry) /\ Len(log[i]) \in Nat
  BY LogTyped DEF LogTypes
<1>2. CASE k = 0
  BY <1>1, <1>2 DEF TermAt
<1>3. CASE k # 0
  <2>1. k \in 1 .. Len(log[i])
    BY <1>1, <1>3
  <2>2. PICK c \in CellsOf(LogPiece(log[i])) : c \in Cells /\ c.entry.term = TermAt(log[i], k)
    BY <2>1, LogCell DEF LogCellsExist, CellIs
  <2>3. c.entry.term <= current_term[i] /\ c.entry.term \in Nat
    BY <2>2, CellTyped DEF TermsOrdered, CellTypes
  <2>4. QED
    BY <2>2, <2>3
<1>4. QED
  BY <1>2, <1>3

LEMMA LogTermsBoundNext == Base' /\ TermsOrdered' => LogsBound'
BY LogTermsBound, PTL

-----------------------------------------------------------------------------
(* Behind and Overruled                                                    *)

LEMMA NotBehindFacts ==
    ASSUME NEW u \in Nat, NEW n \in Nat, NEW t \in Nat, NEW k \in Nat
    PROVE  /\ ~Behind(u, n, t, k) => t <= u /\ (u = t => k <= n)
           /\ t <= u /\ k <= n => ~Behind(u, n, t, k)
           /\ Behind(u, n, t, k) => u <= t
BY DEF Behind

LEMMA OverruledLater ==
    ASSUME Base, NEW k, NEW t, NEW T \in Nat, NEW U \in Nat, T <= U, Overruled(k, t, T)
    PROVE  Overruled(k, t, U)
<1>1. PICK r \in requestVotes : /\ t < r.term /\ r.term <= T /\ Elected(r.candidate_id, r.term)
                                /\ Behind(r.last_log_term, r.last_log_index, t, k)
  BY DEF Overruled
<1>2. r.term \in Nat
  BY RequestTyped DEF RequestTypes
<1>3. r.term <= U
  BY <1>1, <1>2
<1>4. QED
  BY <1>1, <1>3, Zenon DEF Overruled

LEMMA OverruledStays ==
    ASSUME Base, Grows, NEW k, NEW t, NEW T, Overruled(k, t, T)
    PROVE  Overruled(k, t, T)'
<1>1. PICK r \in requestVotes : /\ t < r.term /\ r.term <= T /\ Elected(r.candidate_id, r.term)
                                /\ Behind(r.last_log_term, r.last_log_index, t, k)
  BY DEF Overruled
<1>2. r.candidate_id \in Server
  BY RequestTyped DEF RequestTypes
<1>3. r \in requestVotes'
  BY DEF Grows
<1>4. Elected(r.candidate_id, r.term)'
  BY <1>1, <1>2, ElectedStays
<1>5. QED
  BY <1>1, <1>3, <1>4, Zenon DEF Overruled

\* Within the entry's own term nothing has overruled it.
LEMMA NeverOverruledAtOnce ==
    ASSUME Base, NEW k, NEW t \in Nat
    PROVE  ~Overruled(k, t, t)
<1>1. \A r \in requestVotes : ~(t < r.term /\ r.term <= t)
  BY RequestTyped DEF RequestTypes
<1>2. QED
  BY <1>1 DEF Overruled

\* A piece whose end is not behind a cell has the cell, unless that was overruled.
LEMMA Contains ==
    ASSUME Base, TermsOrdered, TermsContiguous, CellsOrdered,
           NEW p \in Pieces, NEW c \in Cells, NEW n \in Nat,
           p.prev_log_index < c.index, p.prev_log_index < n, n <= LastIndex(p),
           ~Behind(PieceTerm(p, n), n, c.entry.term, c.index),
           ~Overruled(c.index, c.entry.term, PieceTerm(p, n))
    PROVE  c.index <= n /\ PieceTerm(p, c.index) = c.entry.term
<1> DEFINE k == c.index
           t == c.entry.term
           prev == p.prev_log_index
<1>1. k \in Nat /\ k >= 1 /\ t \in Nat
  BY CellTyped DEF CellTypes
<1>2. PieceOK(p)
  BY PiecesTyped DEF Base, Typed
<1>3. /\ prev \in Nat /\ LastIndex(p) \in Nat
      /\ \A x \in Nat : prev <= x /\ x <= LastIndex(p) => PieceTerm(p, x) \in Nat
  BY <1>2, PieceTermType DEF PieceOK
<1>4. PieceTerm(p, n) \in Nat
  BY <1>3
<1>5. t <= PieceTerm(p, n) /\ (PieceTerm(p, n) = t => k <= n)
  BY <1>1, <1>4, NotBehindFacts
<1>6. ASSUME NEW x \in Nat, prev < x, x <= n, t < PieceTerm(p, x)
      PROVE  k < x /\ t <= PieceTerm(p, x - 1)
  <2>1. x <= LastIndex(p)
    BY <1>3, <1>6
  <2>2. PICK d \in Cells : /\ d.index = x /\ d.entry.term = PieceTerm(p, x)
                           /\ d.before = PieceTerm(p, x - 1)
    BY <1>6, <2>1, PieceCell DEF CellIs
  <2>3. PieceTerm(p, x) <= PieceTerm(p, n) /\ PieceTerm(p, x) \in Nat
    BY <1>3, <1>6, <2>1, TermsRise
  <2>4. ~Overruled(k, t, d.entry.term)
    BY <1>4, <2>2, <2>3, OverruledLater
  <2>5. QED
    BY <1>6, <2>2, <2>4 DEF CellsOrdered
<1>7. k <= n
  <2>1. CASE PieceTerm(p, n) = t
    BY <1>5, <2>1
  <2>2. CASE PieceTerm(p, n) # t
    <3>1. t < PieceTerm(p, n) /\ n <= n
      BY <1>1, <1>4, <1>5, <2>2
    <3>2. k < n
      BY <1>6, <3>1
    <3>3. QED
      BY <1>1, <3>2
  <2>3. QED
    BY <2>1, <2>2
<1>8. PieceTerm(p, k) = t
  <2> DEFINE S == {x \in Nat : k <= x /\ x <= n /\ t <= PieceTerm(p, x)}
  <2>1. n \in S /\ S \in SUBSET Nat
    BY <1>5, <1>7
  <2> HIDE DEF S
  <2>2. PICK j \in S : \A x \in S : j <= x
    BY <2>1, LeastNumber
  <2>3. j \in Nat /\ k <= j /\ j <= n /\ t <= PieceTerm(p, j)
    BY <2>2 DEF S
  <2>4. prev < j /\ j <= LastIndex(p) /\ PieceTerm(p, j) \in Nat
    BY <1>1, <1>3, <2>3
  <2>5. CASE j = k
    BY <1>1, <1>6, <2>3, <2>4, <2>5
  <2>6. CASE j # k
    <3>1. j - 1 \in Nat /\ k <= j - 1 /\ j - 1 <= n /\ ~(j <= j - 1) /\ k < j
      BY <1>1, <2>3, <2>6
    <3>2. ~(t <= PieceTerm(p, j - 1))
      BY <2>2, <3>1 DEF S
    <3>3. CASE PieceTerm(p, j) = t
      <4>1. PICK d \in Cells : /\ d.index = j /\ d.entry.term = PieceTerm(p, j)
                               /\ d.before = PieceTerm(p, j - 1)
        BY <2>3, <2>4, PieceCell DEF CellIs
      <4>2. d.before = t
        BY <3>1, <3>3, <4>1 DEF TermsContiguous
      <4>3. QED
        BY <1>1, <3>2, <4>1, <4>2
    <3>4. CASE PieceTerm(p, j) # t
      BY <1>1, <1>6, <2>3, <2>4, <3>2, <3>4
    <3>5. QED
      BY <3>3, <3>4
  <2>7. QED
    BY <2>5, <2>6
<1>9. QED
  BY <1>7, <1>8

\* The same for a log.
LogsContain ==
    \A i \in Server : \A c \in Cells : \A n \in 1 .. Len(log[i]) :
        (/\ ~Behind(TermAt(log[i], n), n, c.entry.term, c.index)
         /\ ~Overruled(c.index, c.entry.term, TermAt(log[i], n)))
            => c.index <= n /\ TermAt(log[i], c.index) = c.entry.term

LEMMA LogContains == Base /\ TermsOrdered /\ TermsContiguous /\ CellsOrdered => LogsContain
<1> SUFFICES ASSUME Base, TermsOrdered, TermsContiguous, CellsOrdered,
                    NEW i \in Server, NEW c \in Cells, NEW n \in 1 .. Len(log[i]),
                    ~Behind(TermAt(log[i], n), n, c.entry.term, c.index),
                    ~Overruled(c.index, c.entry.term, TermAt(log[i], n))
             PROVE  c.index <= n /\ TermAt(log[i], c.index) = c.entry.term
  BY DEF LogsContain
<1> DEFINE p == LogPiece(log[i])
<1>1. /\ p \in Pieces /\ p.prev_log_index = 0 /\ LastIndex(p) = Len(log[i])
      /\ \A x \in 0 .. Len(log[i]) : PieceTerm(p, x) = TermAt(log[i], x)
  BY LogPieces, Zenon DEF LogIsPiece
<1>2. Len(log[i]) \in Nat /\ c.index \in Nat /\ c.index >= 1
  BY LogTyped, CellTyped DEF LogTypes, CellTypes
<1> HIDE DEF p
<1>3. /\ n \in Nat /\ p.prev_log_index < n /\ n <= LastIndex(p) /\ p.prev_log_index < c.index
      /\ PieceTerm(p, n) = TermAt(log[i], n)
  BY <1>1, <1>2
<1>4. c.index <= n /\ PieceTerm(p, c.index) = c.entry.term
  BY <1>1, <1>3, Contains
<1>5. c.index \in 0 .. Len(log[i])
  BY <1>2, <1>4
<1>6. QED
  BY <1>1, <1>4, <1>5

LEMMA LogContainsNext ==
    Base' /\ TermsOrdered' /\ TermsContiguous' /\ CellsOrdered' => LogsContain'
BY LogContains, PTL

-----------------------------------------------------------------------------
(* What a step does to one log                                             *)

LEMMA SameLogGrows ==
    ASSUME NEW l \in Seq(Entry)
    PROVE  LogGrows(l, l)
BY DEF LogGrows

LEMMA LastTermAt ==
    ASSUME NEW l \in Seq(Entry)
    PROVE  LastTerm(l) = TermAt(l, Len(l))
BY DEF LastTerm, TermAt

LEMMA AppendGrows ==
    ASSUME NEW l \in Seq(Entry), NEW e \in Entry
    PROVE  /\ LogGrows(l, Append(l, e)) /\ Len(Append(l, e)) = Len(l) + 1
           /\ TermAt(Append(l, e), Len(l) + 1) = e.term
<1>1. /\ Append(l, e) \in Seq(Entry) /\ Len(Append(l, e)) = Len(l) + 1
      /\ Append(l, e)[Len(l) + 1] = e
      /\ \A k \in 0 .. Len(l) : TermAt(Append(l, e), k) = TermAt(l, k)
      /\ CellsOf(LogPiece(l)) \subseteq CellsOf(LogPiece(Append(l, e)))
  BY AppendedLog, Zenon
<1>2. Len(l) \in Nat
  OBVIOUS
<1>3. LogGrows(l, Append(l, e))
  BY <1>1, <1>2 DEF LogGrows
<1>4. TermAt(Append(l, e), Len(l) + 1) = e.term
  BY <1>1, <1>2 DEF TermAt
<1>5. QED
  BY <1>1, <1>3, <1>4

LEMMA LogStep ==
    ASSUME Base, Base', Grows, Shape, NEW q \in Server
    PROVE  \/ log'[q] = log[q]
           \/ \E e \in Entry : Extends(q, e)
           \/ \E m \in appendEntries : Receives(m) /\ m.to = q
<1>1. CASE log' = log
  BY <1>1
<1>2. ASSUME NEW i \in Server, NEW e \in Entry, Extends(i, e)
      PROVE  log'[q] = log[q] \/ q = i
  BY <1>2, ExtendedCells
<1>3. ASSUME NEW m \in appendEntries, Receives(m)
      PROVE  log'[q] = log[q] \/ q = m.to
  BY <1>3, ReceivedCells
<1>4. \/ log' = log
      \/ \E i \in Server : \E e \in Entry : Extends(i, e)
      \/ \E m \in appendEntries : Receives(m)
  BY Zenon DEF Shape, Campaigns, Casts, Wins, Ships, Rests
<1>5. QED
  BY <1>1, <1>2, <1>3, <1>4, Zenon

\* Within its term a candidate or leader has been one, and only adds entries of the term.
LEMMA NonFollowerStep ==
    ASSUME Base, Base', Grows, Shape, NEW j \in Server,
           role'[j] # Follower, current_term'[j] = current_term[j]
    PROVE  /\ role[j] # Follower
           /\ LogGrows(log[j], log'[j])
           /\ \A k \in Nat : Len(log[j]) < k /\ k <= Len(log'[j])
                                => TermAt(log'[j], k) = current_term[j]
<1>1. /\ current_term \in [Server -> Nat] /\ role \in [Server -> {Follower, Candidate, Leader}]
      /\ role'[j] \in {Follower, Candidate, Leader}
  BY LogTypedNext, Zenon DEF Base, Typed, TypeOK, LogTypes
<1>2. log[j] \in Seq(Entry) /\ Len(log[j]) \in Nat /\ current_term[j] \in Nat
  BY LogTyped DEF LogTypes
<1>3. role[j] # Follower
  <2>1. ASSUME NEW i \in Server, Campaigns(i) PROVE role[j] # Follower
    <3>1. current_term' = [current_term EXCEPT ![i] = @ + 1]
      BY <2>1, Zenon DEF Campaigns
    <3>2. i # j
      BY <1>1, <1>2, <3>1
    <3>3. role'[j] = role[j]
      BY <1>1, <2>1, <3>2 DEF Campaigns
    <3>4. QED
      BY <3>3
  <2>2. ASSUME NoNewLeader, NoNewCandidate PROVE role[j] # Follower
    BY <1>1, <2>2 DEF NoNewLeader, NoNewCandidate, Follower, Candidate, Leader
  <2>3. ASSUME NEW i \in Server, Wins(i) PROVE role[j] # Follower
    BY <1>1, <2>3 DEF Wins, Follower, Candidate, Leader
  <2>4. ASSUME role' = role PROVE role[j] # Follower
    BY <2>4
  <2>5. ASSUME NEW m \in appendEntries, Receives(m) PROVE role[j] # Follower
    <3>1. role' = [role EXCEPT ![m.to] = Follower]
      BY <2>5, Zenon DEF Receives
    <3>2. QED
      BY <1>1, <3>1
  <2>6. \/ \E i \in Server : Campaigns(i) \/ Wins(i)
        \/ role' = role \/ (NoNewLeader /\ NoNewCandidate)
        \/ \E m \in appendEntries : Receives(m)
    BY Zenon DEF Shape, Casts, Ships, Extends, Rests
  <2>7. QED
    BY <2>1, <2>2, <2>3, <2>4, <2>5, <2>6, Zenon
<1>4. CASE log'[j] = log[j]
  BY <1>2, <1>3, <1>4, SameLogGrows
<1>5. ASSUME NEW e \in Entry, Extends(j, e)
      PROVE  /\ LogGrows(log[j], log'[j])
             /\ \A k \in Nat : Len(log[j]) < k /\ k <= Len(log'[j])
                                => TermAt(log'[j], k) = current_term[j]
  <2>1. log'[j] = Append(log[j], e)
    BY <1>5, ExtendedCells, Zenon
  <2>2. e.term = current_term[j]
    BY <1>5, Zenon DEF Extends
  <2>3. /\ LogGrows(log[j], log'[j]) /\ Len(log'[j]) = Len(log[j]) + 1
        /\ TermAt(log'[j], Len(log[j]) + 1) = e.term
    BY <1>2, <2>1, AppendGrows
  <2>4. \A k \in Nat : Len(log[j]) < k /\ k <= Len(log'[j]) => k = Len(log[j]) + 1
    BY <1>2, <2>3
  <2>5. QED
    BY <2>2, <2>3, <2>4, Zenon
<1>6. ASSUME NEW m \in appendEntries, Receives(m), m.to = j PROVE FALSE
  <2>1. role' = [role EXCEPT ![m.to] = Follower]
    BY <1>6, Zenon DEF Receives
  <2>2. QED
    BY <1>1, <1>6, <2>1
<1>7. QED
  BY <1>3, <1>4, <1>5, <1>6, LogStep, Zenon

\* The only new requests are those of the node that campaigns.
NewRequestOf(r, i) ==
    /\ r.candidate_id = i /\ r.term = current_term[i] + 1
    /\ r.last_log_index = Len(log[i]) /\ r.last_log_term = LastTerm(log[i])

LEMMA NewRequest ==
    ASSUME Shape, NEW r \in requestVotes' \ requestVotes
    PROVE  \E i \in Server : Campaigns(i) /\ NewRequestOf(r, i)
<1>1. ASSUME requestVotes' = requestVotes PROVE FALSE
  BY <1>1
<1>2. PICK i \in Server : Campaigns(i)
  BY <1>1, Zenon DEF Shape, Casts, Wins, Ships, Extends, Receives, Rests
<1>3. NewRequestOf(r, i)
  BY <1>2, Zenon DEF Campaigns, NewRequestOf
<1>4. QED
  BY <1>2, <1>3

-----------------------------------------------------------------------------
(* The order of entries: the invariant is kept                             *)

LEMMA TermsOrderedStep ==
    ASSUME Base, Base', TermsOrdered, Grows, Shape
    PROVE  TermsOrdered'
<1>1. ASSUME NEW c \in Cells' PROVE c.before <= c.entry.term
  <2>1. CASE c \in Cells
    BY <2>1 DEF TermsOrdered
  <2>2. ASSUME NEW i \in Server, NEW e \in Entry, Extends(i, e), c = NewCell(i, e)
        PROVE  c.before <= c.entry.term
    <3>1. log[i] \in Seq(Entry) /\ Len(log[i]) \in Nat
      BY LogTyped DEF LogTypes
    <3>2. TermAt(log[i], Len(log[i])) <= current_term[i]
      BY <3>1, LogTermsBound DEF LogsBound
    <3>3. c.before = LastTerm(log[i]) /\ c.entry.term = current_term[i]
      BY <2>2 DEF NewCell, Extends
    <3>4. QED
      BY <3>1, <3>2, <3>3, LastTermAt
  <2>3. QED
    BY <2>1, <2>2, CellsStep
<1>2. ASSUME NEW i \in Server, NEW c \in CellsOf(LogPiece(log'[i]))
      PROVE  c.entry.term <= current_term'[i]
  <2>1. current_term[i] <= current_term'[i] /\ current_term[i] \in Nat /\ current_term'[i] \in Nat
    BY LogTyped, LogTypedNext DEF LogTypes, Grows
  <2>2. c.entry.term \in Nat
    <3>1. c \in Cells'
      BY <1>2, CellIntroNext
    <3>2. QED
      BY <3>1, CellTypedNext DEF CellTypes
  <2>3. CASE c \in CellsOf(LogPiece(log[i]))
    <3>1. c.entry.term <= current_term[i]
      BY <2>3 DEF TermsOrdered
    <3>2. QED
      BY <2>1, <2>2, <3>1
  <2>4. ASSUME NEW e \in Entry, Extends(i, e), c = NewCell(i, e)
        PROVE  c.entry.term <= current_term'[i]
    <3>1. c.entry.term = current_term[i]
      BY <2>4 DEF NewCell, Extends
    <3>2. QED
      BY <2>1, <3>1
  <2>5. ASSUME NEW m \in appendEntries, Receives(m), m.to = i, c \in CellsOf(m)
        PROVE  c.entry.term <= current_term'[i]
    <3>1. c.entry.term <= m.term
      BY <2>5 DEF TermsOrdered
    <3>2. current_term' = [current_term EXCEPT ![m.to] = m.term]
      BY <2>5, Zenon DEF Receives
    <3>3. current_term \in [Server -> Nat]
      BY Zenon DEF Base, Typed, TypeOK
    <3>4. QED
      BY <2>5, <3>1, <3>2, <3>3
  <2>6. ASSUME NEW e \in Entry, Extends(i, e)
        PROVE  c \in CellsOf(LogPiece(log[i])) \/ c = NewCell(i, e)
    BY <1>2, <2>6, ExtendedCells
  <2>7. ASSUME NEW m \in appendEntries, Receives(m), m.to = i
        PROVE  c \in CellsOf(LogPiece(log[i])) \/ c \in CellsOf(m)
    BY <1>2, <2>7, ReceivedCells, Zenon
  <2>8. CASE log'[i] = log[i]
    <3>1. c \in CellsOf(LogPiece(log[i]))
      BY <1>2, <2>8
    <3>2. QED
      BY <2>3, <3>1
  <2>9. QED
    BY <2>3, <2>4, <2>5, <2>6, <2>7, <2>8, LogStep, Zenon
<1>3. ASSUME NEW m \in appendEntries', NEW c \in CellsOf(m) PROVE c.entry.term <= m.term
  <2>1. CASE m \in appendEntries
    BY <1>3, <2>1 DEF TermsOrdered
  <2>2. CASE m \notin appendEntries
    <3>1. /\ m.leader_id \in Server /\ m.term = current_term'[m.leader_id]
          /\ EndOfLog(m, log'[m.leader_id])
      BY <2>2, SenderLeads
    <3>2. c \in CellsOf(LogPiece(log'[m.leader_id]))
      BY <1>3, <3>1 DEF EndOfLog
    <3>3. QED
      BY <1>2, <3>1, <3>2
  <2>3. QED
    BY <2>1, <2>2
<1>4. QED
  BY <1>1, <1>2, <1>3, Zenon DEF TermsOrdered

LEMMA TermsContiguousStep ==
    ASSUME Base, Base', LogInv, TermsOrdered, TermsContiguous, Grows, Shape
    PROVE  TermsContiguous'
<1> SUFFICES ASSUME NEW c \in Cells', NEW d \in Cells',
                    c.entry.term = d.entry.term, c.index < d.index
             PROVE  d.before = d.entry.term
  BY DEF TermsContiguous
<1>1. CASE c \in Cells /\ d \in Cells
  BY <1>1 DEF TermsContiguous
<1>2. ASSUME NEW i \in Server, NEW e \in Entry, Extends(i, e), Cells' = Cells \cup {NewCell(i, e)}
      PROVE  d.before = d.entry.term
  <2> DEFINE new == NewCell(i, e)
  <2>1. log[i] \in Seq(Entry) /\ Len(log[i]) \in Nat /\ current_term[i] \in Nat
    BY LogTyped DEF LogTypes
  <2>2. /\ new.index = Len(log[i]) + 1 /\ new.before = LastTerm(log[i])
        /\ new.entry.term = current_term[i]
    BY <1>2 DEF NewCell, Extends
  <2>3. role[i] = Leader /\ LeaderOwnsTerm
    BY <1>2, Zenon DEF Extends, LogInv
  <2> HIDE DEF new
  <2>4. ASSUME NEW x \in Cells, x.entry.term = current_term[i]
        PROVE  /\ x.index \in 1 .. Len(log[i]) /\ TermAt(log[i], x.index) = current_term[i]
    <3>1. x \in CellsOf(LogPiece(log[i]))
      BY <2>3, <2>4, Zenon DEF LeaderOwnsTerm
    <3>2. QED
      BY <2>4, <3>1, LogCellPlace, Zenon DEF LogCellPlaces
  <2>5. CASE d = new /\ c \in Cells
    <3>1. /\ c.index \in 1 .. Len(log[i]) /\ TermAt(log[i], c.index) = current_term[i]
      BY <2>2, <2>4, <2>5
    <3>2. TermAt(log[i], c.index) <= TermAt(log[i], Len(log[i]))
      BY <2>1, <3>1, LogTermsRise DEF LogsRise
    <3>3. /\ TermAt(log[i], Len(log[i])) \in Nat
          /\ TermAt(log[i], Len(log[i])) <= current_term[i]
      BY <2>1, LogTermsBound DEF LogsBound
    <3>4. QED
      BY <2>1, <2>2, <2>5, <3>1, <3>2, <3>3, LastTermAt
  <2>6. CASE c = new /\ d \in Cells
    <3>1. d.index \in 1 .. Len(log[i])
      BY <2>2, <2>4, <2>6
    <3>2. QED
      BY <2>1, <2>2, <2>6, <3>1
  <2>7. CASE c = new /\ d = new
    BY <2>1, <2>2, <2>7
  <2>8. QED
    BY <1>1, <1>2, <2>5, <2>6, <2>7 DEF new
<1>3. QED
  BY <1>1, <1>2, CellsStep

LEMMA RequestsAlikeStep ==
    ASSUME Base, Base', LogInv, RequestsAlike, Grows, Shape
    PROVE  RequestsAlike'
<1> SUFFICES ASSUME NEW r \in requestVotes', NEW s \in requestVotes',
                    r.candidate_id = s.candidate_id, r.term = s.term
             PROVE  r.last_log_term = s.last_log_term /\ r.last_log_index = s.last_log_index
  BY DEF RequestsAlike
<1>1. ASSUME NEW x \in requestVotes, NEW y \in requestVotes' \ requestVotes,
             x.candidate_id = y.candidate_id, x.term = y.term
      PROVE  FALSE
  <2>1. PICK i \in Server : NewRequestOf(y, i)
    BY <1>1, NewRequest
  <2>2. x.term <= current_term[x.candidate_id]
    BY Zenon DEF LogInv, RequestInv, RequestsRemembered
  <2>3. current_term[i] \in Nat
    BY LogTyped DEF LogTypes
  <2>4. QED
    BY <1>1, <2>1, <2>2, <2>3 DEF NewRequestOf
<1>2. CASE r \notin requestVotes /\ s \notin requestVotes
  <2>1. PICK i \in Server : NewRequestOf(r, i)
    BY <1>2, NewRequest
  <2>2. PICK j \in Server : NewRequestOf(s, j)
    BY <1>2, NewRequest
  <2>3. QED
    BY <2>1, <2>2, Zenon DEF NewRequestOf
<1>3. CASE r \in requestVotes /\ s \in requestVotes
  BY <1>3 DEF RequestsAlike
<1>4. QED
  BY <1>1, <1>2, <1>3

LEMMA RequestsPlacedStep ==
    ASSUME Base, Base', LogInv, TermsOrdered, RequestsPlaced, Grows, Shape
    PROVE  RequestsPlaced'
<1> SUFFICES ASSUME NEW r \in requestVotes'
             PROVE  /\ r.last_log_term < r.term
                    /\ r.last_log_index = 0 => r.last_log_term = 0
                    /\ r.last_log_index # 0 => \E j \in Server : WasLeader(j, r.last_log_term)'
  BY DEF RequestsPlaced
<1>1. r.last_log_term \in Nat
  BY RequestTypedNext DEF RequestTypes
<1>2. ASSUME NEW j \in Server, WasLeader(j, r.last_log_term) PROVE WasLeader(j, r.last_log_term)'
  BY <1>1, <1>2, WasLeaderStays
<1>3. CASE r \in requestVotes
  <2>1. /\ r.last_log_term < r.term
        /\ r.last_log_index = 0 => r.last_log_term = 0
        /\ r.last_log_index # 0 => \E j \in Server : WasLeader(j, r.last_log_term)
    BY <1>3, Zenon DEF RequestsPlaced
  <2>2. QED
    BY <1>2, <2>1
<1>4. CASE r \notin requestVotes
  <2>1. PICK i \in Server : NewRequestOf(r, i)
    BY <1>4, NewRequest
  <2>2. log[i] \in Seq(Entry) /\ Len(log[i]) \in Nat /\ current_term[i] \in Nat
    BY LogTyped DEF LogTypes
  <2>3. r.last_log_index = Len(log[i]) /\ r.last_log_term = TermAt(log[i], Len(log[i]))
    BY <2>1, <2>2, LastTermAt DEF NewRequestOf
  <2>4. TermAt(log[i], Len(log[i])) <= current_term[i]
    BY <2>2, LogTermsBound DEF LogsBound
  <2>5. r.last_log_term < r.term
    BY <1>1, <2>1, <2>2, <2>3, <2>4 DEF NewRequestOf
  <2>6. r.last_log_index = 0 => r.last_log_term = 0
    BY <2>3 DEF TermAt
  <2>7. ASSUME r.last_log_index # 0 PROVE \E j \in Server : WasLeader(j, r.last_log_term)
    <3>1. Len(log[i]) \in 1 .. Len(log[i])
      BY <2>2, <2>3, <2>7
    <3>2. PICK c \in Cells : c.entry.term = TermAt(log[i], Len(log[i]))
      BY <3>1, LogCell DEF LogCellsExist, CellIs
    <3>3. QED
      BY <2>3, <3>2, Zenon DEF LogInv, CellsLed
  <2>8. QED
    BY <1>2, <2>5, <2>6, <2>7
<1>5. QED
  BY <1>3, <1>4

LEMMA RequestsTruthfulStep ==
    ASSUME Base, Base', LogInv, RequestsTruthful, Grows, Shape
    PROVE  RequestsTruthful'
<1> SUFFICES ASSUME NEW r \in requestVotes', NEW i \in Server, r.candidate_id = i,
                    role'[i] # Follower, current_term'[i] = r.term
             PROVE  /\ r.last_log_index <= Len(log'[i])
                    /\ TermAt(log'[i], r.last_log_index) = r.last_log_term
  BY RequestTypedNext DEF RequestsTruthful, RequestTypes
<1>1. log[i] \in Seq(Entry) /\ Len(log[i]) \in Nat /\ current_term[i] \in Nat
  BY LogTyped DEF LogTypes
<1>2. CASE r \in requestVotes
  <2>1. r.term <= current_term[i] /\ current_term[i] <= current_term'[i] /\ r.term \in Nat
    BY <1>2, RequestTyped, Zenon DEF LogInv, RequestInv, RequestsRemembered, Grows, RequestTypes
  <2>2. current_term'[i] = current_term[i] /\ current_term[i] = r.term
    BY <1>1, <2>1
  <2>3. role[i] # Follower /\ LogGrows(log[i], log'[i])
    BY <2>2, NonFollowerStep, Zenon
  <2>4. /\ r.last_log_index <= Len(log[i])
        /\ TermAt(log[i], r.last_log_index) = r.last_log_term
    BY <1>2, <2>2, <2>3, Zenon DEF RequestsTruthful
  <2>5. r.last_log_index \in Nat /\ Len(log'[i]) \in Nat
    BY <1>2, RequestTyped, LogTypedNext DEF RequestTypes, LogTypes
  <2>6. QED
    BY <1>1, <2>3, <2>4, <2>5 DEF LogGrows
<1>3. CASE r \notin requestVotes
  <2>1. PICK j \in Server : Campaigns(j) /\ NewRequestOf(r, j)
    BY <1>3, NewRequest
  <2>2. log' = log /\ i = j /\ r.last_log_index = Len(log[i]) /\ r.last_log_term = LastTerm(log[i])
    BY <2>1, Zenon DEF Campaigns, NewRequestOf
  <2>3. QED
    BY <1>1, <2>2, LastTermAt
<1>4. QED
  BY <1>2, <1>3

LEMMA RequestsBoundedStep ==
    ASSUME Base, Base', LogInv, LogInv', RequestsPlaced, RequestsBounded, Grows, Shape
    PROVE  RequestsBounded'
<1> SUFFICES ASSUME NEW r \in requestVotes', NEW j \in Server,
                    role'[j] = Leader, current_term'[j] = r.last_log_term
             PROVE  r.last_log_index <= Len(log'[j])
  BY DEF RequestsBounded
<1>1. r.last_log_index \in Nat /\ Len(log[j]) \in Nat /\ Len(log'[j]) \in Nat
  BY RequestTypedNext, LogTyped, LogTypedNext DEF RequestTypes, LogTypes
<1>2. CASE r.last_log_index = 0
  BY <1>1, <1>2
<1>3. CASE r.last_log_index # 0 /\ r \in requestVotes
  <2>1. PICK x \in Server : WasLeader(x, r.last_log_term)
    BY <1>3 DEF RequestsPlaced
  <2>2. role[j] = Leader /\ current_term'[j] = current_term[j] /\ LogGrows(log[j], log'[j])
    BY <2>1, LeaderStep
  <2>3. r.last_log_index <= Len(log[j])
    BY <1>3, <2>2, Zenon DEF RequestsBounded
  <2>4. QED
    BY <1>1, <2>2, <2>3 DEF LogGrows
<1>4. CASE r.last_log_index # 0 /\ r \notin requestVotes
  <2>1. PICK i \in Server : Campaigns(i) /\ NewRequestOf(r, i)
    BY <1>4, NewRequest
  <2>2. log' = log
    BY <2>1, Zenon DEF Campaigns
  <2>3. log'[i] \in Seq(Entry) /\ Len(log'[i]) \in Nat
    BY LogTypedNext DEF LogTypes
  <2>4. r.last_log_index = Len(log'[i]) /\ r.last_log_term = TermAt(log'[i], Len(log'[i]))
    BY <2>1, <2>2, <2>3, LastTermAt DEF NewRequestOf
  <2>5. r.last_log_index \in 1 .. Len(log'[i])
    BY <1>1, <1>4, <2>4
  <2>6. PICK c \in Cells' : c.index = r.last_log_index /\ c.entry.term = r.last_log_term
    BY <2>4, <2>5, LogCellNext DEF LogCellsExist, CellIs
  <2>7. LeaderOwnsTerm'
    BY Zenon DEF LogInv
  <2>8. c \in CellsOf(LogPiece(log'[j]))
    BY <2>6, <2>7 DEF LeaderOwnsTerm
  <2>9. c.index \in 1 .. Len(log'[j])
    BY <2>8, LogCellPlaceNext DEF LogCellPlaces
  <2>10. QED
    BY <1>1, <2>6, <2>9
<1>5. QED
  BY <1>2, <1>3, <1>4

\* A leader elected after term t, had nobody been overruled by then, would have led
\* term t itself: the first one after it is behind every later entry of t's leader.
LEMMA UpstartOverrules ==
    ASSUME Base, LogInv, RequestsPlaced, RequestsBounded, NEW i \in Server, role[i] = Leader,
           NEW x \in Server, NEW u \in Nat, WasLeader(x, u), current_term[i] < u
    PROVE  Overruled(Len(log[i]) + 1, current_term[i], u)
<1> DEFINE t == current_term[i]
           S == {v \in Nat : t < v /\ v <= u /\
                             \E r \in requestVotes : r.term = v /\ Elected(r.candidate_id, v)}
<1>1. t \in Nat /\ Len(log[i]) \in Nat /\ RequestInv /\ VotesRequested
  BY LogTyped, Zenon DEF LogTypes, LogInv, RequestInv
<1>2. ASSUME NEW j \in Server, NEW v \in Nat, t < v, v <= u, WasLeader(j, v)
      PROVE  v \in S
  <2>1. Elected(j, v) /\ v <= current_term[j]
    BY <1>2, Zenon DEF WasLeader
  <2>2. Server # {j}
    BY <1>1, <1>2, <2>1
  <2>3. PICK r \in requestVotes : r.candidate_id = j /\ r.term = v
    BY <1>1, <2>1, <2>2, ElectedRequested
  <2>4. QED
    BY <1>2, <2>1, <2>3
<1>3. u \in S /\ S \in SUBSET Nat
  BY <1>2
<1> HIDE DEF S
<1>4. PICK v \in S : \A w \in S : v <= w
  BY <1>3, LeastNumber
<1>5. v \in Nat /\ t < v /\ v <= u
  BY <1>4 DEF S
<1>6. PICK r \in requestVotes : r.term = v /\ Elected(r.candidate_id, v)
  BY <1>4 DEF S
<1>7. /\ r.last_log_term \in Nat /\ r.last_log_index \in Nat
      /\ r.last_log_term < v
      /\ r.last_log_index = 0 => r.last_log_term = 0
      /\ r.last_log_index # 0 => \E j \in Server : WasLeader(j, r.last_log_term)
  BY <1>6, RequestTyped, Zenon DEF RequestTypes, RequestsPlaced
<1>8. r.last_log_term <= t
  <2>1. SUFFICES ASSUME t < r.last_log_term PROVE FALSE
    BY <1>1, <1>7
  <2>2. r.last_log_index # 0
    BY <1>1, <1>7, <2>1
  <2>3. PICK j \in Server : WasLeader(j, r.last_log_term)
    BY <1>7, <2>2
  <2>4. r.last_log_term <= u /\ ~(v <= r.last_log_term)
    BY <1>5, <1>7
  <2>5. r.last_log_term \in S
    BY <1>2, <1>7, <2>1, <2>3, <2>4
  <2>6. QED
    BY <1>4, <2>4, <2>5
<1>9. Behind(r.last_log_term, r.last_log_index, t, Len(log[i]) + 1)
  <2>1. CASE r.last_log_term = t
    <3>1. r.last_log_index <= Len(log[i])
      BY <2>1 DEF RequestsBounded
    <3>2. QED
      BY <1>1, <1>7, <2>1, <3>1 DEF Behind
  <2>2. CASE r.last_log_term # t
    BY <1>1, <1>7, <1>8, <2>2 DEF Behind
  <2>3. QED
    BY <2>1, <2>2
<1>10. QED
  BY <1>5, <1>6, <1>9 DEF Overruled

\* What a leader finds at the end of its log, against an entry of an earlier term.
LEMMA LeaderCovers ==
    ASSUME Base, LogInv, TermsOrdered, TermsContiguous, CellsOrdered, RequestsTruthful,
           NEW i \in Server, role[i] = Leader,
           NEW c \in Cells, c.entry.term < current_term[i],
           ~Overruled(c.index, c.entry.term, current_term[i])
    PROVE  /\ c.index <= Len(log[i]) /\ c.entry.term <= LastTerm(log[i])
           /\ TermAt(log[i], c.index) = c.entry.term
<1> DEFINE l == log[i]
           t == c.entry.term
<1>1. l \in Seq(Entry) /\ Len(l) \in Nat /\ current_term[i] \in Nat
  BY LogTyped DEF LogTypes
<1>2. c.index \in Nat /\ c.index >= 1 /\ t \in Nat
  BY CellTyped DEF CellTypes
<1>3. Elected(i, current_term[i]) /\ VotesRequested
  BY LeaderElected, Zenon DEF LogInv, RequestInv
<1>4. SUFFICES c.index <= Len(l) /\ TermAt(l, c.index) = t
  <2>1. ASSUME c.index <= Len(l), TermAt(l, c.index) = t PROVE t <= LastTerm(l)
    <3>1. TermAt(l, c.index) <= TermAt(l, Len(l))
      BY <1>1, <1>2, <2>1, LogTermsRise DEF LogsRise
    <3>2. QED
      BY <1>1, <2>1, <3>1, LastTermAt, Zenon
  <2>2. QED
    BY <1>4, <2>1
<1>5. CASE Server = {i}
  <2>1. ASSUME NEW m \in appendEntries PROVE FALSE
    <3>1. m.leader_id # m.to
      BY Zenon DEF LogInv, AppendsLed
    <3>2. m.leader_id \in Server /\ m.to \in Server
      BY AppendTyped DEF AppendTypes
    <3>3. QED
      BY <1>5, <3>1, <3>2
  <2>2. PICK j \in Server : c \in CellsOf(LogPiece(log[j]))
    BY <2>1, CellOrigin, Zenon
  <2>3. c \in CellsOf(LogPiece(l))
    BY <1>5, <2>2
  <2>4. c.index \in 1 .. Len(l) /\ TermAt(l, c.index) = t
    BY <2>3, LogCellPlace, Zenon DEF LogCellPlaces
  <2>5. QED
    BY <1>1, <2>4
<1>6. CASE Server # {i}
  <2>1. PICK r \in requestVotes : r.candidate_id = i /\ r.term = current_term[i]
    BY <1>3, <1>6, ElectedRequested
  <2>2. r.last_log_term \in Nat /\ r.last_log_index \in Nat
    BY RequestTyped DEF RequestTypes
  <2>3. ~Behind(r.last_log_term, r.last_log_index, t, c.index)
    <3>1. r.term <= current_term[i]
      BY <1>1, <2>1
    <3>2. Elected(r.candidate_id, r.term)
      BY <1>3, <2>1
    <3>3. QED
      BY <2>1, <3>1, <3>2, Zenon DEF Overruled
  <2>4. r.last_log_index <= Len(l) /\ TermAt(l, r.last_log_index) = r.last_log_term
    BY <2>1 DEF RequestsTruthful, Leader, Follower
  <2>5. r.last_log_index # 0
    <3>1. SUFFICES ASSUME r.last_log_index = 0 PROVE FALSE
      OBVIOUS
    <3>2. r.last_log_term = 0
      BY <2>4, <3>1 DEF TermAt
    <3>3. QED
      BY <1>2, <2>2, <2>3, <3>1, <3>2 DEF Behind
  <2>6. r.last_log_index \in 1 .. Len(l)
    BY <1>1, <2>2, <2>4, <2>5
  <2>7. r.last_log_term <= current_term[i]
    BY <2>2, <2>4, LogTermsBound DEF LogsBound
  <2>8. ~Overruled(c.index, t, r.last_log_term)
    BY <1>1, <2>2, <2>7, OverruledLater
  <2>9. c.index <= r.last_log_index /\ TermAt(l, c.index) = t
    BY <2>3, <2>4, <2>6, <2>8, LogContains, Zenon DEF LogsContain
  <2>10. QED
    BY <1>1, <1>2, <2>2, <2>4, <2>9
<1>7. QED
  BY <1>5, <1>6

LEMMA CellsOrderedStep ==
    ASSUME Base, Base', LogInv, OrderInv, Grows, Shape
    PROVE  CellsOrdered'
<1> SUFFICES ASSUME NEW c \in Cells', NEW d \in Cells', c.entry.term < d.entry.term
             PROVE  \/ Overruled(c.index, c.entry.term, d.entry.term)'
                    \/ c.index < d.index /\ c.entry.term <= d.before
  BY DEF CellsOrdered
<1>1. ASSUME Overruled(c.index, c.entry.term, d.entry.term)
      PROVE  Overruled(c.index, c.entry.term, d.entry.term)'
  BY <1>1, OverruledStays
<1>2. CASE c \in Cells /\ d \in Cells
  BY <1>1, <1>2, Zenon DEF OrderInv, CellsOrdered
<1>3. ASSUME NEW i \in Server, NEW e \in Entry, Extends(i, e), Cells' = Cells \cup {NewCell(i, e)}
      PROVE  \/ Overruled(c.index, c.entry.term, d.entry.term)
             \/ c.index < d.index /\ c.entry.term <= d.before
             \/ c \in Cells /\ d \in Cells
  <2> DEFINE new == NewCell(i, e)
  <2>1. log[i] \in Seq(Entry) /\ Len(log[i]) \in Nat /\ current_term[i] \in Nat
    BY LogTyped DEF LogTypes
  <2>2. /\ new.index = Len(log[i]) + 1 /\ new.before = LastTerm(log[i])
        /\ new.entry.term = current_term[i]
    BY <1>3, Zenon DEF NewCell, Extends
  <2>3. role[i] = Leader
    BY <1>3, Zenon DEF Extends
  <2> HIDE DEF new
  <2>4. CASE d = new /\ c \in Cells
    <3>1. CASE Overruled(c.index, c.entry.term, current_term[i])
      BY <2>2, <2>4, <3>1
    <3>2. CASE ~Overruled(c.index, c.entry.term, current_term[i])
      <4>1. c.index <= Len(log[i]) /\ c.entry.term <= LastTerm(log[i])
        BY <2>2, <2>3, <2>4, <3>2, LeaderCovers, Zenon DEF OrderInv
      <4>2. c.index \in Nat
        BY <2>4, CellTyped DEF CellTypes
      <4>3. QED
        BY <2>1, <2>2, <2>4, <4>1, <4>2
    <3>3. QED
      BY <3>1, <3>2, Zenon
  <2>5. CASE c = new /\ d \in Cells
    <3>1. PICK x \in Server : WasLeader(x, d.entry.term)
      BY <2>5, Zenon DEF LogInv, CellsLed
    <3>2. d.entry.term \in Nat /\ current_term[i] < d.entry.term
      BY <2>2, <2>5, CellTyped DEF CellTypes
    <3>3. Overruled(Len(log[i]) + 1, current_term[i], d.entry.term)
      BY <2>3, <3>1, <3>2, UpstartOverrules, Zenon DEF OrderInv
    <3>4. QED
      BY <2>2, <2>5, <3>3, Zenon
  <2>6. CASE c = new /\ d = new
    BY <2>1, <2>2, <2>6
  <2>7. QED
    BY <1>3, <2>4, <2>5, <2>6, Zenon DEF new
<1>4. QED
  BY <1>1, <1>2, <1>3, CellsStep, Zenon

LEMMA AppendsOwnStep ==
    ASSUME Base, Base', LogInv, LogInv', ProgressInv, OrderInv, TermsOrdered', Grows, Shape
    PROVE  AppendsOwn'
<1> DEFINE Own(m, c) ==
      /\ \A k \in m.prev_log_index .. LastIndex(m) : c.index <= k => PieceTerm(m, k) = m.term
      /\ c.before < m.term =>
            /\ c.index <= LastIndex(m) + 1
            /\ c.index = LastIndex(m) + 1 => PieceTerm(m, LastIndex(m)) = c.before
<1> SUFFICES ASSUME NEW m \in appendEntries', NEW c \in Cells', c.entry.term = m.term
             PROVE  Own(m, c)
  BY DEF AppendsOwn
<1>1. c.index \in Nat /\ c.index >= 1 /\ m.term \in Nat
  BY CellTypedNext, AppendTypedNext DEF CellTypes, AppendTypes
<1>2. m.prev_log_index \in Nat /\ LastIndex(m) \in Nat
  BY AppendTypedNext DEF AppendTypes
<1>3. CASE m \in appendEntries /\ c \in Cells
  BY <1>3 DEF OrderInv, AppendsOwn
<1>4. CASE m \notin appendEntries
  <2> DEFINE j == m.leader_id
  <2>1. /\ j \in Server /\ m.term = current_term'[j] /\ role'[j] = Leader
        /\ EndOfLog(m, log'[j])
    BY <1>4, SenderLeads, Zenon
  <2>2. LeaderOwnsTerm'
    BY Zenon DEF LogInv
  <2>3. c \in CellsOf(LogPiece(log'[j]))
    BY <2>1, <2>2, Zenon DEF LeaderOwnsTerm
  <2>4. c.index \in 1 .. Len(log'[j]) /\ TermAt(log'[j], c.index) = m.term
    BY <2>1, <2>3, LogCellPlaceNext, Zenon DEF LogCellPlaces
  <2>5. /\ LastIndex(m) = Len(log'[j])
        /\ \A k \in m.prev_log_index .. LastIndex(m) : PieceTerm(m, k) = TermAt(log'[j], k)
    BY <2>1, Zenon DEF EndOfLog
  <2>6. ASSUME NEW k \in m.prev_log_index .. LastIndex(m), c.index <= k
        PROVE  PieceTerm(m, k) = m.term
    <3>1. k \in Nat /\ k <= Len(log'[j])
      BY <1>2, <2>5
    <3>2. TermAt(log'[j], c.index) <= TermAt(log'[j], k)
      BY <1>1, <2>1, <2>6, <3>1, LogTermsRiseNext, Zenon DEF LogsRise
    <3>3. TermAt(log'[j], k) \in Nat /\ TermAt(log'[j], k) <= m.term
      BY <2>1, <3>1, LogTermsBoundNext, Zenon DEF LogsBound
    <3>4. QED
      BY <1>1, <2>4, <2>5, <3>2, <3>3
  <2>7. c.index <= LastIndex(m)
    BY <1>1, <1>2, <2>4, <2>5
  <2>8. QED
    BY <1>1, <1>2, <2>6, <2>7
<1>5. ASSUME NEW i \in Server, NEW e \in Entry, Extends(i, e), c = NewCell(i, e), m \in appendEntries
      PROVE  Own(m, c)
  <2>1. log[i] \in Seq(Entry) /\ Len(log[i]) \in Nat /\ current_term[i] \in Nat
    BY LogTyped DEF LogTypes
  <2>2. /\ c.index = Len(log[i]) + 1 /\ c.before = LastTerm(log[i])
        /\ c.entry.term = current_term[i]
    BY <1>5, Zenon DEF NewCell, Extends
  <2>3. role[i] = Leader
    BY <1>5, Zenon DEF Extends
  <2>4. m.leader_id = i
    <3>1. WasLeader(m.leader_id, m.term) /\ RequestInv
      BY <1>5, Zenon DEF LogInv, AppendsLed
    <3>2. Elected(i, m.term)
      BY <2>2, <2>3, LeaderElected
    <3>3. m.leader_id \in Server
      BY <1>5, AppendTyped DEF AppendTypes
    <3>4. QED
      BY <3>1, <3>2, <3>3, LeadersUnique
  <2>5. /\ LastIndex(m) <= Len(log[i])
        /\ \A k \in m.prev_log_index .. LastIndex(m) : TermAt(log[i], k) = PieceTerm(m, k)
    BY <1>5, <2>2, <2>3, <2>4, Zenon DEF ProgressInv, AppendsFromLog
  <2>6. ASSUME c.before < m.term
        PROVE  /\ c.index <= LastIndex(m) + 1
               /\ c.index = LastIndex(m) + 1 => PieceTerm(m, LastIndex(m)) = c.before
    <3>1. LastIndex(m) = Len(log[i])
      <4>1. SUFFICES ASSUME LastIndex(m) < Len(log[i]) PROVE FALSE
        BY <1>2, <2>1, <2>5
      <4>2. TermAt(log[i], LastIndex(m) + 1) = m.term
        BY <1>5, <2>2, <2>3, <2>4, <4>1, Zenon DEF OrderInv, AppendsContinued
      <4>3. TermAt(log[i], LastIndex(m) + 1) <= TermAt(log[i], Len(log[i]))
        BY <1>2, <2>1, <4>1, LogTermsRise DEF LogsRise, OrderInv
      <4>4. TermAt(log[i], Len(log[i])) \in Nat
        BY <2>1, LogTermsBound DEF LogsBound, OrderInv
      <4>5. TermAt(log[i], Len(log[i])) < m.term
        BY <2>1, <2>2, <2>6, LastTermAt
      <4>6. QED
        BY <1>1, <4>2, <4>3, <4>4, <4>5
    <3>2. LastIndex(m) \in m.prev_log_index .. LastIndex(m)
      <4>1. m.prev_log_index <= LastIndex(m)
        BY <1>5, AppendTyped, Zenon DEF AppendTypes
      <4>2. QED
        BY <1>2, <4>1
    <3>3. PieceTerm(m, LastIndex(m)) = LastTerm(log[i])
      BY <2>1, <2>5, <3>1, <3>2, LastTermAt, Zenon
    <3>4. QED
      BY <2>1, <2>2, <3>1, <3>3
  <2>7. \A k \in m.prev_log_index .. LastIndex(m) : ~(c.index <= k)
    BY <1>2, <2>1, <2>2, <2>5
  <2>8. QED
    BY <2>6, <2>7, Zenon
<1> HIDE DEF Own
<1>6. QED
  BY <1>3, <1>4, <1>5, CellsStep, Zenon

LEMMA AppendsElectedStep ==
    ASSUME Base, Base', LogInv, AppendsElected, RequestsTruthful', TermsOrdered', Grows, Shape
    PROVE  AppendsElected'
<1> SUFFICES ASSUME NEW m \in appendEntries', NEW r \in requestVotes',
                    r.candidate_id = m.leader_id, r.term = m.term
             PROVE  ~Behind(PieceTerm(m, LastIndex(m)), LastIndex(m),
                            r.last_log_term, r.last_log_index)
  BY Zenon DEF AppendsElected
<1>1. CASE m \in appendEntries /\ r \in requestVotes
  BY <1>1, Zenon DEF AppendsElected
<1>2. CASE m \in appendEntries /\ r \notin requestVotes
  <2>1. PICK i \in Server : NewRequestOf(r, i)
    BY <1>2, NewRequest
  <2>2. WasLeader(m.leader_id, m.term)
    BY <1>2, Zenon DEF LogInv, AppendsLed
  <2>3. m.term <= current_term[m.leader_id]
    BY <2>2, Zenon DEF WasLeader
  <2>4. current_term[i] \in Nat
    BY LogTyped DEF LogTypes
  <2>5. m.term = current_term[i] + 1 /\ m.leader_id = i
    BY <2>1, Zenon DEF NewRequestOf
  <2>6. QED
    BY <2>3, <2>4, <2>5
<1>3. CASE m \notin appendEntries
  <2> DEFINE j == m.leader_id
  <2>1. /\ j \in Server /\ m.term = current_term'[j] /\ role'[j] = Leader
        /\ EndOfLog(m, log'[j])
    BY <1>3, SenderLeads, Zenon
  <2>2. /\ r.last_log_index <= Len(log'[j])
        /\ TermAt(log'[j], r.last_log_index) = r.last_log_term
    BY <2>1, Zenon DEF RequestsTruthful, Leader, Follower
  <2>3. r.last_log_term \in Nat /\ r.last_log_index \in Nat
    BY RequestTypedNext DEF RequestTypes
  <2>4. /\ m.prev_log_index \in Nat /\ LastIndex(m) \in Nat /\ m.prev_log_index <= LastIndex(m)
        /\ PieceTerm(m, LastIndex(m)) \in Nat
    BY AppendTypedNext, Zenon DEF AppendTypes
  <2>5. LastIndex(m) = Len(log'[j])
    BY <2>1, Zenon DEF EndOfLog
  <2>6. PieceTerm(m, LastIndex(m)) = TermAt(log'[j], LastIndex(m))
    <3>1. LastIndex(m) \in m.prev_log_index .. LastIndex(m)
      BY <2>4
    <3>2. QED
      BY <2>1, <3>1, Zenon DEF EndOfLog
  <2>7. TermAt(log'[j], r.last_log_index) <= TermAt(log'[j], LastIndex(m))
    <3>1. r.last_log_index <= LastIndex(m) /\ LastIndex(m) <= Len(log'[j])
      BY <2>2, <2>4, <2>5
    <3>2. QED
      BY <2>1, <2>3, <2>4, <3>1, LogTermsRiseNext, Zenon DEF LogsRise
  <2>8. r.last_log_term <= PieceTerm(m, LastIndex(m)) /\ r.last_log_index <= LastIndex(m)
    BY <2>2, <2>5, <2>6, <2>7, Zenon
  <2>9. QED
    BY <2>3, <2>4, <2>8, NotBehindFacts, Zenon
<1>4. QED
  BY <1>1, <1>2, <1>3, Zenon

LEMMA AppendsContinuedStep ==
    ASSUME Base, Base', LogInv, AppendsContinued, Grows, Shape
    PROVE  AppendsContinued'
<1> SUFFICES ASSUME NEW m \in appendEntries', NEW j \in Server, m.leader_id = j,
                    role'[j] = Leader, current_term'[j] = m.term, LastIndex(m) < Len(log'[j])
             PROVE  TermAt(log'[j], LastIndex(m) + 1) = m.term
  BY AppendTypedNext, Zenon DEF AppendsContinued, AppendTypes
<1>1. LastIndex(m) \in Nat /\ Len(log[j]) \in Nat /\ Len(log'[j]) \in Nat
  BY AppendTypedNext, LogTyped, LogTypedNext, Zenon DEF AppendTypes, LogTypes
<1>2. CASE m \notin appendEntries
  <2>1. EndOfLog(m, log'[j])
    BY <1>2, SenderLeads, Zenon
  <2>2. LastIndex(m) = Len(log'[j])
    BY <2>1, Zenon DEF EndOfLog
  <2>3. QED
    BY <1>1, <2>2
<1>3. CASE m \in appendEntries
  <2>1. WasLeader(j, m.term)
    BY <1>3, Zenon DEF LogInv, AppendsLed
  <2>2. role[j] = Leader /\ current_term'[j] = current_term[j] /\ LogGrows(log[j], log'[j])
    BY <2>1, LeaderStep, Zenon
  <2>3. CASE LastIndex(m) < Len(log[j])
    <3>1. TermAt(log[j], LastIndex(m) + 1) = m.term
      BY <1>3, <2>2, <2>3, Zenon DEF AppendsContinued
    <3>2. LastIndex(m) + 1 \in 0 .. Len(log[j])
      BY <1>1, <2>3
    <3>3. QED
      BY <2>2, <3>1, <3>2, Zenon DEF LogGrows
  <2>4. CASE ~(LastIndex(m) < Len(log[j]))
    <3>1. LastIndex(m) + 1 \in Nat /\ Len(log[j]) < LastIndex(m) + 1 /\ LastIndex(m) + 1 <= Len(log'[j])
      BY <1>1, <2>4
    <3>2. role'[j] # Follower
      BY DEF Leader, Follower
    <3>3. \A k \in Nat : Len(log[j]) < k /\ k <= Len(log'[j]) => TermAt(log'[j], k) = current_term[j]
      BY <2>2, <3>2, NonFollowerStep, Zenon
    <3>4. QED
      BY <2>2, <3>1, <3>3
  <2>5. QED
    BY <2>3, <2>4
<1>4. QED
  BY <1>2, <1>3

LEMMA OrderInvStep ==
    ASSUME Base, Base', LogInv, LogInv', ProgressInv, OrderInv, Grows, Shape
    PROVE  OrderInv'
<1>1. /\ TermsOrdered /\ TermsContiguous /\ CellsOrdered
      /\ RequestsAlike /\ RequestsPlaced /\ RequestsTruthful /\ RequestsBounded
      /\ AppendsOwn /\ AppendsElected /\ AppendsContinued
  BY Zenon DEF OrderInv
<1>2. TermsOrdered' /\ TermsContiguous' /\ CellsOrdered'
  BY <1>1, TermsOrderedStep, TermsContiguousStep, CellsOrderedStep, Zenon
<1>3. RequestsAlike' /\ RequestsPlaced' /\ RequestsTruthful' /\ RequestsBounded'
  BY <1>1, RequestsAlikeStep, RequestsPlacedStep, RequestsTruthfulStep, RequestsBoundedStep, Zenon
<1>4. AppendsOwn' /\ AppendsElected' /\ AppendsContinued'
  BY <1>1, <1>2, <1>3, AppendsOwnStep, AppendsElectedStep, AppendsContinuedStep, Zenon
<1>5. QED
  BY <1>2, <1>3, <1>4, Zenon DEF OrderInv
=============================================================================
