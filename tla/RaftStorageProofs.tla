------------------------- MODULE RaftStorageProofs -------------------------
(***************************************************************************)
(* A node gives one vote per term over the whole life of its disk, however *)
(* often and wherever its process dies, for any ids, terms and leaders.    *)
(***************************************************************************)
EXTENDS RaftStorage, TLAPS

\* A leaf that names no prover is tried with each of these, in this order.
USE SMT, Zenon, SMTT(60), ZenonT(60)

Id == Peer \cup {Self}

\* The vote of the term on disk, as the votes that were given away must have it.
\* raft_meta is what a running node has in memory; every vote is of the term on disk, and
\* then for the candidate on disk, or of an earlier term.
VoteInv ==
    /\ up \in BOOLEAN
    /\ raft_meta.current_term \in Nat /\ raft_meta.voted_for \in Id \cup {0}
    /\ up => current_term = raft_meta.current_term /\ voted_for = SavedVote(raft_meta)
    /\ pc = "vote" => msg.candidate_id \in Peer
    /\ votes \subseteq Nat \X Id
    /\ \A v \in votes : /\ v[1] <= raft_meta.current_term
                        /\ v[1] = raft_meta.current_term => v[2] = raft_meta.voted_for
    /\ OneVotePerTerm

\* What a step may do to the record on disk: keep its term and vote, move to a later
\* term, or fill in the vote of the term.
MetaStep(m, n) ==
    \/ n.current_term = m.current_term /\ n.voted_for = m.voted_for
    \/ n.current_term > m.current_term
    \/ n.current_term = m.current_term /\ m.voted_for = 0

-----------------------------------------------------------------------------
(* The record on disk                                                      *)

LEMMA SaveFields ==
    ASSUME NEW c, NEW t, NEW v
    PROVE  /\ Save(c, t, v).current_term = t
           /\ Save(c, t, v).voted_for = IF v = None THEN 0 ELSE v
BY DEF Save

\* What is saved is what RaftMeta::open returns.
LEMMA SaveOpen ==
    ASSUME NEW c, NEW t, NEW v \in Id \cup {None}
    PROVE  SavedVote(Save(c, t, v)) = v /\ Save(c, t, v).voted_for \in Id \cup {0}
BY IdsFromOne, SaveFields DEF SavedVote, Id

\* And the other way round.
LEMMA OpenSave ==
    ASSUME NEW m, m.voted_for \in Id \cup {0}, NEW c, NEW t
    PROVE  SavedVote(m) \in Id \cup {None} /\ Save(c, t, SavedVote(m)).voted_for = m.voted_for
BY IdsFromOne, SaveFields DEF SavedVote, Id

-----------------------------------------------------------------------------
(* The kinds of steps                                                      *)

\* No vote is given: the term on disk grows and its vote is cleared, or both stay.
LEMMA NoVote ==
    ASSUME VoteInv, up' \in BOOLEAN, UNCHANGED votes,
           raft_meta'.current_term \in Nat, raft_meta'.voted_for \in Id \cup {0},
           \/ raft_meta'.current_term > raft_meta.current_term
           \/ /\ raft_meta'.current_term = raft_meta.current_term
              /\ raft_meta'.voted_for = raft_meta.voted_for,
           up' => current_term' = raft_meta'.current_term /\ voted_for' = SavedVote(raft_meta'),
           pc' = "vote" => msg'.candidate_id \in Peer
    PROVE  VoteInv' /\ MetaStep(raft_meta, raft_meta')
<1>1. \A v \in votes' : /\ v[1] <= raft_meta'.current_term
                        /\ v[1] = raft_meta'.current_term => v[2] = raft_meta'.voted_for
  <2> SUFFICES ASSUME NEW v \in votes
               PROVE  /\ v[1] <= raft_meta'.current_term
                      /\ v[1] = raft_meta'.current_term => v[2] = raft_meta'.voted_for
    OBVIOUS
  <2>1. v[1] \in Nat /\ v[1] <= raft_meta.current_term /\ raft_meta.current_term \in Nat
    BY DEF VoteInv
  <2>2. v[1] = raft_meta.current_term => v[2] = raft_meta.voted_for
    BY DEF VoteInv
  <2>3. QED
    BY <2>1, <2>2
<1>2. OneVotePerTerm' /\ votes' \subseteq Nat \X Id
  BY DEF VoteInv, OneVotePerTerm
<1>3. MetaStep(raft_meta, raft_meta')
  BY DEF MetaStep
<1>4. QED
  BY <1>1, <1>2, <1>3 DEF VoteInv

\* A vote is given: it is on disk, and it is the first of its term or the same again.
LEMMA GiveVote ==
    ASSUME VoteInv, UNCHANGED up, NEW t \in Nat, NEW c \in Id,
           \/ t > raft_meta.current_term
           \/ t = raft_meta.current_term /\ raft_meta.voted_for \in {0, c},
           raft_meta'.current_term = t, raft_meta'.voted_for = c,
           current_term' = t, voted_for' = c,
           votes' = votes \cup {<<t, c>>},
           pc' # "vote"
    PROVE  VoteInv' /\ MetaStep(raft_meta, raft_meta')
<1>1. ASSUME NEW v \in votes
      PROVE  v[1] \in Nat /\ v[2] \in Id /\ v[1] <= t /\ (v[1] = t => v[2] = c)
  <2>1. v[1] \in Nat /\ v[2] \in Id /\ v[1] <= raft_meta.current_term
        /\ raft_meta.current_term \in Nat
    BY DEF VoteInv
  <2>2. v[1] = raft_meta.current_term => v[2] = raft_meta.voted_for
    BY DEF VoteInv
  <2>3. v[2] # 0
    BY <2>1, IdsFromOne DEF Id
  <2>4. QED
    BY <2>1, <2>2, <2>3
<1>2. ASSUME NEW v \in votes'
      PROVE  v[1] <= raft_meta'.current_term
             /\ (v[1] = raft_meta'.current_term => v[2] = raft_meta'.voted_for)
  BY <1>1
<1>3. OneVotePerTerm'
  <2> SUFFICES ASSUME NEW v \in votes', NEW w \in votes', v[1] = w[1] PROVE v[2] = w[2]
    BY DEF OneVotePerTerm
  <2>1. CASE v \in votes /\ w \in votes
    BY <2>1 DEF VoteInv, OneVotePerTerm
  <2>2. CASE v = <<t, c>> \/ w = <<t, c>>
    BY <1>1, <2>2
  <2>3. QED
    BY <2>1, <2>2
<1>4. votes' \subseteq Nat \X Id
  BY DEF VoteInv
<1>5. up' => voted_for' = SavedVote(raft_meta')
  BY IdsFromOne DEF SavedVote, Id
<1>6. MetaStep(raft_meta, raft_meta')
  <2>1. CASE t > raft_meta.current_term
    BY <2>1 DEF MetaStep
  <2>2. CASE t = raft_meta.current_term /\ raft_meta.voted_for \in {0, c}
    BY <2>2 DEF MetaStep
  <2>3. QED
    BY <2>1, <2>2
<1>7. QED
  BY <1>2, <1>3, <1>4, <1>5, <1>6 DEF VoteInv

-----------------------------------------------------------------------------
(* Every step                                                              *)

\* A step of a running node, or its death, that leaves the record alone.
LEMMA DiskUntouched ==
    ASSUME VoteInv, up' \in BOOLEAN, UNCHANGED <<raft_meta, votes>>,
           up' => up /\ UNCHANGED <<current_term, voted_for>>,
           pc' = "vote" => msg'.candidate_id \in Peer
    PROVE  VoteInv' /\ MetaStep(raft_meta, raft_meta')
BY NoVote DEF VoteInv

LEMMA SteppedDown ==
    ASSUME VoteInv, up, UNCHANGED <<up, votes>>, NEW t \in Nat, t > current_term, StepDown(t),
           pc' = "vote" => msg'.candidate_id \in Peer
    PROVE  VoteInv' /\ MetaStep(raft_meta, raft_meta')
<1>1. /\ raft_meta' = Save(commit_index, t, None) /\ current_term' = t /\ voted_for' = None
      /\ None \in Id \cup {None}
  BY DEF StepDown, PersistMeta
<1>2. /\ raft_meta'.current_term = t /\ raft_meta'.voted_for \in Id \cup {0}
      /\ SavedVote(raft_meta') = None
  BY <1>1, SaveFields, SaveOpen
<1>3. QED
  BY <1>1, <1>2, NoVote DEF VoteInv

LEMMA VoteStep == VoteInv /\ [Next]_vars => VoteInv' /\ MetaStep(raft_meta, raft_meta')
<1> SUFFICES ASSUME VoteInv, [Next]_vars
             PROVE  VoteInv' /\ MetaStep(raft_meta, raft_meta')
  OBVIOUS
<1>m. MaxTerm \in Nat /\ Term \subseteq Nat /\ Elected \subseteq Nat
  BY TermBound DEF Term
<1>1. CASE StartElection
  <2>1. /\ up /\ UNCHANGED <<up, pc>> /\ pc = "idle"
        /\ raft_meta' = Save(commit_index, current_term + 1, Self)
        /\ current_term' = current_term + 1 /\ voted_for' = Self
        /\ votes' = votes \cup {<<current_term + 1, Self>>}
    BY <1>1 DEF StartElection, PersistMeta
  <2>2. current_term + 1 \in Nat /\ current_term + 1 > raft_meta.current_term
    BY <2>1 DEF VoteInv
  <2>3. Self \in Id /\ Self # None
    BY IdsFromOne DEF Id
  <2>4. raft_meta'.current_term = current_term + 1 /\ raft_meta'.voted_for = Self
    BY <2>1, <2>3, SaveFields
  <2>5. QED
    BY <2>1, <2>2, <2>3, <2>4, GiveVote
<1>2. ASSUME NEW t \in Term, NEW u \in Term, NEW c \in Peer, NEW i \in 0 .. MaxIndex,
             HandleRequestVote(t, c, i, u)
      PROVE  VoteInv' /\ MetaStep(raft_meta, raft_meta')
  <2>1. up /\ UNCHANGED <<up, votes>> /\ msg'.candidate_id \in Peer
    BY <1>2 DEF HandleRequestVote
  <2>2. CASE t > current_term
    <3>1. StepDown(t) /\ t \in Nat
      BY <1>2, <1>m, <2>2 DEF HandleRequestVote
    <3>2. QED
      BY <2>1, <2>2, <3>1, SteppedDown
  <2>3. CASE ~(t > current_term)
    <3>1. UNCHANGED <<current_term, voted_for, raft_meta>>
      BY <1>2, <2>3 DEF HandleRequestVote
    <3>2. QED
      BY <2>1, <3>1, DiskUntouched
  <2>4. QED
    BY <2>2, <2>3
<1>3. CASE Vote
  <2>1. up /\ UNCHANGED <<up, current_term>> /\ pc = "vote" /\ pc' # "vote"
    BY <1>3 DEF Vote
  <2>2. /\ current_term = raft_meta.current_term /\ voted_for = SavedVote(raft_meta)
        /\ current_term \in Nat /\ raft_meta.voted_for \in Id \cup {0}
        /\ msg.candidate_id \in Peer
    BY <2>1 DEF VoteInv
  <2>3. CASE voted_for \in {None, msg.candidate_id} /\ UpToDate(msg)
    <3> DEFINE c == msg.candidate_id
    <3>1. /\ voted_for' = c /\ raft_meta' = Save(commit_index, current_term, c)
          /\ votes' = votes \cup {<<current_term, c>>}
      BY <1>3, <2>3 DEF Vote, PersistMeta
    <3>2. c \in Id /\ c # None /\ c # 0
      BY <2>2, IdsFromOne DEF Id
    <3>3. raft_meta'.current_term = current_term /\ raft_meta'.voted_for = c
      BY <3>1, <3>2, SaveFields
    <3>4. raft_meta.voted_for \in {0, c}
      BY <2>2, <2>3, IdsFromOne DEF SavedVote, Id
    <3>5. QED
      BY <2>1, <2>2, <3>1, <3>2, <3>3, <3>4, GiveVote
  <2>4. CASE ~(voted_for \in {None, msg.candidate_id} /\ UpToDate(msg))
    <3>1. UNCHANGED <<voted_for, raft_meta, votes>>
      BY <1>3, <2>4 DEF Vote
    <3>2. QED
      BY <2>1, <3>1, DiskUntouched
  <2>5. QED
    BY <2>3, <2>4
<1>4. ASSUME NEW t \in Term, HandleNewerTerm(t)
      PROVE  VoteInv' /\ MetaStep(raft_meta, raft_meta')
  <2>1. /\ up /\ UNCHANGED <<up, votes>> /\ t > current_term /\ StepDown(t) /\ t \in Nat
        /\ pc' # "vote"
    BY <1>4, <1>m DEF HandleNewerTerm
  <2>2. QED
    BY <2>1, SteppedDown
<1>5. ASSUME NEW t \in Elected, NEW prev, NEW commit, HandleAppendEntries(t, prev, commit)
      PROVE  VoteInv' /\ MetaStep(raft_meta, raft_meta')
  <2>1. up /\ UNCHANGED <<up, votes>> /\ pc' # "vote"
    BY <1>5 DEF HandleAppendEntries
  <2>2. CASE t > current_term
    <3>1. StepDown(t) /\ t \in Nat
      BY <1>5, <1>m, <2>2 DEF HandleAppendEntries
    <3>2. QED
      BY <2>1, <2>2, <3>1, SteppedDown
  <2>3. CASE ~(t > current_term)
    <3>1. UNCHANGED <<current_term, voted_for, raft_meta>>
      BY <1>5, <2>3 DEF HandleAppendEntries
    <3>2. QED
      BY <2>1, <3>1, DiskUntouched
  <2>4. QED
    BY <2>2, <2>3
<1>6. CASE HandleEntry
  <2>1. up /\ UNCHANGED <<up, raft_meta, votes, current_term, voted_for>> /\ pc' # "vote"
    BY <1>6 DEF HandleEntry
  <2>2. QED
    BY <2>1, DiskUntouched
<1>7. CASE Commit
  <2>1. /\ up /\ UNCHANGED <<up, votes, current_term, voted_for>> /\ pc' # "vote"
        /\ raft_meta' = Save(commit_index', current_term, voted_for)
    BY <1>7 DEF Commit, PersistMeta
  <2>2. /\ current_term = raft_meta.current_term /\ current_term \in Nat
        /\ voted_for = SavedVote(raft_meta) /\ raft_meta.voted_for \in Id \cup {0}
    BY <2>1 DEF VoteInv
  <2>3. voted_for \in Id \cup {None} /\ raft_meta'.voted_for = raft_meta.voted_for
    BY <2>1, <2>2, OpenSave
  <2>4. raft_meta'.current_term = current_term /\ SavedVote(raft_meta') = voted_for
    BY <2>1, <2>3, SaveFields, SaveOpen
  <2>5. QED
    BY <2>1, <2>2, <2>3, <2>4, NoVote
<1>8. CASE Apply
  <2>1. up /\ UNCHANGED <<up, raft_meta, votes, current_term, voted_for>> /\ pc' # "vote"
    BY <1>8 DEF Apply
  <2>2. QED
    BY <2>1, DiskUntouched
<1>9. CASE Crash
  <2>1. up' = FALSE /\ UNCHANGED <<raft_meta, votes>> /\ pc' # "vote"
    BY <1>9 DEF Crash
  <2>2. QED
    BY <2>1, DiskUntouched, Zenon
<1>10. CASE Start
  <2>1. /\ up' = TRUE /\ UNCHANGED <<raft_meta, votes, pc, msg>>
        /\ current_term' = raft_meta.current_term /\ voted_for' = SavedVote(raft_meta)
    BY <1>10 DEF Start
  <2>2. /\ raft_meta.current_term \in Nat /\ raft_meta.voted_for \in Id \cup {0}
        /\ pc = "vote" => msg.candidate_id \in Peer
    BY DEF VoteInv
  <2>3. QED
    BY <2>1, <2>2, NoVote
<1>11. CASE UNCHANGED vars
  <2>1. /\ UNCHANGED <<up, raft_meta, votes, current_term, voted_for, pc, msg>>
        /\ up \in BOOLEAN /\ (pc = "vote" => msg.candidate_id \in Peer)
    BY <1>11 DEF vars, VoteInv
  <2>2. CASE up
    BY <2>1, <2>2, DiskUntouched
  <2>3. CASE ~up
    BY <2>1, <2>3, DiskUntouched
  <2>4. QED
    BY <2>2, <2>3
<1>12. QED
  BY <1>1, <1>2, <1>3, <1>4, <1>5, <1>6, <1>7, <1>8, <1>9, <1>10, <1>11 DEF Next

LEMMA VoteInit == Init => VoteInv
<1> SUFFICES ASSUME Init PROVE VoteInv
  OBVIOUS
<1>1. /\ up = TRUE /\ current_term = 0 /\ voted_for = None /\ pc = "idle" /\ votes = {}
      /\ raft_meta.current_term = 0 /\ raft_meta.voted_for = 0
  BY DEF Init
<1>2. QED
  BY <1>1 DEF VoteInv, SavedVote, OneVotePerTerm

-----------------------------------------------------------------------------

\* Over the whole life of the disk a node gives one vote per term, whenever its process
\* dies between handle_request_vote's or start_election's writes and is started again.
THEOREM VotesOncePerTerm == Spec => []OneVotePerTerm
<1>1. VoteInv => OneVotePerTerm
  BY DEF VoteInv
<1>2. QED
  BY <1>1, VoteInit, VoteStep, PTL DEF Spec

\* No handler and no restart takes back the term or the vote in raft_meta.bin.
THEOREM VoteStays == Spec => VoteNeverForgotten
<1>1. VoteInv /\ [Next]_vars =>
        [/\ raft_meta'.current_term >= raft_meta.current_term
         /\ raft_meta'.current_term = raft_meta.current_term /\ raft_meta.voted_for # 0
              => raft_meta'.voted_for = raft_meta.voted_for]_vars
  <2> SUFFICES ASSUME VoteInv, [Next]_vars
               PROVE  /\ raft_meta'.current_term >= raft_meta.current_term
                      /\ raft_meta'.current_term = raft_meta.current_term
                           /\ raft_meta.voted_for # 0
                           => raft_meta'.voted_for = raft_meta.voted_for
    OBVIOUS
  <2>1. MetaStep(raft_meta, raft_meta') /\ VoteInv'
    BY VoteStep
  <2>2. raft_meta.current_term \in Nat /\ raft_meta'.current_term \in Nat
    BY <2>1 DEF VoteInv
  <2>3. QED
    BY <2>1, <2>2 DEF MetaStep
<1>2. QED
  BY <1>1, VoteInit, VoteStep, PTL DEF Spec, VoteNeverForgotten
=============================================================================
