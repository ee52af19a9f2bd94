---------------------------- MODULE RaftStorage ----------------------------
(***************************************************************************)
(* One Raft node and its disk: raft_log.bin (RaftLogStore), raft_meta.bin  *)
(* (RaftMeta), the database, and new_in_dir, which builds the node from    *)
(* them when its process starts again.  The handlers that write to disk    *)
(* are taken apart at their writes, and the process may die between any    *)
(* two of them.  The other nodes are an environment that sends the         *)
(* messages Raft may send.                                                 *)
(*                                                                         *)
(* The code's log[k] is log[k + 1] here: the sentinel is part of the log.  *)
(***************************************************************************)
EXTENDS Integers, Sequences
LOCAL INSTANCE SequencesExt

CONSTANTS
    Self, Peer,   \* the ids of this node and of the others in the bootstrap cluster
    None,
    Torn,         \* a record of the log file that is not completely written
    Sentinel,     \* the entry new_in_dir makes up for index 0
    LeaderLog,    \* for each term with a leader: its log
    LeaderCommit, \* and how much of it is ever committed in that term
    MaxTerm,      \* bound on the terms
    MaxIndex,     \* bound on the last_log_index of a candidate
    MaxStarts     \* bound on the times the process is started again

Term     == 0 .. MaxTerm
Elected  == DOMAIN LeaderLog

ASSUME TermBound   == {MaxTerm, MaxIndex, MaxStarts} \subseteq Nat /\ Elected \subseteq 1 .. MaxTerm
\* "node IDs must therefore start at 1" (RaftMeta::save)
ASSUME IdsFromOne  == Self \notin Peer /\ Peer \cup {Self} \subseteq Nat \ {0} /\ None \notin Nat

VARIABLES
    up,
    current_term, voted_for, log, commit_index, last_applied,
    raft_log,     \* the entries in raft_log.bin
    raft_meta,    \* the record in raft_meta.bin
    applied,      \* the entries the database has, in order
    peers,
    pc, msg,      \* the handler that is running and the message it handles
    starts,       \* the times the process was started again
    index,        \* handle_append_entries: where the next entry goes
    votes         \* the votes this node has given away, as <<term, candidate>>

vars == <<up, current_term, voted_for, log, commit_index, last_applied, raft_log,
          raft_meta, applied, peers, pc, msg, starts, index, votes>>

Init ==
    /\ up = TRUE
    /\ current_term = 0 /\ voted_for = None
    /\ log = << Sentinel >> /\ raft_log = << >>
    /\ commit_index = 0 /\ last_applied = 0
    /\ raft_meta = [commit_index |-> 0, current_term |-> 0, voted_for |-> 0]
    /\ applied = << >> /\ peers = Peer
    /\ pc = "idle" /\ msg = None /\ index = 0 /\ starts = 0
    /\ votes = {}

-----------------------------------------------------------------------------
(* The stores                                                              *)

\* Mutant: the term is written without the vote.
SaveTermOnly(c, t, v) == [commit_index |-> c, current_term |-> t, voted_for |-> 0]

\* RaftMeta::save: 0 stands for no vote.
Save(c, t, v) ==
    [commit_index |-> c, current_term |-> t, voted_for |-> IF v = None THEN 0 ELSE v]

\* RaftMeta::open: the vote in the record.
SavedVote(m) == IF m.voted_for = 0 THEN None ELSE m.voted_for

PersistMeta(c, t, v) == raft_meta' = Save(c, t, v)

\* read_entry: a frame that ends early is an error.
ReadEntry(e) == e # Torn

\* RaftLogStore::open: the entries up to the first that cannot be read, where the
\* file is cut.
ReadEntries(file) ==
    LET bad == SelectInSeq(file, LAMBDA e : ~ReadEntry(e))
    IN  IF bad = 0 THEN file ELSE SubSeq(file, 1, bad - 1)

\* RaftLogStore::truncate_from: entries are counted from 0.
TruncateFrom(file, from) == IF from >= Len(file) THEN file ELSE SubSeq(file, 1, from)

PushLogEntry(e) ==
    /\ raft_log' = Append(raft_log, e)
    /\ log' = Append(log, e)

TruncateLog(from) ==
    /\ raft_log' = TruncateFrom(raft_log, from)
    /\ log' = SubSeq(log, 1, from)

\* Mutant: the commit index is believed whatever the log is.
AnyCommit(c, l) == c

\* A commit index from a leader or from disk, cut to the log.
SafeCommit(c, l) == IF c < Len(l) - 1 THEN c ELSE Len(l) - 1

-----------------------------------------------------------------------------
(* Elections                                                               *)

\* step_down(new_term): the term and the cleared vote are written before anything else.
StepDown(t) ==
    /\ current_term' = t
    /\ voted_for' = None
    /\ PersistMeta(commit_index, t, None)

StartElection ==
    /\ up /\ pc = "idle" /\ current_term < MaxTerm
    /\ current_term' = current_term + 1
    /\ voted_for' = Self
    /\ PersistMeta(commit_index, current_term + 1, Self)
    /\ votes' = votes \cup {<<current_term + 1, Self>>}
    /\ UNCHANGED <<up, log, commit_index, last_applied, raft_log, applied, peers, pc, msg, index,
                   starts>>

\* handle_request_vote of a request that is not out of date, up to step_down
HandleRequestVote(t, c, lastIndex, lastTerm) ==
    /\ up /\ pc = "idle" /\ t >= current_term
    /\ IF t > current_term THEN StepDown(t)
       ELSE UNCHANGED <<current_term, voted_for, raft_meta>>
    /\ pc' = "vote"
    /\ msg' = [candidate_id |-> c, last_log_index |-> lastIndex, last_log_term |-> lastTerm]
    /\ UNCHANGED <<up, log, commit_index, last_applied, raft_log, applied, peers, index, votes,
                   starts>>

UpToDate(m) ==
    \/ m.last_log_term > log[Len(log)].term
    \/ m.last_log_term = log[Len(log)].term /\ m.last_log_index >= Len(log) - 1

\* The rest of handle_request_vote: the vote is written before the response is sent.
Vote ==
    LET grant == voted_for \in {None, msg.candidate_id} /\ UpToDate(msg) IN
    /\ up /\ pc = "vote"
    /\ IF grant
       THEN /\ voted_for' = msg.candidate_id
            /\ PersistMeta(commit_index, current_term, msg.candidate_id)
            /\ votes' = votes \cup {<<current_term, msg.candidate_id>>}
       ELSE UNCHANGED <<voted_for, raft_meta, votes>>
    /\ pc' = "idle" /\ msg' = None
    /\ UNCHANGED <<up, current_term, log, commit_index, last_applied, raft_log, applied, peers,
                   index, starts>>

\* Mutant: a response from the current term makes the node step down, too.
HandleSameTerm(t) ==
    /\ up /\ pc = "idle" /\ t >= current_term
    /\ StepDown(t)
    /\ UNCHANGED <<up, log, commit_index, last_applied, raft_log, applied, peers, pc, msg, index,
                   votes, starts>>

\* A response from a later term: handle_vote_response, handle_append_entries_response.
HandleNewerTerm(t) ==
    /\ up /\ pc = "idle" /\ t > current_term
    /\ StepDown(t)
    /\ UNCHANGED <<up, log, commit_index, last_applied, raft_log, applied, peers, pc, msg, index,
                   votes, starts>>

-----------------------------------------------------------------------------
(* handle_append_entries                                                   *)

TermAt(l, k) == IF k = 0 THEN Sentinel.term ELSE l[k].term

\* The message of the leader of term t with the entries after prev, and the checks
\* before the loop.  The leader may not know yet that all of LeaderCommit is committed.
HandleAppendEntries(t, prev, commit) ==
    /\ up /\ pc = "idle" /\ t >= current_term
    /\ prev \in 0 .. Len(LeaderLog[t]) /\ commit \in 0 .. LeaderCommit[t]
    /\ IF t > current_term THEN StepDown(t)
       ELSE UNCHANGED <<current_term, voted_for, raft_meta>>
    /\ IF prev < Len(log) /\ log[prev + 1].term = TermAt(LeaderLog[t], prev)
       THEN /\ pc' = "entries"
            /\ msg' = [entries |-> SubSeq(LeaderLog[t], prev + 1, Len(LeaderLog[t])),
                       leader_commit |-> commit]
            /\ index' = prev + 1
       ELSE UNCHANGED <<pc, msg, index>>
    /\ UNCHANGED <<up, log, commit_index, last_applied, raft_log, applied, peers, votes, starts>>

\* One write of the loop: a conflicting entry and all after it are cut away (the next
\* step appends in its place), or the entry is already there, or it is appended.
HandleEntry ==
    LET e == Head(msg.entries) IN
    /\ up /\ pc = "entries" /\ msg.entries # << >>
    /\ \/ /\ index < Len(log) /\ log[index + 1].term # e.term
          /\ TruncateLog(index)
          /\ UNCHANGED <<msg, index>>
       \/ /\ index < Len(log) /\ log[index + 1].term = e.term
          /\ msg' = [msg EXCEPT !.entries = Tail(@)] /\ index' = index + 1
          /\ UNCHANGED <<log, raft_log>>
       \/ /\ index >= Len(log)
          /\ PushLogEntry(e)
          /\ msg' = [msg EXCEPT !.entries = Tail(@)] /\ index' = index + 1
    /\ UNCHANGED <<up, current_term, voted_for, commit_index, last_applied, raft_meta,
                   applied, peers, pc, votes, starts>>

\* After the loop: the commit index is taken over and written.
Commit ==
    /\ up /\ pc = "entries" /\ msg.entries = << >>
    /\ commit_index' = SafeCommit(msg.leader_commit, log)
    /\ PersistMeta(commit_index', current_term, voted_for)
    /\ pc' = "apply" /\ msg' = None /\ index' = 0
    /\ UNCHANGED <<up, current_term, voted_for, log, last_applied, raft_log, applied, peers, votes,
                   starts>>

\* The peers after entry e: an AddNode or RemoveNode changes them, a command does not.
PeersWith(ps, e) ==
    IF e.kind = "add" THEN ps \cup ({e.id} \ {Self})
    ELSE IF e.kind = "remove" THEN ps \ {e.id} ELSE ps

\* One round of apply_committed_entries, or its end.
Apply ==
    /\ up /\ pc = "apply"
    /\ IF last_applied < commit_index
       THEN /\ applied' = Append(applied, log[last_applied + 2])
            /\ peers' = PeersWith(peers, log[last_applied + 2])
            /\ last_applied' = last_applied + 1
            /\ UNCHANGED pc
       ELSE pc' = "idle" /\ UNCHANGED <<applied, peers, last_applied>>
    /\ UNCHANGED <<up, current_term, voted_for, log, commit_index, raft_log, raft_meta,
                   msg, index, votes, starts>>

-----------------------------------------------------------------------------
(* The process dies, and new_in_dir                                        *)

\* The next write is an entry appended to the log file.
Appending == pc = "entries" /\ msg.entries # << >> /\ index >= Len(log)

\* The process may also die inside append, between the length and the entry.
Crash ==
    /\ \/ UNCHANGED raft_log
       \/ Appending /\ raft_log' = Append(raft_log, Torn)
    /\ up /\ starts < MaxStarts
    /\ up' = FALSE /\ pc' = "idle" /\ msg' = None /\ index' = 0
    /\ current_term' = 0 /\ voted_for' = None
    /\ log' = << >> /\ commit_index' = 0 /\ last_applied' = 0 /\ peers' = {}
    /\ UNCHANGED <<raft_meta, applied, votes, starts>>

\* The log that new_in_dir starts with: the sentinel, or else what the file has.
RecoveredLog(entries) == IF entries = << >> THEN << Sentinel >> ELSE entries

\* The bootstrap peers changed by log.iter().skip(1).take(commit), in order.
RecoveredPeers(l, commit) ==
    LET last == IF commit + 1 < Len(l) THEN commit + 1 ELSE Len(l)
    IN  FoldLeft(PeersWith, Peer, SubSeq(l, 2, last))

Start ==
    LET entries   == ReadEntries(raft_log)
        recovered == RecoveredLog(entries)
        commit    == SafeCommit(raft_meta.commit_index, recovered)
    IN
    /\ ~up
    /\ up' = TRUE
    /\ current_term' = raft_meta.current_term
    /\ voted_for' = SavedVote(raft_meta)
    /\ raft_log' = entries
    /\ log' = recovered
    /\ commit_index' = commit /\ last_applied' = commit
    /\ peers' = RecoveredPeers(recovered, commit)
    /\ starts' = starts + 1
    /\ UNCHANGED <<raft_meta, applied, pc, msg, index, votes>>

Next ==
    \/ StartElection
    \/ \E t, u \in Term : \E c \in Peer : \E i \in 0 .. MaxIndex : HandleRequestVote(t, c, i, u)
    \/ Vote
    \/ \E t \in Term : HandleNewerTerm(t)
    \/ \E t \in Elected : \E prev, commit \in 0 .. Len(LeaderLog[t]) :
          HandleAppendEntries(t, prev, commit)
    \/ HandleEntry
    \/ Commit
    \/ Apply
    \/ Crash
    \/ Start

Spec == Init /\ [][Next]_vars

-----------------------------------------------------------------------------
(* Properties                                                              *)

\* Types; and the commit index is inside the log, also of a node that was just built
\* from its files: apply_committed_entries indexes the log with it.
TypeOK ==
    /\ up \in BOOLEAN
    /\ current_term \in Term
    /\ voted_for \in Peer \cup {Self, None}
    /\ commit_index \in Nat /\ last_applied \in Nat /\ index \in Nat
    /\ up => commit_index < Len(log)
    /\ peers \subseteq Nat \ {Self}
    /\ pc \in {"idle", "vote", "entries", "apply"}
    /\ votes \subseteq Term \X (Peer \cup {Self})

\* "We don't accidentally vote for a second candidate in the same term after restart"
\* (handle_request_vote): over the whole life of the disk a node gives one vote per term.
OneVotePerTerm == \A v, w \in votes : v[1] = w[1] => v[2] = w[2]

\* The term on disk never goes back, and the vote in it is never taken back within the
\* term, by any handler or by a restart: no late message makes the node vote again.
VoteNeverForgotten ==
    [][/\ raft_meta'.current_term >= raft_meta.current_term
       /\ raft_meta'.current_term = raft_meta.current_term /\ raft_meta.voted_for # 0
            => raft_meta'.voted_for = raft_meta.voted_for]_vars

\* "the dummy sentinel that all Raft implementations require at index 0" (new_in_dir) and
\* "Truncate the log (and the on-disk store)" (truncate_log): the log is the sentinel and
\* the entries of raft_log.bin, after every write and after every start.
DiskInSync == up => log = << Sentinel >> \o raft_log

\* "a crash after this point will replay from the correct position on restart"
\* (update_commit_index): what counts as applied has been applied.
AppliedUpToLastApplied ==
    up => \A k \in 1 .. last_applied : \E n \in DOMAIN applied : applied[n] = log[k + 1]

\* "Reconstruct the peer list from committed log entries" (new_in_dir): in a process that
\* was just started, all committed entries of the file have had their effect on the peers.
PeersRebuilt ==
    ~up => LET entries   == ReadEntries(raft_log)
               recovered == RecoveredLog(entries)
               committed == {k \in DOMAIN entries : k <= raft_meta.commit_index}
           IN  RecoveredPeers(recovered, SafeCommit(raft_meta.commit_index, recovered)) =
                   FoldLeft(PeersWith, Peer, [k \in committed |-> entries[k]])
=============================================================================
