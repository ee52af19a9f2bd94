-------------------------- MODULE RaftCommitProofs --------------------------
(***************************************************************************)
(* Commitment in Raft, for a fixed cluster of any size: an entry that a    *)
(* majority has acknowledged to a leader of its term is in the log of      *)
(* every later leader.                                                     *)
(***************************************************************************)
EXTENDS RaftOrderProofs

\* A leaf that names no prover is tried with each of these, in this order.
USE SMT, Zenon, SMTT(60), ZenonT(60)

-----------------------------------------------------------------------------
(* What a node keeps of its log                                            *)

\* The log of q up to index k is still there after the step.
KeepsUpTo(q, k) == k <= Len(log'[q]) /\ \A n \in 1 .. k : log'[q][n] = log[q][n]

\* A leader of a term that an AppendEntries tells of has asked for votes, with a log
\* that has everything that was not overruled.
LEMMA AppendBacked ==
    ASSUME Base, LogInv, OrderInv, NEW m \in appendEntries
    PROVE  /\ m.term > 0
           /\ \A c \in Cells :
                 c.entry.term < m.term /\ ~Overruled(c.index, c.entry.term, m.term) =>
                    ~Behind(PieceTerm(m, LastIndex(m)), LastIndex(m), c.entry.term, c.index)
<1>1. m.leader_id \in Server /\ m.to \in Server /\ m.term \in Nat
  BY AppendTyped DEF AppendTypes
<1>2. Elected(m.leader_id, m.term) /\ m.leader_id # m.to /\ VotesRequested
  BY Zenon DEF LogInv, AppendsLed, WasLeader, RequestInv
<1>3. PICK r \in requestVotes : r.candidate_id = m.leader_id /\ r.term = m.term
  BY <1>1, <1>2, ElectedRequested
<1>4. r.last_log_term \in Nat /\ r.last_log_index \in Nat
  BY RequestTyped DEF RequestTypes
<1>5. r.last_log_term < m.term
  BY <1>3 DEF OrderInv, RequestsPlaced
<1>6. LastIndex(m) \in Nat /\ PieceTerm(m, LastIndex(m)) \in Nat
  BY AppendTyped DEF AppendTypes
<1>7. ~Behind(PieceTerm(m, LastIndex(m)), LastIndex(m), r.last_log_term, r.last_log_index)
  BY <1>3, Zenon DEF OrderInv, AppendsElected
<1>8. ASSUME NEW c \in Cells, c.entry.term < m.term, ~Overruled(c.index, c.entry.term, m.term)
      PROVE  ~Behind(PieceTerm(m, LastIndex(m)), LastIndex(m), c.entry.term, c.index)
  <2>1. c.index \in Nat /\ c.entry.term \in Nat
    BY CellTyped DEF CellTypes
  <2>2. c.entry.term < r.term /\ r.term <= m.term /\ Elected(r.candidate_id, r.term)
    BY <1>1, <1>2, <1>3, <1>8
  <2>3. ~Behind(r.last_log_term, r.last_log_index, c.entry.term, c.index)
    BY <1>8, <2>2, Zenon DEF Overruled
  <2>4. QED
    BY <1>4, <1>6, <1>7, <2>1, <2>3 DEF Behind
<1>9. QED
  BY <1>1, <1>4, <1>5, <1>8

\* Against an entry of its log that was not overruled, an AppendEntries that a node
\* accepts brings nothing new: they agree where both reach.
LEMMA AcceptedAgrees ==
    ASSUME Base, LogInv, OrderInv, NEW m \in appendEntries, NEW q \in Server, q = m.to,
           m.term >= current_term[q], NEW c \in CellsOf(LogPiece(log[q])),
           ~Overruled(c.index, c.entry.term, m.term),
           NEW k \in Nat, m.prev_log_index < k, k <= LastIndex(m), k <= c.index,
           k = c.index \/ k = LastIndex(m)
    PROVE  PieceTerm(m, k) = TermAt(log[q], k)
<1> DEFINE l == log[q]
           t == c.entry.term
           n == c.index
           last == LastIndex(m)
<1>1. l \in Seq(Entry) /\ Len(l) \in Nat /\ current_term[q] \in Nat
  BY LogTyped DEF LogTypes
<1>2. /\ c \in Cells /\ n \in 1 .. Len(l) /\ TermAt(l, n) = t /\ t \in Nat
      /\ TermAt(l, n - 1) = c.before
  BY LogCellPlace, CellTyped DEF LogCellPlaces, CellTypes
<1>3. /\ m \in Pieces /\ m.term \in Nat /\ m.prev_log_index \in Nat /\ last \in Nat
      /\ PieceTerm(m, last) \in Nat
  BY AppendTyped DEF AppendTypes
<1>4. t <= current_term[q]
  BY DEF OrderInv, TermsOrdered
<1>5. /\ TermsOrdered /\ TermsContiguous /\ CellsOrdered
      /\ AppendsOwn
  BY Zenon DEF OrderInv
<1>6. CASE t < m.term
  <2>1. ~Behind(PieceTerm(m, last), last, t, n)
    BY <1>2, <1>6, AppendBacked
  <2>2. m.prev_log_index < n /\ m.prev_log_index < last /\ last <= last
    BY <1>1, <1>2, <1>3
  <2>3. PieceTerm(m, last) <= m.term
    <3>1. PICK d \in CellsOf(m) : d.entry.term = PieceTerm(m, last)
      BY <1>3, <2>2, PieceCell DEF CellIs
    <3>2. d.entry.term <= m.term
      BY <1>5, <3>1 DEF TermsOrdered
    <3>3. QED
      BY <3>1, <3>2
  <2>4. ~Overruled(n, t, PieceTerm(m, last))
    BY <1>3, <2>3, OverruledLater
  <2>5. n <= last /\ PieceTerm(m, n) = t
    BY <1>2, <1>3, <1>5, <2>1, <2>2, <2>4, Contains
  <2>6. k = n
    BY <1>1, <1>2, <1>3, <2>5
  <2>7. QED
    BY <1>2, <2>5, <2>6
<1>7. CASE t = m.term
  <2>1. CASE k = n
    <3>1. k \in m.prev_log_index .. last
      BY <1>3
    <3>2. n <= k
      BY <1>1, <1>2, <2>1
    <3>3. PieceTerm(m, k) = m.term
      BY <1>2, <1>5, <1>7, <3>1, <3>2 DEF AppendsOwn
    <3>4. QED
      BY <1>2, <1>7, <2>1, <3>3
  <2>2. CASE k # n
    <3> DEFINE S == {x \in Nat : 1 <= x /\ x <= n /\ TermAt(l, x) = m.term}
    <3>1. n \in S /\ S \in SUBSET Nat
      BY <1>1, <1>2, <1>7
    <3> HIDE DEF S
    <3>2. PICK f \in S : \A x \in S : f <= x
      BY <3>1, LeastNumber
    <3>3. f \in Nat /\ 1 <= f /\ f <= n /\ TermAt(l, f) = m.term
      BY <3>2 DEF S
    <3>4. f \in 1 .. Len(l)
      BY <1>1, <1>2, <3>3
    <3>5. PICK d \in Cells : d.index = f /\ d.entry.term = m.term /\ d.before = TermAt(l, f - 1)
      BY <3>3, <3>4, LogCell DEF LogCellsExist, CellIs
    <3>6. TermAt(l, f - 1) \in Nat /\ TermAt(l, f - 1) <= m.term
      BY <1>5, <3>5, CellTyped DEF CellTypes, TermsOrdered
    <3>7. TermAt(l, f - 1) # m.term
      <4>1. CASE f = 1
        <5>1. TermAt(l, f - 1) = 0
          BY <4>1 DEF TermAt
        <5>2. m.term > 0
          BY AppendBacked
        <5>3. QED
          BY <1>3, <5>1, <5>2
      <4>2. CASE f # 1
        <5>1. f - 1 \in Nat /\ 1 <= f - 1 /\ f - 1 <= n /\ ~(f <= f - 1)
          BY <1>1, <1>2, <3>3, <4>2
        <5>2. QED
          BY <3>2, <5>1 DEF S
      <4>3. QED
        BY <4>1, <4>2
    <3>8. d.before < m.term
      BY <1>3, <3>5, <3>6, <3>7
    <3>9. k = last
      BY <2>2
    <3>10. /\ \A x \in m.prev_log_index .. last : f <= x => PieceTerm(m, x) = m.term
           /\ f <= last + 1
           /\ f = last + 1 => PieceTerm(m, last) = TermAt(l, f - 1)
      BY <1>5, <3>5, <3>8, Zenon DEF AppendsOwn
    <3>11. CASE f = last + 1
      BY <1>3, <3>9, <3>10, <3>11
    <3>12. CASE f # last + 1
      <4>1. f <= last /\ last \in m.prev_log_index .. last
        BY <1>3, <3>3, <3>9, <3>10, <3>12
      <4>2. PieceTerm(m, last) = m.term
        BY <3>10, <4>1
      <4>3. TermAt(l, f) <= TermAt(l, last) /\ TermAt(l, last) <= TermAt(l, n)
        BY <1>1, <1>2, <1>3, <1>5, <3>3, <3>9, <4>1, LogTermsRise DEF LogsRise
      <4>4. TermAt(l, last) \in Nat
        BY <1>1, <1>2, <1>3, <1>5, <3>9, LogTermsBound DEF LogsBound
      <4>5. QED
        BY <1>2, <1>3, <1>7, <3>3, <3>9, <4>2, <4>3, <4>4
    <3>13. QED
      BY <3>11, <3>12
  <2>3. QED
    BY <2>1, <2>2
<1>8. QED
  BY <1>1, <1>2, <1>3, <1>4, <1>6, <1>7

LEMMA NotCut ==
    ASSUME Base, Base', LogInv, OrderInv, NEW m \in appendEntries, Receives(m),
           NEW q \in Server, q = m.to, NEW c \in CellsOf(LogPiece(log[q])),
           ~Overruled(c.index, c.entry.term, m.term)
    PROVE  KeepsUpTo(q, c.index)
<1> DEFINE l == log[q]
           n == c.index
           prev == m.prev_log_index
           last == LastIndex(m)
<1>1. l \in Seq(Entry) /\ Len(l) \in Nat
  BY LogTyped DEF LogTypes
<1>2. n \in 1 .. Len(l)
  BY LogCellPlace DEF LogCellPlaces
<1>3. prev \in Nat /\ last \in Nat /\ PieceOK(m)
  BY AppendTyped DEF AppendTypes
<1>4. m.term >= current_term[q] /\ PrevMatches(m, l) /\ CellsUnique
  BY Zenon DEF Receives, LogInv
<1>5. log'[q] = MergedLog(l, prev, m.entries)
  BY ReceivedCells
<1>6. ASSUME NEW j \in prev + 1 .. last, j <= n PROVE TermAt(l, j) = PieceTerm(m, j)
  <2>1. PICK k \in Nat : /\ prev < k /\ k <= last /\ k <= n /\ j <= k
                         /\ k = n \/ k = last
    <3>1. CASE n <= last
      BY <1>1, <1>2, <1>3, <1>6, <3>1
    <3>2. CASE ~(n <= last)
      BY <1>1, <1>2, <1>3, <1>6, <3>2
    <3>3. QED
      BY <3>1, <3>2
  <2>2. PieceTerm(m, k) = TermAt(l, k)
    BY <1>4, <2>1, AcceptedAgrees
  <2>3. k <= Len(l) /\ j \in prev .. k
    BY <1>1, <1>2, <1>3, <2>1
  <2>4. \A x \in prev .. k : PieceTerm(m, x) = TermAt(l, x)
    BY <1>4, <2>1, <2>2, <2>3, MessageAgrees
  <2>5. QED
    BY <2>3, <2>4
<1>7. ASSUME NEW k \in 1 .. n PROVE k <= Len(log'[q]) /\ log'[q][k] = l[k]
  <2>1. k \in 1 .. Len(l)
    BY <1>1, <1>2
  <2>2. \A j \in prev + 1 .. last : j <= k => TermAt(l, j) = PieceTerm(m, j)
    BY <1>1, <1>2, <1>3, <1>6
  <2>3. /\ k <= Len(MergedLog(l, prev, m.entries))
        /\ MergedLog(l, prev, m.entries)[k] = l[k]
    BY <1>1, <1>3, <1>4, <2>1, <2>2, MergedKeeps, Zenon
  <2>4. QED
    BY <1>5, <2>3, Zenon
<1>8. n \in 1 .. n
  BY <1>1, <1>2
<1>9. QED
  BY <1>7, <1>8 DEF KeepsUpTo

LEMMA KeepsCell ==
    ASSUME Base, Base', LogInv, OrderInv, Grows, Shape,
           NEW q \in Server, NEW c \in CellsOf(LogPiece(log[q])),
           ~Overruled(c.index, c.entry.term, current_term'[q])
    PROVE  KeepsUpTo(q, c.index) /\ c \in CellsOf(LogPiece(log'[q]))
<1>1. log[q] \in Seq(Entry) /\ log'[q] \in Seq(Entry) /\ Len(log[q]) \in Nat /\ Len(log'[q]) \in Nat
  BY LogTyped, LogTypedNext DEF LogTypes
<1>2. /\ c.index \in 1 .. Len(log[q]) /\ log[q][c.index] = c.entry
      /\ TermAt(log[q], c.index - 1) = c.before
  BY LogCellPlace DEF LogCellPlaces
<1>3. KeepsUpTo(q, c.index)
  <2>1. CASE log'[q] = log[q]
    BY <1>1, <1>2, <2>1 DEF KeepsUpTo
  <2>2. ASSUME NEW e \in Entry, Extends(q, e) PROVE KeepsUpTo(q, c.index)
    <3>1. log'[q] = Append(log[q], e)
      BY <2>2, ExtendedCells, Zenon
    <3>2. QED
      BY <1>1, <1>2, <3>1 DEF KeepsUpTo
  <2>3. ASSUME NEW m \in appendEntries, Receives(m), m.to = q PROVE KeepsUpTo(q, c.index)
    <3>1. current_term' = [current_term EXCEPT ![m.to] = m.term]
      BY <2>3, Zenon DEF Receives
    <3>2. current_term \in [Server -> Nat]
      BY Zenon DEF Base, Typed, TypeOK
    <3>3. current_term'[q] = m.term
      BY <2>3, <3>1, <3>2
    <3>4. QED
      BY <2>3, <3>3, NotCut
  <2>4. QED
    BY <2>1, <2>2, <2>3, LogStep
<1>4. c \in CellsOf(LogPiece(log'[q]))
  <2>1. PICK k \in 1 .. Len(log[q]) :
           c = [index |-> k, entry |-> log[q][k], before |-> TermAt(log[q], k - 1)]
    BY <1>1, LogCells
  <2>2. c.index = k
    BY <2>1
  <2>3. k \in 1 .. Len(log'[q]) /\ log'[q][k] = log[q][k]
    BY <1>1, <1>3, <2>2 DEF KeepsUpTo
  <2>4. TermAt(log'[q], k - 1) = TermAt(log[q], k - 1)
    <3>1. CASE k = 1
      BY <3>1 DEF TermAt
    <3>2. CASE k # 1
      <4>1. k - 1 \in 1 .. k /\ k - 1 # 0
        BY <1>1, <3>2
      <4>2. log'[q][k - 1] = log[q][k - 1]
        BY <1>3, <2>2, <4>1 DEF KeepsUpTo
      <4>3. QED
        BY <4>1, <4>2 DEF TermAt
    <3>3. QED
      BY <3>1, <3>2
  <2>5. c = [index |-> k, entry |-> log'[q][k], before |-> TermAt(log'[q], k - 1)]
    BY <2>1, <2>3, <2>4
  <2>6. QED
    BY <1>1, <2>3, <2>5, LogCells
<1>5. QED
  BY <1>3, <1>4

-----------------------------------------------------------------------------
(* Acknowledgements                                                        *)

OneLeaderPerTerm ==
    \A i, j \in Server : \A t \in Nat : WasLeader(i, t) /\ WasLeader(j, t) => i = j
NotAtOnce == \A k, t \in Nat : ~Overruled(k, t, t)

LEMMA OneLeader == Base /\ RequestInv => OneLeaderPerTerm
<1> SUFFICES ASSUME Base, RequestInv, NEW i \in Server, NEW j \in Server, NEW t \in Nat,
                    WasLeader(i, t), WasLeader(j, t)
             PROVE  i = j
  BY DEF OneLeaderPerTerm
<1>1. Elected(i, t)
  BY Zenon DEF WasLeader
<1>2. QED
  BY <1>1, LeadersUnique

LEMMA OneLeaderNext == Base' /\ RequestInv' => OneLeaderPerTerm'
BY OneLeader, PTL

LEMMA AtOnce == Base => NotAtOnce
BY NeverOverruledAtOnce DEF NotAtOnce

LEMMA AtOnceNext == Base' => NotAtOnce'
BY AtOnce, PTL

\* An acknowledgement after a step is an old one, or of an entry that the node holds in
\* the term it is in.
LEMMA AckedStep ==
    ASSUME Base, Base', LogInv, LogInv', ProgressInv, OrderInv, OrderInv', Grows, Shape,
           NEW q \in Server, NEW c \in Cells', NEW k \in Nat, NEW t \in Nat,
           k = c.index, t = c.entry.term, Acked(q, k, t)'
    PROVE  \/ c \in Cells /\ Acked(q, k, t)
           \/ /\ current_term[q] <= t /\ current_term'[q] = t
              /\ c \in CellsOf(LogPiece(log'[q]))
<1>1. OneLeaderPerTerm /\ OneLeaderPerTerm'
  BY OneLeader, OneLeaderNext, Zenon DEF LogInv
<1>2. k >= 1
  BY CellTypedNext DEF CellTypes
<1>3. CASE c \in Cells
  <2>1. CASE WasLeader(q, t)'
    <3>1. PICK j \in Server : WasLeader(j, t)
      BY <1>3, Zenon DEF LogInv, CellsLed
    <3>2. WasLeader(j, t)'
      BY <3>1, WasLeaderStays
    <3>3. j = q
      BY <1>1, <2>1, <3>2, Zenon DEF OneLeaderPerTerm
    <3>4. QED
      BY <1>3, <3>1, <3>3, Zenon DEF Acked
  <2>2. ASSUME NEW a \in appendResponses', a.success, a.follower_id = q, a.term = t, a.match_index >= k
        PROVE  \/ Acked(q, k, t)
               \/ /\ current_term[q] <= t /\ current_term'[q] = t
                  /\ c \in CellsOf(LogPiece(log'[q]))
    <3>1. CASE a \in appendResponses
      BY <2>2, <3>1, Zenon DEF Acked
    <3>2. CASE a \notin appendResponses
      <4>1. PICK m \in appendEntries :
               /\ Receives(m) /\ a.term = m.term /\ a.follower_id = m.to
               /\ a.match_index = LastIndex(m)
        BY <2>2, <3>2, NewReply
      <4>2. current_term' = [current_term EXCEPT ![m.to] = m.term] /\ m.term >= current_term[m.to]
        BY <4>1, Zenon DEF Receives
      <4>3. current_term \in [Server -> Nat]
        BY Zenon DEF Base, Typed, TypeOK
      <4>4. current_term'[q] = t /\ current_term[q] <= t
        BY <2>2, <4>1, <4>2, <4>3
      <4>5. /\ LastIndex(m) <= Len(log'[q])
            /\ \A x \in m.prev_log_index .. LastIndex(m) : TermAt(log'[q], x) = PieceTerm(m, x)
        BY <2>2, <4>1, ReceivedCells, Zenon
      <4>6. /\ m.prev_log_index \in Nat /\ LastIndex(m) \in Nat
            /\ m.prev_log_index <= LastIndex(m) /\ Len(log'[q]) \in Nat
        BY AppendTyped, LogTypedNext DEF AppendTypes, LogTypes
      <4>7. \A x \in m.prev_log_index .. LastIndex(m) : k <= x => PieceTerm(m, x) = t
        BY <1>3, <2>2, <4>1, Zenon DEF OrderInv, AppendsOwn
      <4>8. k <= LastIndex(m) /\ k <= Len(log'[q])
        BY <2>2, <4>1, <4>5, <4>6
      <4>9. TermAt(log'[q], k) = t
        <5>1. CASE m.prev_log_index <= k
          <6>1. k \in m.prev_log_index .. LastIndex(m) /\ k <= k
            BY <4>6, <4>8, <5>1
          <6>2. QED
            BY <4>5, <4>7, <6>1
        <5>2. CASE ~(m.prev_log_index <= k)
          <6> DEFINE n == m.prev_log_index
          <6>1. n \in m.prev_log_index .. LastIndex(m) /\ k <= n /\ n \in 1 .. Len(log'[q])
            BY <1>2, <4>5, <4>6, <5>2
          <6>2. TermAt(log'[q], n) = t
            BY <4>5, <4>7, <6>1
          <6>3. ~Behind(t, n, t, k)
            BY <4>6, <6>1, NotBehindFacts
          <6>4. ~Overruled(k, t, t)'
            BY AtOnceNext, Zenon DEF NotAtOnce
          <6>5. LogsContain'
            BY LogContainsNext, Zenon DEF OrderInv
          <6> HIDE DEF n
          <6>6. /\ ~Behind(TermAt(log'[q], n), n, t, k)
                /\ ~Overruled(k, t, TermAt(log[q], n))'
            BY <6>2, <6>3, <6>4 DEF Overruled
          <6>7. QED
            BY <6>1, <6>5, <6>6, Zenon DEF LogsContain
        <5>3. QED
          BY <5>1, <5>2
      <4>10. LogHasCell'
        BY InLogNext, Zenon DEF LogInv
      <4>11. c \in CellsOf(LogPiece(log'[q]))
        BY <4>8, <4>9, <4>10, Zenon DEF LogHasCell
      <4>12. QED
        BY <4>4, <4>11
    <3>3. QED
      BY <3>1, <3>2
  <2>3. WasLeader(q, t)' \/ \E a \in appendResponses' :
          a.success /\ a.follower_id = q /\ a.term = t /\ a.match_index >= k
    BY Zenon DEF Acked
  <2>4. QED
    BY <1>3, <2>1, <2>2, <2>3
<1>4. CASE c \notin Cells
  <2>1. PICK i \in Server, e \in Entry : Extends(i, e) /\ c = NewCell(i, e)
    BY <1>4, CellsStep
  <2>2. /\ role[i] = Leader /\ current_term' = current_term /\ appendResponses' = appendResponses
    BY <2>1, Zenon DEF Extends
  <2>3. k = Len(log[i]) + 1 /\ t = current_term[i]
    BY <2>1 DEF NewCell, Extends
  <2>4. WasLeader(i, t)
    BY <2>2, <2>3, LeaderWasLeader
  <2>5. q = i
    <3>1. CASE WasLeader(q, t)'
      <4>1. WasLeader(i, t)'
        BY <2>4, WasLeaderStays
      <4>2. QED
        BY <1>1, <3>1, <4>1, Zenon DEF OneLeaderPerTerm
    <3>2. ASSUME NEW a \in appendResponses, a.success, a.term = t, a.match_index >= k PROVE FALSE
      <4>1. WasLeader(a.to, t) /\ a.to \in Server /\ a.match_index \in Nat
        BY <3>2, ReplyTyped, Zenon DEF ProgressInv, RepliesAddressed, ReplyTypes
      <4>2. a.to = i
        BY <1>1, <2>4, <4>1, Zenon DEF OneLeaderPerTerm
      <4>3. a.match_index <= Len(log[i])
        BY <2>2, <2>3, <3>2, <4>2 DEF ProgressInv, RepliesTruthful
      <4>4. Len(log[i]) \in Nat
        BY LogTyped DEF LogTypes
      <4>5. QED
        BY <2>3, <3>2, <4>1, <4>3, <4>4
    <3>3. WasLeader(q, t)' \/ \E a \in appendResponses' :
            a.success /\ a.follower_id = q /\ a.term = t /\ a.match_index >= k
      BY Zenon DEF Acked
    <3>4. QED
      BY <2>2, <3>1, <3>2, <3>3
  <2>6. c \in CellsOf(LogPiece(log'[i]))
    BY <2>1, ExtendedCells
  <2>7. current_term[i] \in Nat
    BY LogTyped DEF LogTypes
  <2>8. QED
    BY <2>2, <2>3, <2>5, <2>6, <2>7
<1>5. QED
  BY <1>3, <1>4

LEMMA AckedKept ==
    ASSUME Base, Base', Grows, NEW q \in Server, NEW k, NEW t \in Nat, Acked(q, k, t)
    PROVE  Acked(q, k, t)'
<1>1. CASE WasLeader(q, t)
  BY <1>1, WasLeaderStays DEF Acked
<1>2. ASSUME NEW a \in appendResponses, a.success, a.follower_id = q, a.term = t, a.match_index >= k
      PROVE  Acked(q, k, t)'
  <2>1. a \in appendResponses'
    BY DEF Grows
  <2>2. QED
    BY <1>2, <2>1, Zenon DEF Acked
<1>3. QED
  BY <1>1, <1>2, Zenon DEF Acked

LEMMA AckedStaysStep ==
    ASSUME Base, Base', LogInv, LogInv', ProgressInv, OrderInv, OrderInv', AckedStays, Grows, Shape
    PROVE  AckedStays'
<1> SUFFICES ASSUME NEW q \in Server, NEW c \in Cells', Acked(q, c.index, c.entry.term)'
             PROVE  /\ c.entry.term <= current_term'[q]
                    /\ \/ c \in CellsOf(LogPiece(log'[q]))
                       \/ Overruled(c.index, c.entry.term, current_term[q])'
  BY DEF AckedStays
<1> DEFINE k == c.index
           t == c.entry.term
<1>1. k \in Nat /\ t \in Nat
  BY CellTypedNext DEF CellTypes
<1>2. current_term[q] \in Nat /\ current_term'[q] \in Nat /\ current_term[q] <= current_term'[q]
  BY LogTyped, LogTypedNext DEF LogTypes, Grows
<1>3. PICK T \in Nat : T = current_term'[q]
  BY <1>2
<1>4. ASSUME Overruled(k, t, T) PROVE Overruled(c.index, c.entry.term, current_term[q])'
  <2>1. Overruled(k, t, T)'
    BY <1>4, OverruledStays
  <2>2. QED
    BY <1>3, <2>1 DEF Overruled
<1>5. CASE c \in Cells /\ Acked(q, k, t)
  <2>1. /\ t <= current_term[q]
        /\ c \in CellsOf(LogPiece(log[q])) \/ Overruled(k, t, current_term[q])
    BY <1>5, Zenon DEF AckedStays
  <2>2. t <= current_term'[q]
    BY <1>1, <1>2, <2>1
  <2>3. CASE Overruled(k, t, current_term[q])
    <3>1. Overruled(k, t, T)
      BY <1>2, <1>3, <2>3, OverruledLater, Zenon
    <3>2. QED
      BY <1>4, <2>2, <3>1, Zenon
  <2>4. CASE c \in CellsOf(LogPiece(log[q])) /\ ~Overruled(k, t, T)
    <3>1. c \in CellsOf(LogPiece(log'[q]))
      BY <1>3, <2>4, KeepsCell
    <3>2. QED
      BY <2>2, <3>1
  <2>5. QED
    BY <1>4, <2>1, <2>2, <2>3, <2>4, Zenon
<1>6. CASE current_term'[q] = t /\ c \in CellsOf(LogPiece(log'[q]))
  BY <1>1, <1>6
<1>7. \/ c \in Cells /\ Acked(q, k, t)
      \/ current_term'[q] = t /\ c \in CellsOf(LogPiece(log'[q]))
  BY <1>1, AckedStep, Zenon
<1>8. QED
  BY <1>5, <1>6, <1>7, Zenon

-----------------------------------------------------------------------------
(* Elections against acknowledgements                                      *)

LEMMA CoversStays ==
    ASSUME Base, Base', LogInv, LogInv', ProgressInv, OrderInv, OrderInv', Grows, Shape,
           NEW r \in requestVotes, NEW q \in Server, r.term <= current_term[q], Covers(r, q)
    PROVE  Covers(r, q)'
<1> SUFFICES ASSUME NEW c \in Cells', c.entry.term < r.term, Acked(q, c.index, c.entry.term)'
             PROVE  \/ ~Behind(r.last_log_term, r.last_log_index, c.entry.term, c.index)
                    \/ Overruled(c.index, c.entry.term, r.term - 1)'
  BY Zenon DEF Covers
<1>1. c.index \in Nat /\ c.entry.term \in Nat /\ r.term \in Nat /\ current_term[q] \in Nat
  BY CellTypedNext, RequestTyped, LogTyped DEF CellTypes, RequestTypes, LogTypes
<1>2. c \in Cells /\ Acked(q, c.index, c.entry.term)
  <2>1. ~(current_term[q] <= c.entry.term)
    BY <1>1
  <2>2. QED
    BY <1>1, <2>1, AckedStep
<1>3. CASE ~Behind(r.last_log_term, r.last_log_index, c.entry.term, c.index)
  BY <1>3, Zenon
<1>4. CASE Overruled(c.index, c.entry.term, r.term - 1)
  BY <1>4, OverruledStays
<1>5. QED
  BY <1>2, <1>3, <1>4, Zenon DEF Covers

\* Whoever has voted in a term has reached it.
LEMMA VotersInTerm ==
    ASSUME Base, RequestInv, NEW r \in requestVotes, NEW q \in Voters(r.candidate_id, r.term)
    PROVE  q \in Server /\ r.term <= current_term[q]
<1>1. r.candidate_id \in Server
  BY RequestTyped DEF RequestTypes
<1>2. CASE q = r.candidate_id
  BY <1>1, <1>2 DEF RequestInv, RequestsRemembered
<1>3. CASE q # r.candidate_id
  <2>1. q \in Server /\ \E v \in voteResponses : v.vote_granted /\ v.voter_id = q /\ v.term = r.term
    BY <1>3, Zenon DEF Voters
  <2>2. VotesRemembered
    BY Zenon DEF Base, ElectionInv, VoteInv
  <2>3. QED
    BY <2>1, <2>2 DEF VotesRemembered
<1>4. QED
  BY <1>2, <1>3

\* The end of a log is not behind any of its entries.
LEMMA EndNotBehind ==
    ASSUME Base, TermsOrdered, NEW i \in Server, NEW c \in CellsOf(LogPiece(log[i]))
    PROVE  ~Behind(LastTerm(log[i]), Len(log[i]), c.entry.term, c.index)
<1>1. log[i] \in Seq(Entry) /\ Len(log[i]) \in Nat
  BY LogTyped DEF LogTypes
<1>2. c \in Cells /\ c.index \in 1 .. Len(log[i]) /\ TermAt(log[i], c.index) = c.entry.term
  BY LogCellPlace DEF LogCellPlaces
<1>3. c.entry.term \in Nat
  BY <1>2, CellTyped DEF CellTypes
<1>4. TermAt(log[i], c.index) <= TermAt(log[i], Len(log[i]))
  BY <1>1, <1>2, LogTermsRise DEF LogsRise
<1>5. TermAt(log[i], Len(log[i])) \in Nat
  BY <1>1, LogTermsBound DEF LogsBound
<1>6. c.entry.term <= LastTerm(log[i]) /\ LastTerm(log[i]) \in Nat
  BY <1>1, <1>2, <1>4, <1>5, LastTermAt
<1>7. QED
  BY <1>1, <1>2, <1>3, <1>6, NotBehindFacts

\* As long as nobody has won term T, what is overruled by then was so before.
LEMMA OverruledEarlier ==
    ASSUME Base, NEW k, NEW t, NEW T \in Nat, NEW U \in Nat, U <= T, Overruled(k, t, U),
           \A j \in Server : ~Elected(j, T)
    PROVE  Overruled(k, t, T - 1)
<1>1. PICK r \in requestVotes : /\ t < r.term /\ r.term <= U /\ Elected(r.candidate_id, r.term)
                                /\ Behind(r.last_log_term, r.last_log_index, t, k)
  BY DEF Overruled
<1>2. r.term \in Nat /\ r.candidate_id \in Server
  BY RequestTyped DEF RequestTypes
<1>3. r.term # T
  BY <1>1, <1>2
<1>4. r.term <= T - 1
  BY <1>1, <1>2, <1>3
<1>5. QED
  BY <1>1, <1>4, Zenon DEF Overruled

\* A new voter's acknowledgements are covered by the log it votes for.
LEMMA NewVoterCovered ==
    ASSUME Base, Base', LogInv, LogInv', ProgressInv, OrderInv, OrderInv', AckedStays, Grows, Shape,
           NEW r \in requestVotes, NEW q \in Server,
           q \in Voters(r.candidate_id, r.term)', q \notin Voters(r.candidate_id, r.term),
           \A j \in Server : ~Elected(j, r.term)
    PROVE  Covers(r, q)'
<1>1. /\ r.term \in Nat /\ r.candidate_id \in Server
      /\ r.last_log_term \in Nat /\ r.last_log_index \in Nat
  BY RequestTyped DEF RequestTypes
<1>2. q # r.candidate_id
  BY <1>1, VotersServer
<1>3. PICK v \in voteResponses' : /\ v.vote_granted /\ v.voter_id = q
                                  /\ v.term = r.term /\ v.to = r.candidate_id
  BY <1>2, Zenon DEF Voters
<1>4. v \notin voteResponses
  BY <1>3, Zenon DEF Voters
<1>5. PICK s \in requestVotes : Casts(s)
  <2>1. voteResponses' # voteResponses
    BY <1>4
  <2>2. QED
    BY <2>1, Zenon DEF Shape, Campaigns, Wins, Ships, Extends, Receives, Rests
<1>6. /\ s.to = q /\ s.term = r.term /\ s.candidate_id = r.candidate_id
      /\ s.term >= current_term[q] /\ UpToDate(s, log[q])
  BY <1>3, <1>4, <1>5, Zenon DEF Casts
<1>7. s.last_log_term = r.last_log_term /\ s.last_log_index = r.last_log_index
  BY <1>6, Zenon DEF OrderInv, RequestsAlike
<1>8. log' = log /\ Cells' = Cells
  BY <1>5, SameCells DEF Casts
<1>9. log[q] \in Seq(Entry) /\ Len(log[q]) \in Nat /\ current_term[q] \in Nat
  BY LogTyped DEF LogTypes
<1>10. LastTerm(log[q]) \in Nat /\ TermsOrdered
  BY <1>9, LastTermAt, LogTermsBound DEF LogsBound, OrderInv
<1>11. ~Behind(r.last_log_term, r.last_log_index, LastTerm(log[q]), Len(log[q]))
  BY <1>1, <1>6, <1>7, <1>9, <1>10 DEF UpToDate, Behind
<1> SUFFICES ASSUME NEW c \in Cells', c.entry.term < r.term, Acked(q, c.index, c.entry.term)'
             PROVE  \/ ~Behind(r.last_log_term, r.last_log_index, c.entry.term, c.index)
                    \/ Overruled(c.index, c.entry.term, r.term - 1)'
  BY Zenon DEF Covers
<1>12. c.index \in Nat /\ c.entry.term \in Nat
  BY CellTypedNext, Zenon DEF CellTypes
<1>13. CASE c \in CellsOf(LogPiece(log[q]))
  <2>1. ~Behind(LastTerm(log[q]), Len(log[q]), c.entry.term, c.index)
    BY <1>10, <1>13, EndNotBehind, Zenon
  <2>2. ~Behind(r.last_log_term, r.last_log_index, c.entry.term, c.index)
    BY <1>1, <1>9, <1>10, <1>11, <1>12, <2>1 DEF Behind
  <2>3. QED
    BY <2>2, Zenon
<1>14. CASE Overruled(c.index, c.entry.term, current_term[q])
  <2>1. Overruled(c.index, c.entry.term, r.term - 1)
    BY <1>1, <1>6, <1>9, <1>14, OverruledEarlier, Zenon
  <2>2. QED
    BY <2>1, OverruledStays, Zenon
<1>15. \/ c \in Cells /\ Acked(q, c.index, c.entry.term)
       \/ c \in CellsOf(LogPiece(log[q]))
  BY <1>8, <1>12, AckedStep, Zenon
<1>16. QED
  BY <1>13, <1>14, <1>15, Zenon DEF AckedStays

\* A candidate's own log covers what it acknowledged itself.
LEMMA NewRequestCovered ==
    ASSUME Base, Base', LogInv, LogInv', ProgressInv, OrderInv, OrderInv', AckedStays, Grows, Shape,
           NEW r \in requestVotes' \ requestVotes
    PROVE  \A q \in Voters(r.candidate_id, r.term)' : Covers(r, q)'
<1>1. PICK i \in Server : Campaigns(i) /\ NewRequestOf(r, i)
  BY NewRequest
<1>2. log[i] \in Seq(Entry) /\ Len(log[i]) \in Nat /\ current_term[i] \in Nat
  BY LogTyped DEF LogTypes
<1>3. /\ r.candidate_id = i /\ r.term = current_term[i] + 1
      /\ r.last_log_index = Len(log[i]) /\ r.last_log_term = LastTerm(log[i])
  BY <1>1, Zenon DEF NewRequestOf
<1>4. log' = log /\ voteResponses' = voteResponses
      /\ current_term' = [current_term EXCEPT ![i] = @ + 1]
  BY <1>1, Zenon DEF Campaigns
<1>5. ASSUME NEW q \in Voters(r.candidate_id, r.term)' PROVE q = i
  <2>1. SUFFICES ASSUME q # i PROVE FALSE
    OBVIOUS
  <2>2. PICK v \in voteResponses : v.vote_granted /\ v.term = r.term /\ v.to = i
    BY <1>3, <1>4, <1>5, <2>1, Zenon DEF Voters
  <2>3. PICK s \in requestVotes : s.candidate_id = i /\ s.term = r.term
    BY <2>2, Zenon DEF LogInv, RequestInv, VotesRequested
  <2>4. s.term <= current_term[i]
    BY <2>3, Zenon DEF LogInv, RequestInv, RequestsRemembered
  <2>5. QED
    BY <1>2, <1>3, <2>3, <2>4
<1>6. Covers(r, i)'
  <2> SUFFICES ASSUME NEW c \in Cells', c.entry.term < r.term, Acked(i, c.index, c.entry.term)'
               PROVE  \/ ~Behind(r.last_log_term, r.last_log_index, c.entry.term, c.index)
                      \/ Overruled(c.index, c.entry.term, r.term - 1)'
    BY DEF Covers
  <2>1. c.index \in Nat /\ c.entry.term \in Nat
    BY CellTypedNext DEF CellTypes
  <2>2. current_term'[i] = r.term
    <3>1. current_term \in [Server -> Nat]
      BY Zenon DEF Base, Typed, TypeOK
    <3>2. QED
      BY <1>3, <1>4, <3>1, Zenon
  <2>3. c \in Cells /\ Acked(i, c.index, c.entry.term)
    <3>1. current_term'[i] # c.entry.term
      BY <1>2, <1>3, <2>1, <2>2
    <3>2. QED
      BY <2>1, <3>1, AckedStep, Zenon
  <2>4. CASE c \in CellsOf(LogPiece(log[i]))
    BY <1>3, <2>4, EndNotBehind, Zenon DEF OrderInv
  <2>5. CASE Overruled(c.index, c.entry.term, current_term[i])
    <3>1. current_term[i] = r.term - 1
      BY <1>2, <1>3
    <3>2. Overruled(c.index, c.entry.term, r.term - 1)
      BY <2>5, <3>1
    <3>3. QED
      BY <3>2, OverruledStays, Zenon
  <2>6. QED
    BY <2>3, <2>4, <2>5, Zenon DEF AckedStays
<1>7. QED
  BY <1>5, <1>6

LEMMA VotersCoveredStep ==
    ASSUME Base, Base', LogInv, LogInv', ProgressInv, OrderInv, OrderInv',
           AckedStays, VotersCovered, Grows, Shape
    PROVE  VotersCovered'
<1> SUFFICES ASSUME NEW r \in requestVotes'
             PROVE  \/ \E j \in Server : j # r.candidate_id /\ Elected(j, r.term)'
                    \/ \E Q \in SUBSET (Voters(r.candidate_id, r.term)') :
                          /\ IsQuorum(Q) \/ Q = Voters(r.candidate_id, r.term)'
                          /\ \A q \in Q : Covers(r, q)'
  BY Zenon DEF VotersCovered
<1> DEFINE V == Voters(r.candidate_id, r.term)
           W == Voters(r.candidate_id, r.term)'
<1>1. r.candidate_id \in Server
  BY RequestTypedNext DEF RequestTypes
<1>2. CASE r \notin requestVotes
  <2>1. \A q \in W : Covers(r, q)'
    BY <1>2, NewRequestCovered
  <2>2. QED
    BY <2>1, Zenon
<1>3. CASE r \in requestVotes
  <2>1. V \subseteq W /\ V \in SUBSET Server /\ W \in SUBSET Server
    <3>1. V \subseteq W /\ V \in SUBSET Server
      BY <1>1, ElectedStays, VotersServer
    <3>2. W \in SUBSET Server
      BY <1>1, Zenon DEF Voters
    <3>3. QED
      BY <3>1, <3>2
  <2>2. RequestInv
    BY Zenon DEF LogInv
  <2>3. ASSUME NEW q \in V, Covers(r, q) PROVE Covers(r, q)'
    <3>1. q \in Server /\ r.term <= current_term[q]
      BY <1>3, <2>2, VotersInTerm
    <3>2. QED
      BY <1>3, <2>3, <3>1, CoversStays
  <2>4. ASSUME NEW j \in Server, j # r.candidate_id, Elected(j, r.term)
        PROVE  \E x \in Server : x # r.candidate_id /\ Elected(x, r.term)'
    <3>1. Elected(j, r.term)'
      BY <2>4, ElectedStays
    <3>2. QED
      BY <2>4, <3>1, Zenon
  <2>5. ASSUME NEW Q \in SUBSET V, IsQuorum(Q), \A q \in Q : Covers(r, q)
        PROVE  \E P \in SUBSET W : /\ IsQuorum(P) \/ P = W
                                   /\ \A q \in P : Covers(r, q)'
    <3>1. Q \in SUBSET W
      BY <2>1
    <3>2. \A q \in Q : Covers(r, q)'
      BY <2>3, <2>5
    <3>3. QED
      BY <2>5, <3>1, <3>2, Zenon
  <2>6. ASSUME \A q \in V : Covers(r, q), ~IsQuorum(V),
               \A j \in Server : j # r.candidate_id => ~Elected(j, r.term)
        PROVE  \A q \in W : Covers(r, q)'
    <3>1. \A j \in Server : ~Elected(j, r.term)
      BY <2>6, Zenon DEF Elected
    <3>2. ASSUME NEW q \in W, q \notin V PROVE Covers(r, q)'
      <4>1. q \in Server
        BY <2>1
      <4>2. QED
        BY <1>3, <3>1, <3>2, <4>1, NewVoterCovered
    <3>3. QED
      BY <2>3, <2>6, <3>2
  <2>7. \/ \E j \in Server : j # r.candidate_id /\ Elected(j, r.term)
        \/ \E Q \in SUBSET V : /\ IsQuorum(Q) \/ Q = V
                               /\ \A q \in Q : Covers(r, q)
    BY <1>3, Zenon DEF VotersCovered
  <2> HIDE DEF V, W
  <2>8. \/ \E j \in Server : j # r.candidate_id /\ Elected(j, r.term)'
        \/ \E P \in SUBSET W : /\ IsQuorum(P) \/ P = W
                               /\ \A q \in P : Covers(r, q)'
    <3>1. CASE \E j \in Server : j # r.candidate_id /\ Elected(j, r.term)
      BY <2>4, <3>1, Zenon
    <3>2. CASE \E Q \in SUBSET V : IsQuorum(Q) /\ \A q \in Q : Covers(r, q)
      BY <2>5, <3>2, Zenon
    <3>3. CASE /\ \A q \in V : Covers(r, q)
               /\ ~\E j \in Server : j # r.candidate_id /\ Elected(j, r.term)
               /\ ~\E Q \in SUBSET V : IsQuorum(Q) /\ \A q \in Q : Covers(r, q)
      <4>1. V \in SUBSET V /\ W \in SUBSET W
        OBVIOUS
      <4>2. ~IsQuorum(V)
        BY <3>3, <4>1, Zenon
      <4>3. \A q \in W : Covers(r, q)'
        BY <2>6, <3>3, <4>2, Zenon
      <4>4. QED
        BY <4>1, <4>3, Zenon
    <3>4. QED
      BY <2>7, <3>1, <3>2, <3>3, Zenon
  <2>9. QED
    BY <2>8, Zenon DEF W
<1>4. QED
  BY <1>2, <1>3

-----------------------------------------------------------------------------
(* Committed entries                                                       *)

\* A committed entry is never overruled: the voters of whoever is elected later include
\* one that acknowledged it.
CommittedsSafe == \A k, t, T \in Nat : Committed(k, t) => ~Overruled(k, t, T)

LEMMA CommittedSafe == Base /\ RequestInv /\ VotersCovered => CommittedsSafe
<1> SUFFICES ASSUME Base, RequestInv, VotersCovered, NEW k \in Nat, NEW t \in Nat, NEW T \in Nat,
                    Committed(k, t), Overruled(k, t, T)
             PROVE  FALSE
  BY DEF CommittedsSafe
<1> DEFINE Bad(r) == /\ t < r.term /\ Elected(r.candidate_id, r.term)
                     /\ Behind(r.last_log_term, r.last_log_index, t, k)
           S == {v \in Nat : \E r \in requestVotes : r.term = v /\ Bad(r)}
<1>1. PICK c \in Cells : c.index = k /\ c.entry.term = t
  BY DEF Committed
<1>2. PICK P \in SUBSET Server : IsQuorum(P) /\ \A q \in P : Acked(q, k, t)
  BY DEF Committed
<1>3. \A r \in requestVotes : r.term \in Nat /\ r.candidate_id \in Server
  BY RequestTyped, Zenon DEF RequestTypes
<1>4. S # {} /\ S \in SUBSET Nat
  BY <1>3 DEF Overruled
<1> HIDE DEF S
<1>5. PICK v \in S : \A w \in S : v <= w
  BY <1>4, LeastNumber
<1>6. PICK r \in requestVotes : r.term = v /\ Bad(r)
  BY <1>5 DEF S
<1>7. r.term \in Nat /\ r.candidate_id \in Server
  BY <1>3
<1>8. ~Overruled(k, t, r.term - 1)
  <2>1. SUFFICES ASSUME NEW s \in requestVotes, r.term - 1 >= s.term, Bad(s)
                 PROVE  FALSE
    BY <1>3, <1>7 DEF Overruled
  <2>2. s.term \in Nat /\ s.term \in S
    BY <1>3, <2>1 DEF S
  <2>3. r.term <= s.term
    BY <1>5, <1>6, <2>2
  <2>4. QED
    BY <1>7, <2>1, <2>2, <2>3
<1>9. ASSUME NEW j \in Server, Elected(j, r.term) PROVE j = r.candidate_id
  BY <1>6, <1>7, <1>9, ElectedUnique
<1>10. Voters(r.candidate_id, r.term) \in SUBSET Server
  BY <1>7, VotersServer
<1>11. PICK Q \in SUBSET Voters(r.candidate_id, r.term) :
          /\ IsQuorum(Q) \/ Q = Voters(r.candidate_id, r.term)
          /\ \A q \in Q : Covers(r, q)
  BY <1>9, Zenon DEF VotersCovered
<1>12. IsQuorum(Q) /\ Q \in SUBSET Server
  BY <1>6, <1>10, <1>11 DEF Elected
<1>13. PICK q \in Server : q \in P /\ q \in Q
  BY <1>2, <1>12, QuorumsMeet
<1>14. Covers(r, q) /\ Acked(q, k, t)
  BY <1>2, <1>11, <1>13
<1>15. QED
  BY <1>1, <1>6, <1>8, <1>14, Zenon DEF Covers

LEMMA CommittedSafeNext == Base' /\ RequestInv' /\ VotersCovered' => CommittedsSafe'
BY CommittedSafe, PTL

\* An entry that is committed stays so.
LEMMA CommittedStays ==
    ASSUME Base, Base', LogInv, OrderInv, AckedStays, VotersCovered, Grows, Shape,
           NEW k \in Nat, NEW t \in Nat, Committed(k, t)
    PROVE  Committed(k, t)'
<1>1. PICK c \in Cells : c.index = k /\ c.entry.term = t
  BY DEF Committed
<1>2. PICK Q \in SUBSET Server : IsQuorum(Q) /\ \A q \in Q : Acked(q, k, t)
  BY DEF Committed
<1>3. PICK q \in Server : q \in Q
  BY <1>2, QuorumsMeet
<1>4. current_term[q] \in Nat /\ current_term'[q] \in Nat
  BY LogTyped, LogTypedNext DEF LogTypes
<1>5. ~Overruled(k, t, current_term[q]) /\ ~Overruled(k, t, current_term'[q])
  BY <1>4, CommittedSafe DEF CommittedsSafe, LogInv
<1>6. c \in CellsOf(LogPiece(log[q]))
  BY <1>1, <1>2, <1>3, <1>5, Zenon DEF AckedStays
<1>7. c \in CellsOf(LogPiece(log'[q]))
  BY <1>1, <1>5, <1>6, KeepsCell, Zenon
<1>8. c \in Cells'
  BY <1>7, CellIntroNext
<1>9. \A x \in Q : Acked(x, k, t)'
  BY <1>2, AckedKept
<1>10. QED
  BY <1>1, <1>2, <1>8, <1>9, Zenon DEF Committed

\* What a node has up to a committed entry it keeps.
LEMMA FoundedStays ==
    ASSUME Base, Base', LogInv, OrderInv, AckedStays, VotersCovered, Grows, Shape,
           NEW i \in Server, NEW k \in Nat, k >= 1, CommittedIn(log[i], k)
    PROVE  CommittedIn(log[i], k)' /\ KeepsUpTo(i, k)
<1>1. log[i] \in Seq(Entry) /\ Len(log[i]) \in Nat /\ Len(log'[i]) \in Nat /\ current_term'[i] \in Nat
  BY LogTyped, LogTypedNext, Zenon DEF LogTypes
<1>2. PICK n \in k .. Len(log[i]) : Committed(n, log[i][n].term)
  BY DEF CommittedIn
<1>3. n \in 1 .. Len(log[i]) /\ n \in Nat
  BY <1>1
<1>4. PICK c \in CellsOf(LogPiece(log[i])) : c \in Cells /\ c.index = n /\ c.entry.term = TermAt(log[i], n)
  BY <1>3, LogCell DEF LogCellsExist, CellIs
<1>5. TermAt(log[i], n) = log[i][n].term
  BY <1>3 DEF TermAt
<1>6. PICK t \in Nat : t = c.entry.term
  BY <1>4, CellTyped DEF CellTypes
<1>7. Committed(n, t)
  BY <1>2, <1>4, <1>5, <1>6
<1>8. ~Overruled(c.index, c.entry.term, current_term'[i])
  BY <1>1, <1>3, <1>4, <1>6, <1>7, CommittedSafe, Zenon DEF CommittedsSafe, LogInv
<1>9. KeepsUpTo(i, n)
  BY <1>4, <1>8, KeepsCell, Zenon
<1>10. Committed(n, t)'
  BY <1>3, <1>7, CommittedStays
<1>11. KeepsUpTo(i, k)
  BY <1>1, <1>9 DEF KeepsUpTo
<1>12. n \in k .. Len(log'[i]) /\ log'[i][n].term = t
  <2>1. n <= Len(log'[i]) /\ log'[i][n] = log[i][n]
    BY <1>1, <1>3, <1>9 DEF KeepsUpTo
  <2>2. QED
    BY <1>1, <1>4, <1>5, <1>6, <2>1
<1>13. Committed(n, log[i][n].term)'
  BY <1>10, <1>12, Zenon DEF Committed, Acked
<1>14. QED
  BY <1>11, <1>12, <1>13, Zenon DEF CommittedIn

-----------------------------------------------------------------------------
(* Commit indices and applied entries                                      *)

CommitTypes ==
    \A i \in Server : /\ commit_index[i] \in Nat /\ commit_index[i] <= Len(log[i])
                      /\ last_applied[i] \in Nat /\ applied[i] \in Seq(Entry)

LEMMA CommitTyped == Base => CommitTypes
<1> SUFFICES ASSUME Base, NEW i \in Server
             PROVE  /\ commit_index[i] \in Nat /\ commit_index[i] <= Len(log[i])
                    /\ last_applied[i] \in Nat /\ applied[i] \in Seq(Entry)
  BY DEF CommitTypes
<1>1. /\ commit_index \in [Server -> Nat] /\ last_applied \in [Server -> Nat]
      /\ applied \in [Server -> Seq(Entry)] /\ CommitInLog
  BY Zenon DEF Base, Typed, TypeOK
<1>2. QED
  BY <1>1 DEF CommitInLog

LEMMA CommitTypedNext == Base' => CommitTypes'
BY CommitTyped, PTL

\* What is committed at the index and term of a log's own entry.
LEMMA CommittedHere ==
    ASSUME Base', NEW i \in Server, NEW k \in Nat, NEW n \in Nat, NEW t \in Nat,
           Committed(n, t)', n >= 1, k <= n, n <= Len(log'[i]), TermAt(log'[i], n) = t
    PROVE  CommittedIn(log[i], k)'
<1>1. n \in k .. Len(log'[i]) /\ log'[i][n].term = t
  BY LogTypedNext DEF LogTypes, TermAt
<1>2. Committed(n, log[i][n].term)'
  BY <1>1 DEF Committed, Acked
<1>3. QED
  BY <1>1, <1>2, Zenon DEF CommittedIn

\* The commit index that a follower takes from an AppendEntries is founded.
LEMMA FollowerFounded ==
    ASSUME Base, Base', LogInv, LogInv', OrderInv, OrderInv', AckedStays,
           VotersCovered, VotersCovered', CommitsFounded, Grows, Shape,
           NEW m \in appendEntries, Receives(m), NEW q \in Server, q = m.to,
           NEW k \in Nat, k >= 1, k = FollowerCommit(m, log'[q])
    PROVE  CommittedIn(log[q], k)'
<1>1. Len(log'[q]) \in Nat
  BY LogTypedNext, Zenon DEF LogTypes
<1>2. /\ m.leader_commit \in Nat /\ m.prev_log_index \in Nat /\ LastIndex(m) \in Nat
      /\ m.prev_log_index <= LastIndex(m) /\ PieceTerm(m, LastIndex(m)) \in Nat
  BY AppendTyped, Zenon DEF AppendTypes, Base, Typed, TypeOK, AppendEntriesMsg
<1>3. k <= m.leader_commit /\ m.leader_commit # 0
  BY <1>1, <1>2 DEF FollowerCommit
<1>4. PICK n \in m.leader_commit .. LastIndex(m), t \in 0 .. PieceTerm(m, LastIndex(m)) :
         Committed(n, t)
  BY <1>3, Zenon DEF CommitsFounded
<1>5. n \in Nat /\ t \in Nat /\ n >= 1 /\ k <= n /\ n <= LastIndex(m) /\ t <= PieceTerm(m, LastIndex(m))
  BY <1>2, <1>3, <1>4
<1>6. Committed(n, t)'
  BY <1>4, <1>5, CommittedStays, Zenon
<1>7. PICK c \in Cells' : c.index = n /\ c.entry.term = t
  BY <1>6, Zenon DEF Committed
<1>8. LastIndex(m) <= Len(log'[q]) /\ TermAt(log'[q], LastIndex(m)) = PieceTerm(m, LastIndex(m))
  <2>1. LastIndex(m) \in m.prev_log_index .. LastIndex(m)
    BY <1>2
  <2>2. QED
    BY <2>1, ReceivedCells, Zenon
<1>9. LastIndex(m) \in 1 .. Len(log'[q])
  BY <1>1, <1>2, <1>5, <1>8
<1>10. PICK last \in Nat, T \in Nat : last = LastIndex(m) /\ T = PieceTerm(m, LastIndex(m))
  BY <1>2
<1>11. ~Behind(T, last, t, n)
  BY <1>5, <1>10, NotBehindFacts
<1>12. ~Overruled(n, t, T)'
  BY <1>5, <1>6, CommittedSafeNext, Zenon DEF CommittedsSafe, LogInv
<1>13. TermAt(log'[q], last) = T /\ last \in 1 .. Len(log'[q])
  BY <1>8, <1>9, <1>10, Zenon
<1>14. ~Overruled(n, t, TermAt(log[q], last))'
  BY <1>12, <1>13, Zenon DEF Overruled
<1>15. LogsContain'
  BY LogContainsNext, Zenon DEF OrderInv
<1>16. TermAt(log'[q], n) = t
  BY <1>7, <1>11, <1>13, <1>14, <1>15, Zenon DEF LogsContain
<1>17. n <= Len(log'[q])
  BY <1>1, <1>2, <1>5, <1>8
<1>18. QED
  BY <1>5, <1>6, <1>16, <1>17, CommittedHere, Zenon

LEMMA LeaderWasLeaderNext ==
    (Base => \A i \in Server : role[i] = Leader => WasLeader(i, current_term[i]))'
BY LeaderWasLeader, PTL

\* What a leader counts on a majority is committed.
LEMMA LeaderFounded ==
    ASSUME Base, Base', ProgressInv', NEW i \in Server,
           role'[i] = Leader, current_term'[i] = current_term[i],
           NEW k \in Nat, k >= 1, k <= Len(log'[i]),
           Committable(i, log'[i], match_index'[i], k)
    PROVE  CommittedIn(log[i], k)'
<1>1. PICK t \in Nat : t = current_term[i]
  BY LogTyped, Zenon DEF LogTypes
<1>2. Len(log'[i]) \in Nat /\ TermAt(log'[i], k) = t
  BY <1>1, LogTypedNext DEF LogTypes, Committable, TermAt
<1>3. PICK A : A = {p \in Server : match_index'[i][p] >= k}
  BY Zenon
<1>4. Cardinality(A) + 1 >= Cardinality(Server) \div 2 + 1
  BY <1>3, MajorityOfCluster DEF Committable
<1>5. MatchFromReply'
  BY Zenon DEF ProgressInv
<1>6. A \in SUBSET Server /\ i \in Server \ A
  BY <1>3, <1>5 DEF MatchFromReply
<1>7. Cardinality(A \cup {i}) = Cardinality(A) + 1
  BY <1>6, Zenon DEF Base, Quorums
<1>8. IsQuorum(A \cup {i}) /\ A \cup {i} \in SUBSET Server
  BY <1>4, <1>6, <1>7 DEF IsQuorum
<1>9. Acked(i, k, t)'
  <2>1. WasLeader(i, current_term[i])'
    BY LeaderWasLeaderNext, Zenon
  <2>2. WasLeader(i, t)'
    BY <1>1, <2>1, Zenon DEF WasLeader, Elected, Voters
  <2>3. QED
    BY <2>2, Zenon DEF Acked
<1>10. ASSUME NEW p \in A PROVE Acked(p, k, t)'
  <2>1. p \in Server /\ match_index'[i][p] >= k
    BY <1>3
  <2>2. match_index'[i][p] # 0
    BY <2>1
  <2>3. Replied(i, p, current_term[i], match_index[i][p])'
    BY <1>5, <2>1, <2>2, Zenon DEF MatchFromReply
  <2>4. PICK a \in appendResponses' : /\ a.success /\ a.follower_id = p
                                      /\ a.term = current_term'[i] /\ a.match_index = match_index'[i][p]
    BY <2>3, Zenon DEF Replied
  <2>5. a.term = t /\ a.match_index >= k
    BY <1>1, <2>1, <2>4
  <2>6. QED
    BY <2>4, <2>5, Zenon DEF Acked
<1>11. PICK c \in Cells' : c.index = k /\ c.entry.term = t
  <2>1. k \in 1 .. Len(log'[i])
    BY <1>2
  <2>2. QED
    BY <1>2, <2>1, LogCellNext, Zenon DEF LogCellsExist, CellIs
<1>12. \A p \in A \cup {i} : Acked(p, k, t)'
  BY <1>9, <1>10, Zenon
<1>13. Committed(k, t)'
  BY <1>8, <1>11, <1>12, Zenon DEF Committed
<1>14. k <= k
  OBVIOUS
<1>15. QED
  BY <1>2, <1>13, <1>14, CommittedHere

\* What a step makes of one node's indices.
LEMMA CommitsAt ==
    ASSUME Base, Base', Commits, NEW i \in Server
    PROVE  /\ \/ UNCHANGED <<last_applied[i], applied[i]>>
              \/ /\ last_applied'[i] = IF commit_index'[i] > last_applied[i]
                                       THEN commit_index'[i] ELSE last_applied[i]
                 /\ applied'[i] = applied[i] \o SubSeq(log'[i], last_applied[i] + 1, commit_index'[i])
           /\ \/ commit_index'[i] = commit_index[i]
              \/ \E m \in appendEntries : /\ Receives(m) /\ m.to = i
                                          /\ commit_index'[i] = FollowerCommit(m, log'[i])
              \/ /\ role'[i] = Leader /\ current_term'[i] = current_term[i]
                 /\ commit_index'[i] <= Len(log'[i])
                 /\ Committable(i, log'[i], match_index'[i], commit_index'[i])
<1>1. /\ commit_index \in [Server -> Nat] /\ last_applied \in [Server -> Nat]
      /\ applied \in [Server -> Seq(Entry)]
  BY Zenon DEF Base, Typed, TypeOK
<1>2. ASSUME NEW j \in Server, Applies(j)
      PROVE  \/ UNCHANGED <<last_applied[i], applied[i]>>
             \/ /\ last_applied'[i] = IF commit_index'[i] > last_applied[i]
                                      THEN commit_index'[i] ELSE last_applied[i]
                /\ applied'[i] = applied[i] \o SubSeq(log'[i], last_applied[i] + 1, commit_index'[i])
  BY <1>1, <1>2, Zenon DEF Applies
<1>3. CASE UNCHANGED <<commit_index, last_applied, applied>>
  BY <1>3, Zenon
<1>4. ASSUME NEW m \in appendEntries, Follows(m)
      PROVE  /\ Applies(m.to) /\ m.to \in Server
             /\ \/ commit_index'[i] = commit_index[i]
                \/ Receives(m) /\ m.to = i /\ commit_index'[i] = FollowerCommit(m, log'[i])
  <2>1. Receives(m) /\ Applies(m.to) /\ m.to \in Server
    BY <1>4, AppendTyped, Zenon DEF Follows, AppendTypes
  <2>2. commit_index' = [commit_index EXCEPT ![m.to] = FollowerCommit(m, log'[m.to])]
    BY <1>4, Zenon DEF Follows
  <2>3. QED
    BY <1>1, <2>1, <2>2, Zenon
<1>5. ASSUME NEW j \in Server, Decides(j)
      PROVE  /\ Applies(j)
             /\ \/ commit_index'[i] = commit_index[i]
                \/ /\ role'[i] = Leader /\ current_term'[i] = current_term[i]
                   /\ commit_index'[i] <= Len(log'[i])
                   /\ Committable(i, log'[i], match_index'[i], commit_index'[i])
  <2>1. Applies(j) /\ role'[j] = Leader /\ current_term'[j] = current_term[j]
    BY <1>5, Zenon DEF Decides
  <2>2. PICK c \in commit_index[j] .. Len(log'[j]) :
          /\ c # commit_index[j] => Committable(j, log'[j], match_index'[j], c)
          /\ commit_index' = [commit_index EXCEPT ![j] = c]
    BY <1>5, Zenon DEF Decides
  <2>3. CASE i # j
    BY <1>1, <2>1, <2>2, <2>3, Zenon
  <2>4. CASE i = j
    <3>1. commit_index'[i] = c
      BY <1>1, <2>2, <2>4
    <3>2. c <= Len(log'[i])
      BY <1>1, <2>2, <2>4, LogTypedNext DEF LogTypes
    <3>3. QED
      BY <2>1, <2>2, <2>4, <3>1, <3>2, Zenon
  <2>5. QED
    BY <2>3, <2>4, Zenon
<1>6. QED
  BY <1>2, <1>3, <1>4, <1>5, Zenon DEF Commits

LEMMA CommitsFoundedStep ==
    ASSUME Base, Base', LogInv, LogInv', ProgressInv', OrderInv, OrderInv', AckedStays,
           VotersCovered, VotersCovered', CommitsFounded, Grows, Shape, Commits
    PROVE  CommitsFounded'
<1>1. ASSUME NEW i \in Server, NEW k \in Nat, k # 0, k = commit_index'[i]
      PROVE  CommittedIn(log[i], k)'
  <2>1. k >= 1 /\ Len(log'[i]) \in Nat
    BY <1>1, LogTypedNext DEF LogTypes
  <2>2. CASE k = commit_index[i]
    <3>1. CommittedIn(log[i], k)
      BY <1>1, <2>2 DEF CommitsFounded
    <3>2. QED
      BY <2>1, <3>1, FoundedStays
  <2>3. ASSUME NEW m \in appendEntries, Receives(m), m.to = i, k = FollowerCommit(m, log'[i])
        PROVE  CommittedIn(log[i], k)'
    BY <2>1, <2>3, FollowerFounded
  <2>4. CASE /\ role'[i] = Leader /\ current_term'[i] = current_term[i]
             /\ k <= Len(log'[i]) /\ Committable(i, log'[i], match_index'[i], k)
    BY <2>1, <2>4, LeaderFounded, Zenon
  <2>5. \/ k = commit_index[i]
        \/ \E m \in appendEntries : Receives(m) /\ m.to = i /\ k = FollowerCommit(m, log'[i])
        \/ /\ role'[i] = Leader /\ current_term'[i] = current_term[i]
           /\ k <= Len(log'[i]) /\ Committable(i, log'[i], match_index'[i], k)
    BY <1>1, CommitsAt, Zenon
  <2>6. QED
    BY <2>2, <2>3, <2>4, <2>5, Zenon
<1>2. ASSUME NEW i \in Server, NEW k \in Nat, k # 0, k = last_applied'[i]
      PROVE  CommittedIn(log[i], k)'
  <2>1. commit_index'[i] \in Nat /\ last_applied[i] \in Nat
    BY CommitTyped, CommitTypedNext, Zenon DEF CommitTypes
  <2>2. k = last_applied[i] \/ k = commit_index'[i]
    BY <1>2, CommitsAt, Zenon
  <2>3. CASE k = last_applied[i]
    <3>1. CommittedIn(log[i], k)
      BY <1>2, <2>3, Zenon DEF CommitsFounded
    <3>2. QED
      BY <1>2, <3>1, FoundedStays
  <2>4. CASE k = commit_index'[i]
    BY <1>1, <1>2, <2>4
  <2>5. QED
    BY <2>2, <2>3, <2>4
<1>3. ASSUME NEW m \in appendEntries', m.leader_commit # 0
      PROVE  \E n \in m.leader_commit .. LastIndex(m) : \E t \in 0 .. PieceTerm(m, LastIndex(m)) :
                Committed(n, t)'
  <2>1. /\ m.leader_commit \in Nat /\ m.prev_log_index \in Nat /\ LastIndex(m) \in Nat
        /\ m.prev_log_index <= LastIndex(m) /\ PieceTerm(m, LastIndex(m)) \in Nat
    BY AppendTypedNext, Zenon DEF AppendTypes, Base, Typed, TypeOK, AppendEntriesMsg
  <2>2. CASE m \in appendEntries
    <3>1. PICK n \in m.leader_commit .. LastIndex(m), t \in 0 .. PieceTerm(m, LastIndex(m)) :
             Committed(n, t)
      BY <1>3, <2>2, Zenon DEF CommitsFounded
    <3>2. n \in Nat /\ t \in Nat
      BY <2>1
    <3>3. Committed(n, t)'
      BY <3>1, <3>2, CommittedStays
    <3>4. QED
      BY <3>3
  <2>3. CASE m \notin appendEntries
    <3> DEFINE j == m.leader_id
    <3>1. /\ j \in Server /\ EndOfLog(m, log'[j]) /\ m.leader_commit = commit_index[j]
      BY <2>3, SenderLeads
    <3>2. CommittedIn(log[j], m.leader_commit)
      BY <1>3, <3>1 DEF CommitsFounded
    <3>3. CommittedIn(log[j], m.leader_commit)'
      BY <1>3, <2>1, <3>1, <3>2, FoundedStays
    <3>4. PICK n \in m.leader_commit .. Len(log'[j]) : Committed(n, log[j][n].term)'
      BY <3>3, Zenon DEF CommittedIn
    <3>5. /\ Len(log'[j]) = LastIndex(m) /\ n \in Nat /\ n >= 1 /\ n <= LastIndex(m)
          /\ n \in m.leader_commit .. LastIndex(m)
      BY <1>3, <2>1, <3>1, <3>4 DEF EndOfLog
    <3>6. PieceTerm(m, LastIndex(m)) = TermAt(log'[j], LastIndex(m))
      BY <2>1, <3>1 DEF EndOfLog
    <3>7. /\ TermAt(log'[j], n) <= TermAt(log'[j], LastIndex(m))
          /\ TermAt(log'[j], n) \in Nat
      BY <2>1, <3>1, <3>5, LogTermsRiseNext, LogTermsBoundNext DEF LogsRise, LogsBound, OrderInv
    <3>8. PICK t \in Nat : t = TermAt(log'[j], n)
      BY <3>7
    <3>9. log'[j][n].term = t
      BY <3>5, <3>8 DEF TermAt
    <3>10. Committed(n, t)'
      BY <3>4, <3>9, Zenon DEF Committed, Acked
    <3>11. t \in 0 .. PieceTerm(m, LastIndex(m))
      BY <2>1, <3>6, <3>7, <3>8
    <3>12. QED
      BY <3>5, <3>10, <3>11, Zenon
  <2>4. QED
    BY <2>2, <2>3
<1>4. ASSUME NEW i \in Server, commit_index'[i] # 0 PROVE CommittedIn(log[i], commit_index[i])'
  <2>1. PICK k \in Nat : k = commit_index'[i]
    BY CommitTypedNext DEF CommitTypes
  <2>2. CommittedIn(log[i], k)'
    BY <1>1, <1>4, <2>1
  <2>3. QED
    BY <2>1, <2>2 DEF CommittedIn
<1>5. ASSUME NEW i \in Server, last_applied'[i] # 0 PROVE CommittedIn(log[i], last_applied[i])'
  <2>1. PICK k \in Nat : k = last_applied'[i]
    BY CommitTypedNext DEF CommitTypes
  <2>2. CommittedIn(log[i], k)'
    BY <1>2, <1>5, <2>1
  <2>3. QED
    BY <2>1, <2>2 DEF CommittedIn
<1>6. QED
  BY <1>3, <1>4, <1>5, Zenon DEF CommitsFounded

\* Applying the entries up to c extends what was applied by what the log has.
LEMMA AppliedGrows ==
    ASSUME NEW a \in Seq(Entry), NEW l \in Seq(Entry), NEW c \in Nat, c <= Len(l), Prefix(a, l)
    PROVE  /\ Len(a \o SubSeq(l, Len(a) + 1, c)) = IF c > Len(a) THEN c ELSE Len(a)
           /\ Prefix(a \o SubSeq(l, Len(a) + 1, c), l)
<1> DEFINE s == SubSeq(l, Len(a) + 1, c)
<1>1. /\ s \in Seq(Entry) /\ Len(s) = IF c > Len(a) THEN c - Len(a) ELSE 0
      /\ \A k \in 1 .. Len(s) : s[k] = l[Len(a) + k]
  BY DEF Prefix
<1> HIDE DEF s
<1>2. /\ a \o s \in Seq(Entry) /\ Len(a \o s) = Len(a) + Len(s)
      /\ \A k \in 1 .. Len(a) + Len(s) : (a \o s)[k] = IF k <= Len(a) THEN a[k] ELSE s[k - Len(a)]
  BY <1>1
<1>3. Len(a \o s) = IF c > Len(a) THEN c ELSE Len(a)
  BY <1>1, <1>2
<1>4. Prefix(a \o s, l)
  BY <1>1, <1>2, <1>3 DEF Prefix
<1>5. QED
  BY <1>3, <1>4 DEF s

LEMMA AppliedInLogStep ==
    ASSUME Base, Base', LogInv, OrderInv, AckedStays, VotersCovered, CommitsFounded,
           AppliedInLog, Grows, Shape, Commits
    PROVE  AppliedInLog'
<1> SUFFICES ASSUME NEW i \in Server
             PROVE  Len(applied'[i]) = last_applied'[i] /\ Prefix(applied'[i], log'[i])
  BY DEF AppliedInLog, Prefix
<1>1. /\ applied[i] \in Seq(Entry) /\ last_applied[i] \in Nat
      /\ commit_index'[i] \in Nat /\ commit_index'[i] <= Len(log'[i])
  BY CommitTyped, CommitTypedNext DEF CommitTypes
<1>2. log[i] \in Seq(Entry) /\ log'[i] \in Seq(Entry)
  BY LogTyped, LogTypedNext DEF LogTypes
<1>3. Len(applied[i]) = last_applied[i] /\ Prefix(applied[i], log[i])
  BY DEF AppliedInLog
<1>4. Prefix(applied[i], log'[i])
  <2>1. CASE last_applied[i] = 0
    BY <1>1, <1>2, <1>3, <2>1 DEF Prefix
  <2>2. CASE last_applied[i] # 0
    <3>1. PICK k \in Nat : k = last_applied[i]
      BY <1>1
    <3>2. CommittedIn(log[i], k)
      BY <2>2, <3>1, Zenon DEF CommitsFounded
    <3>3. KeepsUpTo(i, k)
      BY <2>2, <3>1, <3>2, FoundedStays
    <3>4. QED
      BY <1>1, <1>2, <1>3, <3>1, <3>3 DEF KeepsUpTo, Prefix
  <2>3. QED
    BY <2>1, <2>2
<1>5. CASE UNCHANGED <<last_applied[i], applied[i]>>
  BY <1>3, <1>4, <1>5
<1>6. CASE /\ last_applied'[i] = IF commit_index'[i] > last_applied[i]
                                 THEN commit_index'[i] ELSE last_applied[i]
           /\ applied'[i] = applied[i] \o SubSeq(log'[i], last_applied[i] + 1, commit_index'[i])
  <2> DEFINE grown == applied[i] \o SubSeq(log'[i], Len(applied[i]) + 1, commit_index'[i])
  <2>1. /\ Len(grown) = IF commit_index'[i] > Len(applied[i]) THEN commit_index'[i] ELSE Len(applied[i])
        /\ Prefix(grown, log'[i])
    BY <1>1, <1>2, <1>4, AppliedGrows, Zenon
  <2>2. applied'[i] = grown
    BY <1>3, <1>6, Zenon
  <2> HIDE DEF grown
  <2>3. QED
    BY <1>3, <1>6, <2>1, <2>2, Zenon
<1>7. QED
  BY <1>5, <1>6, CommitsAt, Zenon

LEMMA CommitInvStep ==
    ASSUME Base, Base', LogInv, LogInv', ProgressInv, ProgressInv', OrderInv, OrderInv', CommitInv,
           Grows, Shape, Commits
    PROVE  CommitInv'
<1>1. AckedStays /\ VotersCovered /\ CommitsFounded /\ AppliedInLog
  BY Zenon DEF CommitInv
<1>2. AckedStays' /\ VotersCovered'
  BY <1>1, AckedStaysStep, VotersCoveredStep, Zenon
<1>3. CommitsFounded' /\ AppliedInLog'
  BY <1>1, <1>2, CommitsFoundedStep, AppliedInLogStep, Zenon
<1>4. QED
  BY <1>2, <1>3, Zenon DEF CommitInv

-----------------------------------------------------------------------------
(* Initially                                                               *)

LEMMA OrderInvInit == Init => OrderInv /\ CommitInv
<1> SUFFICES ASSUME Init PROVE OrderInv /\ CommitInv
  OBVIOUS
<1>1. /\ requestVotes = {} /\ appendEntries = {} /\ appendResponses = {}
      /\ \A i \in Server : /\ log[i] = << >> /\ commit_index[i] = 0 /\ last_applied[i] = 0
                           /\ applied[i] = << >>
  BY DEF Init
<1>2. Cells = {} /\ \A i \in Server : CellsOf(LogPiece(log[i])) = {}
  <2>1. << >> \in Seq(Entry) /\ Len(<< >>) = 0
    OBVIOUS
  <2>2. CellsOf(LogPiece(<< >>)) = {}
    <3>1. ASSUME NEW c \in CellsOf(LogPiece(<< >>)) PROVE FALSE
      <4>1. c.index \in 1 .. Len(<< >>)
        BY <2>1, CellInLog, Zenon
      <4>2. QED
        BY <2>1, <4>1
    <3>2. QED
      BY <3>1
  <2>3. \A i \in Server : CellsOf(LogPiece(log[i])) = {}
    BY <1>1, <2>2
  <2>4. QED
    BY <1>1, <2>3, CellOrigin, Zenon
<1>3. OrderInv
  BY <1>1, <1>2, Zenon DEF OrderInv, TermsOrdered, TermsContiguous, CellsOrdered, RequestsAlike,
     RequestsPlaced, RequestsTruthful, RequestsBounded, AppendsOwn, AppendsElected, AppendsContinued
<1>4. AckedStays /\ VotersCovered /\ CommitsFounded
  BY <1>1, <1>2, Zenon DEF AckedStays, VotersCovered, CommitsFounded
<1>5. AppliedInLog
  BY <1>1 DEF AppliedInLog, Prefix
<1>6. QED
  BY <1>3, <1>4, <1>5 DEF CommitInv

-----------------------------------------------------------------------------
(* What the invariants say                                                 *)

\* A log with an entry that is not behind a committed one agrees with the log of the
\* committed one up to it.
LEMMA CommittedAgree ==
    ASSUME Base, LogInv, OrderInv, CommitInv, NEW i \in Server, NEW j \in Server,
           NEW c \in CellsOf(LogPiece(log[i])), NEW d \in CellsOf(LogPiece(log[j])),
           Committed(d.index, d.entry.term),
           ~Behind(c.entry.term, c.index, d.entry.term, d.index)
    PROVE  d.index <= Len(log[i]) /\ \A n \in 1 .. d.index : log[i][n] = log[j][n]
<1>1. /\ c \in Cells /\ c.index \in 1 .. Len(log[i]) /\ TermAt(log[i], c.index) = c.entry.term
      /\ d \in Cells /\ d.index \in 1 .. Len(log[j]) /\ TermAt(log[j], d.index) = d.entry.term
  BY LogCellPlace, Zenon DEF LogCellPlaces
<1>2. c.entry.term \in Nat /\ d.entry.term \in Nat /\ d.index \in Nat
      /\ Len(log[i]) \in Nat /\ Len(log[j]) \in Nat
  BY <1>1, CellTyped, LogTyped, Zenon DEF CellTypes, LogTypes
<1>3. ~Overruled(d.index, d.entry.term, c.entry.term)
  BY <1>2, CommittedSafe, Zenon DEF CommittedsSafe, LogInv, CommitInv
<1>4. LogsContain
  BY LogContains, Zenon DEF OrderInv
<1>5. d.index <= c.index /\ TermAt(log[i], d.index) = d.entry.term
  BY <1>1, <1>3, <1>4, Zenon DEF LogsContain
<1>6. d.index <= Len(log[i]) /\ d.index <= Len(log[j])
  BY <1>1, <1>2, <1>5
<1>7. \A n \in 1 .. d.index : log[i][n] = log[j][n]
  <2>1. TermAt(log[i], d.index) = TermAt(log[j], d.index)
    BY <1>1, <1>5, Zenon
  <2>2. CellsUnique
    BY Zenon DEF LogInv
  <2>3. QED
    BY <1>2, <1>6, <2>1, <2>2, LogsAgree
<1>8. QED
  BY <1>6, <1>7, Zenon

\* The committed entry that a founded index rests on.
LEMMA FoundedCell ==
    ASSUME Base, NEW i \in Server, NEW k \in Nat, k # 0, CommittedIn(log[i], k)
    PROVE  \E c \in CellsOf(LogPiece(log[i])) :
              /\ c \in Cells /\ k <= c.index /\ c.index \in 1 .. Len(log[i])
              /\ Committed(c.index, c.entry.term)
<1>1. Len(log[i]) \in Nat
  BY LogTyped DEF LogTypes
<1>2. PICK n \in k .. Len(log[i]) : Committed(n, log[i][n].term)
  BY DEF CommittedIn
<1>3. n \in 1 .. Len(log[i]) /\ k <= n
  BY <1>1
<1>4. PICK c \in CellsOf(LogPiece(log[i])) : c \in Cells /\ c.index = n /\ c.entry.term = TermAt(log[i], n)
  BY <1>3, LogCell, Zenon DEF LogCellsExist, CellIs
<1>5. TermAt(log[i], n) = log[i][n].term
  BY <1>3 DEF TermAt
<1>6. QED
  BY <1>2, <1>3, <1>4, <1>5, Zenon

\* Two nodes agree on what both have founded.
LEMMA FoundedAgree ==
    ASSUME Base, LogInv, OrderInv, CommitInv, NEW i \in Server, NEW j \in Server,
           NEW k \in Nat, NEW h \in Nat, k # 0, h # 0,
           CommittedIn(log[i], k), CommittedIn(log[j], h)
    PROVE  \A n \in Nat : 1 <= n /\ n <= k /\ n <= h => log[i][n] = log[j][n]
<1>1. PICK c \in CellsOf(LogPiece(log[i])) :
         /\ c \in Cells /\ k <= c.index /\ Committed(c.index, c.entry.term)
  BY FoundedCell
<1>2. PICK d \in CellsOf(LogPiece(log[j])) :
         /\ d \in Cells /\ h <= d.index /\ Committed(d.index, d.entry.term)
  BY FoundedCell
<1>3. c.index \in Nat /\ c.entry.term \in Nat /\ d.index \in Nat /\ d.entry.term \in Nat
  BY <1>1, <1>2, CellTyped, Zenon DEF CellTypes
<1>4. CASE ~Behind(c.entry.term, c.index, d.entry.term, d.index)
  <2>1. \A n \in 1 .. d.index : log[i][n] = log[j][n]
    BY <1>2, <1>4, CommittedAgree, Zenon
  <2>2. QED
    BY <1>2, <1>3, <2>1
<1>5. CASE ~Behind(d.entry.term, d.index, c.entry.term, c.index)
  <2>1. \A n \in 1 .. c.index : log[j][n] = log[i][n]
    BY <1>1, <1>5, CommittedAgree, Zenon
  <2>2. QED
    BY <1>1, <1>3, <2>1
<1>6. QED
  BY <1>3, <1>4, <1>5 DEF Behind

LEMMA CommitInvStateMachine == Base /\ LogInv /\ OrderInv /\ CommitInv => StateMachineSafety
<1> SUFFICES ASSUME Base, LogInv, OrderInv, CommitInv, NEW i \in Server, NEW j \in Server
             PROVE  Prefix(applied[i], applied[j]) \/ Prefix(applied[j], applied[i])
  BY DEF StateMachineSafety
<1>1. /\ applied[i] \in Seq(Entry) /\ applied[j] \in Seq(Entry)
      /\ last_applied[i] \in Nat /\ last_applied[j] \in Nat
  BY CommitTyped, Zenon DEF CommitTypes
<1>2. /\ Len(applied[i]) = last_applied[i] /\ Prefix(applied[i], log[i])
      /\ Len(applied[j]) = last_applied[j] /\ Prefix(applied[j], log[j])
  BY Zenon DEF CommitInv, AppliedInLog
<1>3. CASE last_applied[i] = 0 \/ last_applied[j] = 0
  BY <1>1, <1>2, <1>3 DEF Prefix
<1>4. CASE last_applied[i] # 0 /\ last_applied[j] # 0
  <2>1. CommittedIn(log[i], last_applied[i]) /\ CommittedIn(log[j], last_applied[j])
    BY <1>4, Zenon DEF CommitInv, CommitsFounded
  <2>2. \A n \in Nat : 1 <= n /\ n <= last_applied[i] /\ n <= last_applied[j] => log[i][n] = log[j][n]
    BY <1>1, <1>4, <2>1, FoundedAgree, Zenon
  <2>3. QED
    BY <1>1, <1>2, <2>2 DEF Prefix
<1>5. QED
  BY <1>3, <1>4, Zenon

LEMMA CommitInvComplete == Base /\ LogInv /\ OrderInv /\ CommitInv => LeaderCompleteness
<1> SUFFICES ASSUME Base, LogInv, OrderInv, CommitInv, NEW i \in Server, NEW j \in Server,
                    role[i] = Leader, current_term[j] <= current_term[i]
             PROVE  Prefix(applied[j], log[i])
  BY DEF LeaderCompleteness
<1>1. /\ applied[j] \in Seq(Entry) /\ last_applied[j] \in Nat /\ log[i] \in Seq(Entry)
      /\ current_term[i] \in Nat /\ current_term[j] \in Nat /\ Len(log[j]) \in Nat
  BY CommitTyped, LogTyped DEF CommitTypes, LogTypes
<1>2. Len(applied[j]) = last_applied[j] /\ Prefix(applied[j], log[j])
  BY Zenon DEF CommitInv, AppliedInLog
<1>3. CASE last_applied[j] = 0
  BY <1>1, <1>2, <1>3 DEF Prefix
<1>4. CASE last_applied[j] # 0
  <2>1. CommittedIn(log[j], last_applied[j])
    BY <1>4, Zenon DEF CommitInv, CommitsFounded
  <2>2. PICK c \in CellsOf(LogPiece(log[j])) :
           /\ c \in Cells /\ last_applied[j] <= c.index /\ c.index \in 1 .. Len(log[j])
           /\ Committed(c.index, c.entry.term)
    BY <1>1, <1>4, <2>1, FoundedCell, Zenon
  <2>3. c.entry.term \in Nat /\ c.index \in Nat
    BY <2>2, CellTyped DEF CellTypes
  <2>4. c.entry.term <= current_term[j]
    BY <2>2, Zenon DEF OrderInv, TermsOrdered
  <2>5. ~Overruled(c.index, c.entry.term, current_term[i])
    BY <1>1, <2>2, <2>3, CommittedSafe, Zenon DEF CommittedsSafe, LogInv, CommitInv
  <2>6. c.index <= Len(log[i]) /\ TermAt(log[i], c.index) = c.entry.term
    <3>1. CASE c.entry.term < current_term[i]
      BY <2>2, <2>5, <3>1, LeaderCovers, Zenon DEF OrderInv
    <3>2. CASE c.entry.term = current_term[i]
      <4>1. c \in CellsOf(LogPiece(log[i]))
        BY <2>2, <3>2, Zenon DEF LogInv, LeaderOwnsTerm
      <4>2. c.index \in 1 .. Len(log[i]) /\ TermAt(log[i], c.index) = c.entry.term
        BY <4>1, LogCellPlace DEF LogCellPlaces
      <4>3. QED
        BY <1>1, <4>2
    <3>3. c.entry.term < current_term[i] \/ c.entry.term = current_term[i]
      BY <1>1, <2>3, <2>4
    <3>4. QED
      BY <3>1, <3>2, <3>3, Zenon
  <2>7. c.index <= Len(log[j]) /\ TermAt(log[j], c.index) = c.entry.term
    BY <1>1, <2>2, LogCellPlace DEF LogCellPlaces
  <2>8. \A n \in 1 .. c.index : log[i][n] = log[j][n]
    BY <2>3, <2>6, <2>7, LogsAgree, Zenon DEF LogInv
  <2>9. QED
    BY <1>1, <1>2, <2>2, <2>3, <2>6, <2>8 DEF Prefix
<1>5. QED
  BY <1>3, <1>4

-----------------------------------------------------------------------------
(* Clients                                                                 *)

\* A request that a node answers is placed after the step as PendingPlaced says.
LEMMA MinePlaced ==
    ASSUME Base, Base', LogInv, LogInv', Grows, Shape, PendingPlaced, NEW i \in Server, NEW x,
           Mine(i, x)
    PROVE  Placed(i, x)'
<1>1. /\ \A j \in Server : /\ current_term[j] \in Nat /\ Len(log[j]) \in Nat
                           /\ Len(log'[j]) \in Nat /\ log[j] \in Seq(Entry)
      /\ \A j \in Server : role[j] = Leader => WasLeader(j, current_term[j])
  BY LogTyped, LogTypedNext, LeaderWasLeader, Zenon DEF LogTypes
<1>2. CASE x \in pending_requests[i]
  <2>1. x.index \in Nat /\ x.term \in Nat
    BY <1>2 DEF Base, Typed, TypeOK
  <2>2. Placed(i, x)
    BY <1>2, Zenon DEF PendingPlaced
  <2>3. WasLeader(i, x.term) /\ x.index >= 1
    BY <2>2, Zenon DEF Placed
  <2>4. WasLeader(i, x.term)'
    BY <2>1, <2>3, WasLeaderStays
  <2>5. ASSUME role'[i] = Leader, current_term'[i] = x.term
        PROVE  x.index <= Len(log'[i])
    <3>1. CASE role[i] = Leader /\ current_term'[i] = current_term[i] /\ LogGrows(log[i], log'[i])
      <4>1. x.index <= Len(log[i])
        BY <2>2, <2>5, <3>1, Zenon DEF Placed
      <4>2. Len(log[i]) <= Len(log'[i])
        BY <3>1, Zenon DEF LogGrows
      <4>3. QED
        BY <1>1, <2>1, <4>1, <4>2
    <3>2. QED
      BY <2>3, <2>5, <3>1, LeaderStep, Zenon
  <2>6. ASSUME NEW c \in Cells', c.index = x.index, c.entry.term = x.term
        PROVE  c.entry.payload = CommandPayload(x.request)
    <3>1. CASE c \in Cells
      BY <2>2, <2>6, <3>1, Zenon DEF Placed
    <3>2. ASSUME NEW j \in Server, NEW e \in Entry, Extends(j, e), c = NewCell(j, e)
          PROVE  FALSE
      <4>1. c.index = Len(log[j]) + 1 /\ c.entry = e
        BY <3>2 DEF NewCell
      <4>2. role[j] = Leader /\ x.term = current_term[j]
        BY <2>6, <3>2, <4>1, Zenon DEF Extends
      <4>3. WasLeader(j, x.term)
        BY <1>1, <4>2, Zenon
      <4>4. i = j
        BY <2>1, <2>3, <4>3, OneLeader DEF OneLeaderPerTerm, LogInv
      <4>5. x.index <= Len(log[j])
        BY <2>2, <4>2, <4>4, Zenon DEF Placed
      <4>6. QED
        BY <1>1, <2>1, <2>6, <4>1, <4>5
    <3>3. QED
      BY <2>6, <3>1, <3>2, CellsStep, Zenon
  <2>7. QED
    BY <2>3, <2>4, <2>5, <2>6, Zenon DEF Placed
<1>3. CASE NewPending(i, x)
  <2>1. PICK e \in Entry : /\ Extends(i, e) /\ x.index = Len(log[i]) + 1 /\ x.term = current_term[i]
                           /\ e.payload = CommandPayload(x.request)
    BY <1>3, Zenon DEF NewPending
  <2>2. role[i] = Leader /\ e.term = current_term[i]
    BY <2>1, Zenon DEF Extends
  <2>3. WasLeader(i, x.term) /\ x.term \in Nat
    BY <1>1, <2>1, <2>2, Zenon
  <2>4. WasLeader(i, x.term)'
    BY <2>3, WasLeaderStays
  <2>5. log'[i] = Append(log[i], e) /\ NewCell(i, e) \in Cells'
    BY <2>1, ExtendedCells, Zenon
  <2>6. x.index >= 1 /\ x.index <= Len(log'[i])
    BY <1>1, <2>1, <2>5
  <2>7. ASSUME NEW c \in Cells', c.index = x.index, c.entry.term = x.term
        PROVE  c.entry.payload = CommandPayload(x.request)
    <3>1. NewCell(i, e).index = x.index /\ NewCell(i, e).entry = e
      BY <2>1, Zenon DEF NewCell
    <3>2. c = NewCell(i, e)
      <4>1. NewCell(i, e).index = c.index /\ NewCell(i, e).entry.term = c.entry.term
        BY <2>1, <2>2, <2>7, <3>1, Zenon
      <4>2. CellsUnique'
        BY Zenon DEF LogInv
      <4>3. QED
        BY <2>5, <2>7, <4>1, <4>2, Zenon DEF CellsUnique
    <3>3. QED
      BY <2>1, <3>1, <3>2, Zenon
  <2>8. QED
    BY <2>4, <2>6, <2>7, Zenon DEF Placed
<1>4. QED
  BY <1>2, <1>3 DEF Mine

LEMMA PendingPlacedStep ==
    ASSUME Base, Base', LogInv, LogInv', Grows, Shape, PendingPlaced, Serves
    PROVE  PendingPlaced'
<1> SUFFICES ASSUME NEW i \in Server, NEW x \in pending_requests'[i]
             PROVE  Placed(i, x)'
  BY DEF PendingPlaced
<1>1. Mine(i, x)
  BY Zenon DEF Serves
<1>2. QED
  BY <1>1, MinePlaced, Zenon

\* What is applied stays applied.
LEMMA AppliedStays ==
    ASSUME Base, Base', Commits, NEW j \in Server, NEW k \in 1 .. Len(applied[j])
    PROVE  k \in 1 .. Len(applied'[j]) /\ applied'[j][k] = applied[j][k]
<1>1. /\ applied \in [Server -> Seq(Entry)] /\ applied[j] \in Seq(Entry) /\ log'[j] \in Seq(Entry)
      /\ last_applied[j] \in Nat /\ commit_index'[j] \in Nat /\ commit_index'[j] <= Len(log'[j])
  <2>1. applied \in [Server -> Seq(Entry)]
    BY Zenon DEF Base, Typed, TypeOK
  <2>2. QED
    BY <2>1, CommitTyped, CommitTypedNext, LogTypedNext DEF CommitTypes, LogTypes
<1>2. CASE applied'[j] = applied[j]
  BY <1>2
<1>3. ASSUME NEW i \in Server, Applies(i)
      PROVE  applied'[j] = applied[j] \/ i = j
  BY <1>1, <1>3, Zenon DEF Applies
<1>4. CASE Applies(j)
  <2> DEFINE s == SubSeq(log'[j], last_applied[j] + 1, commit_index'[j])
  <2>1. applied'[j] = applied[j] \o s
    BY <1>1, <1>4, Zenon DEF Applies
  <2>2. s \in Seq(Entry)
    BY <1>1
  <2> HIDE DEF s
  <2>3. QED
    BY <1>1, <2>1, <2>2
<1>5. \A m \in appendEntries : m.to \in Server
  BY Zenon DEF Base, Typed, TypeOK, AppendEntriesMsg
<1>6. applied' = applied \/ \E i \in Server : Applies(i)
  BY <1>5, Zenon DEF Commits, Follows, Decides
<1>7. QED
  BY <1>2, <1>3, <1>4, <1>6, Zenon

LEMMA AnsweredAppliedStep ==
    ASSUME Base, Base', LogInv, LogInv', Grows, Shape, PendingPlaced, AnsweredApplied,
           AppliedInLog', Commits, Serves
    PROVE  AnsweredApplied'
<1> SUFFICES ASSUME NEW r \in clientResponses', r.success
             PROVE  \E j \in Server : AppliedAt(j, r)'
  BY DEF AnsweredApplied
<1>1. CASE r \in clientResponses
  <2>1. PICK j \in Server : AppliedAt(j, r)
    BY <1>1, Zenon DEF AnsweredApplied
  <2>2. r.index \in 1 .. Len(applied[j])
    BY <2>1, Zenon DEF AppliedAt
  <2>3. r.index \in 1 .. Len(applied'[j]) /\ applied'[j][r.index] = applied[j][r.index]
    BY <2>2, AppliedStays
  <2>4. AppliedAt(j, r)'
    BY <2>1, <2>3, Zenon DEF AppliedAt
  <2>5. QED
    BY <2>4, Zenon
<1>2. CASE r \notin clientResponses
  <2>1. PICK i \in Server : \E x : Mine(i, x) /\ Answered(i, x, r)
    BY <1>2, Zenon DEF Serves
  <2>2. PICK x : Mine(i, x) /\ Answered(i, x, r)
    BY <2>1, Zenon
  <2>3. Placed(i, x)'
    BY <2>2, MinePlaced
  <2>4. /\ Applies(i) /\ x.index \in last_applied[i] + 1 .. commit_index'[i]
        /\ log'[i][x.index].term = x.term
        /\ r.index = x.index /\ r.term = x.term /\ r.request = x.request
    BY <2>2, Zenon DEF Answered
  <2>5. /\ last_applied \in [Server -> Nat] /\ last_applied[i] \in Nat /\ commit_index'[i] \in Nat
        /\ commit_index'[i] <= Len(log'[i]) /\ log'[i] \in Seq(Entry)
    <3>1. last_applied \in [Server -> Nat]
      BY Zenon DEF Base, Typed, TypeOK
    <3>2. QED
      BY <3>1, CommitTypedNext, LogTypedNext DEF CommitTypes, LogTypes
  <2>6. x.index \in 1 .. Len(log'[i]) /\ x.index <= last_applied'[i] /\ last_applied'[i] \in Nat
    BY <2>4, <2>5 DEF Applies
  <2>7. Len(applied'[i]) = last_applied'[i] /\ Prefix(applied'[i], log'[i])
    BY DEF AppliedInLog, Prefix
  <2>8. x.index \in 1 .. Len(applied'[i]) /\ applied'[i][x.index] = log'[i][x.index]
    BY <2>6, <2>7 DEF Prefix
  <2>9. PICK c \in CellsOf(LogPiece(log'[i])) : c \in Cells' /\ c.index = x.index
    BY <2>6, LogCellNext, Zenon DEF LogCellsExist, CellIs
  <2>10. c.entry = log'[i][x.index]
    BY <2>9, LogCellPlaceNext, Zenon DEF LogCellPlaces
  <2>11. log'[i][x.index].payload = CommandPayload(x.request)
    BY <2>3, <2>4, <2>9, <2>10, Zenon DEF Placed
  <2>12. log'[i][x.index] \in Entry
    BY <2>5, <2>6
  <2>13. log'[i][x.index] = [term |-> x.term, payload |-> CommandPayload(x.request)]
    BY <2>4, <2>11, <2>12, Zenon DEF Entry
  <2>14. AppliedAt(i, r)'
    BY <2>4, <2>8, <2>13, Zenon DEF AppliedAt
  <2>15. QED
    BY <2>14, Zenon
<1>3. QED
  BY <1>1, <1>2

LEMMA ClientInvStep ==
    ASSUME Base, Base', LogInv, LogInv', CommitInv', ClientInv, Grows, Shape, Commits, Serves
    PROVE  ClientInv'
<1>1. AppliedInLog' /\ PendingPlaced /\ AnsweredApplied
  BY DEF CommitInv, ClientInv
<1>2. QED
  BY <1>1, PendingPlacedStep, AnsweredAppliedStep DEF ClientInv

LEMMA ClientInvInit == Init => ClientInv
BY DEF Init, ClientInv, PendingPlaced, AnsweredApplied

\* A write that was answered with success is in the log of the leader of the newest term.
LEMMA ClientInvDurable ==
    Base /\ LogInv /\ OrderInv /\ CommitInv /\ ClientInv => AcknowledgedWriteDurable
<1> SUFFICES ASSUME Base, LeaderCompleteness, AnsweredApplied,
                    NEW r \in clientResponses, NEW i \in Server, r.success, role[i] = Leader,
                    \A j \in Server : current_term[j] <= current_term[i]
             PROVE  /\ r.index \in 1 .. Len(log[i])
                    /\ log[i][r.index] = [term |-> r.term, payload |-> CommandPayload(r.request)]
  BY CommitInvComplete, Zenon DEF ClientInv, AcknowledgedWriteDurable
<1>1. PICK j \in Server : AppliedAt(j, r)
  BY Zenon DEF AnsweredApplied
<1>2. Prefix(applied[j], log[i])
  BY Zenon DEF LeaderCompleteness
<1>3. applied[j] \in Seq(Entry) /\ log[i] \in Seq(Entry)
  BY CommitTyped, LogTyped, Zenon DEF CommitTypes, LogTypes
<1>4. QED
  BY <1>1, <1>2, <1>3 DEF AppliedAt, Prefix

=============================================================================
