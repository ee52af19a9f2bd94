----------------------------- MODULE RaftCells -----------------------------
(***************************************************************************)
(* What the proofs about Raft's logs are built from: facts about pieces    *)
(* and cells of logs, about majorities, and about the few shapes that the  *)
(* steps of the nodes come down to.                                        *)
(***************************************************************************)
EXTENDS RaftSafety, TLAPS

\* A leaf that names no prover is tried with each of these, in this order.
USE SMT, Zenon, SMTT(60), ZenonT(60)

-----------------------------------------------------------------------------
(* Two facts of mathematics that the arguments rest on.  They are          *)
(* hypotheses here and proved in RaftTheorems, where the libraries of      *)
(* finite sets and well-founded relations are at hand.                     *)

\* Descent: every non-empty set of numbers has a least one.
Descent == \A S \in SUBSET Nat : S # {} => \E n \in S : \A k \in S : n <= k

\* Majorities of the cluster: what counts as one, and that two of them meet.
Quorums ==
    /\ Cardinality(Server) \in Nat
    /\ \A i \in Server : Cardinality({i}) = 1
    /\ \A i \in Server : Cardinality(Server \ {i}) + 1 = Cardinality(Server)
    /\ \A A \in SUBSET Server : \A i \in Server \ A :
          Cardinality(A \cup {i}) = Cardinality(A) + 1
    /\ \A i \in Server : IsQuorum({i}) => Server = {i}
    /\ \A A, B \in SUBSET Server : IsQuorum(A) /\ A \subseteq B => IsQuorum(B)
    /\ \A A, B \in SUBSET Server : IsQuorum(A) /\ IsQuorum(B) => \E q \in Server : q \in A /\ q \in B

\* Every index of a log, the sentinel's included, has a term.
LEMMA TermAtNat ==
    ASSUME NEW l \in Seq(Entry), NEW k \in 0 .. Len(l)
    PROVE  TermAt(l, k) \in Nat
<1>1. CASE k = 0
  BY <1>1 DEF TermAt
<1>2. CASE k # 0
  <2>1. l[k] \in Entry
    BY <1>2
  <2>2. QED
    BY <1>2, <2>1 DEF TermAt, Entry
<1>3. QED
  BY <1>1, <1>2

-----------------------------------------------------------------------------
(* Pieces and cells                                                        *)

Cell  == [index : Nat \ {0}, entry : Entry, before : Nat]

\* The fields of a piece that cells are made of.
PieceOK(p) ==
    /\ p.prev_log_index \in Nat /\ p.prev_log_term \in Nat /\ p.entries \in Seq(Entry)

LEMMA LogPieceOK ==
    ASSUME NEW l \in Seq(Entry)
    PROVE  /\ PieceOK(LogPiece(l))
           /\ LogPiece(l).prev_log_index = 0
           /\ LogPiece(l).entries = l
           /\ LastIndex(LogPiece(l)) = Len(l)
           /\ \A k \in 0 .. Len(l) : PieceTerm(LogPiece(l), k) = TermAt(l, k)
           /\ \A k \in 1 .. Len(l) :
                 CellAt(LogPiece(l), k) = [index |-> k, entry |-> l[k], before |-> TermAt(l, k - 1)]
<1>1. Len(l) \in Nat
  OBVIOUS
<1>2. /\ LogPiece(l).prev_log_index = 0 /\ LogPiece(l).prev_log_term = 0
      /\ LogPiece(l).entries = l
  BY DEF LogPiece
<1>3. \A k \in 0 .. Len(l) : PieceTerm(LogPiece(l), k) = TermAt(l, k)
  BY <1>1, <1>2 DEF PieceTerm, TermAt
<1>4. \A k \in 1 .. Len(l) : k - 1 \in 0 .. Len(l) /\ k - 0 = k
  BY <1>1
<1>5. \A k \in 1 .. Len(l) :
         CellAt(LogPiece(l), k) = [index |-> k, entry |-> l[k], before |-> TermAt(l, k - 1)]
  BY <1>2, <1>3, <1>4 DEF CellAt
<1>6. PieceOK(LogPiece(l)) /\ LastIndex(LogPiece(l)) = Len(l)
  BY <1>1, <1>2 DEF PieceOK, LastIndex
<1>7. QED
  BY <1>2, <1>3, <1>5, <1>6

LEMMA PieceTermType ==
    ASSUME NEW p, PieceOK(p)
    PROVE  /\ LastIndex(p) \in Nat /\ p.prev_log_index <= LastIndex(p)
           /\ \A k \in p.prev_log_index .. LastIndex(p) : PieceTerm(p, k) \in Nat
           /\ \A k \in p.prev_log_index + 1 .. LastIndex(p) :
                 /\ CellAt(p, k) \in Cell
                 /\ CellAt(p, k).index = k
                 /\ CellAt(p, k).entry = p.entries[k - p.prev_log_index]
                 /\ CellAt(p, k).entry.term = PieceTerm(p, k)
                 /\ CellAt(p, k).before = PieceTerm(p, k - 1)
<1> DEFINE prev == p.prev_log_index
           es   == p.entries
<1>1. prev \in Nat /\ p.prev_log_term \in Nat /\ es \in Seq(Entry) /\ Len(es) \in Nat
  BY DEF PieceOK
<1>2. LastIndex(p) = prev + Len(es)
  BY DEF LastIndex
<1>3. \A k \in prev + 1 .. LastIndex(p) : k - prev \in 1 .. Len(es) /\ k # prev /\ k \in Nat \ {0}
  BY <1>1, <1>2
<1>4. \A n \in 1 .. Len(es) : es[n] \in Entry
  BY <1>1
<1>5. \A k \in prev + 1 .. LastIndex(p) : PieceTerm(p, k) = es[k - prev].term /\ es[k - prev] \in Entry
  BY <1>3, <1>4 DEF PieceTerm
<1>6. \A k \in prev .. LastIndex(p) : k = prev \/ k \in prev + 1 .. LastIndex(p)
  BY <1>1, <1>2
<1>7. \A k \in prev .. LastIndex(p) : PieceTerm(p, k) \in Nat
  <2>1. PieceTerm(p, prev) \in Nat
    BY <1>1 DEF PieceTerm
  <2>2. \A k \in prev + 1 .. LastIndex(p) : PieceTerm(p, k) \in Nat
    BY <1>5 DEF Entry
  <2>3. QED
    BY <1>6, <2>1, <2>2
<1>8. ASSUME NEW k \in prev + 1 .. LastIndex(p)
      PROVE  /\ CellAt(p, k) \in Cell
             /\ CellAt(p, k).index = k
             /\ CellAt(p, k).entry = es[k - prev]
             /\ CellAt(p, k).entry.term = PieceTerm(p, k)
             /\ CellAt(p, k).before = PieceTerm(p, k - 1)
  <2>1. k - 1 \in prev .. LastIndex(p)
    BY <1>1, <1>2
  <2>2. PieceTerm(p, k - 1) \in Nat
    BY <1>7, <2>1
  <2>3. CellAt(p, k) = [index |-> k, entry |-> es[k - prev], before |-> PieceTerm(p, k - 1)]
    BY DEF CellAt
  <2>4. QED
    BY <1>3, <1>5, <2>2, <2>3 DEF Cell
<1>9. LastIndex(p) \in Nat /\ prev <= LastIndex(p)
  BY <1>1, <1>2
<1>10. QED
  BY <1>7, <1>8, <1>9

LEMMA PieceBounds ==
    ASSUME NEW p, PieceOK(p)
    PROVE  /\ p.prev_log_index \in Nat /\ LastIndex(p) \in Nat
           /\ LastIndex(p) \in p.prev_log_index .. LastIndex(p)
<1>1. p.prev_log_index \in Nat /\ LastIndex(p) \in Nat /\ p.prev_log_index <= LastIndex(p)
  BY PieceTermType, Zenon DEF PieceOK
<1>2. QED
  BY <1>1

\* Logs and messages of a typed state are pieces.
LEMMA PiecesTyped ==
    ASSUME TypeOK
    PROVE  /\ \A p \in Pieces : PieceOK(p)
           /\ \A i \in Server : LogPiece(log[i]) \in Pieces
           /\ \A m \in appendEntries : m \in Pieces
           /\ Cells \subseteq Cell
<1>1. \A i \in Server : log[i] \in Seq(Entry)
  BY DEF TypeOK
<1>2. \A i \in Server : PieceOK(LogPiece(log[i]))
  BY <1>1, LogPieceOK
<1>3. \A m \in appendEntries : PieceOK(m)
  BY Zenon DEF TypeOK, AppendEntriesMsg, PieceOK
<1>4. \A p \in Pieces : PieceOK(p)
  BY <1>2, <1>3 DEF Pieces
<1>5. \A p \in Pieces : CellsOf(p) \subseteq Cell
  BY <1>4, PieceTermType DEF CellsOf
<1>6. Cells \subseteq Cell
  BY <1>5 DEF Cells
<1>7. QED
  BY <1>4, <1>6 DEF Pieces
\* An entry of a log, and one of a message, is a cell.
LEMMA CellOfPiece ==
    ASSUME NEW p \in Pieces, NEW k \in p.prev_log_index + 1 .. LastIndex(p)
    PROVE  CellAt(p, k) \in CellsOf(p) /\ CellAt(p, k) \in Cells
BY DEF CellsOf, Cells

LEMMA CellOfLog ==
    ASSUME TypeOK, NEW i \in Server, NEW k \in 1 .. Len(log[i])
    PROVE  [index |-> k, entry |-> log[i][k], before |-> TermAt(log[i], k - 1)] \in Cells
<1> DEFINE p == LogPiece(log[i])
<1>1. log[i] \in Seq(Entry)
  BY DEF TypeOK
<1>2. p \in Pieces
  BY PiecesTyped
<1>3. p.prev_log_index = 0 /\ LastIndex(p) = Len(log[i])
  BY <1>1, LogPieceOK
<1>4. k \in p.prev_log_index + 1 .. LastIndex(p)
  BY <1>3
<1>5. CellAt(p, k) \in Cells
  BY <1>2, <1>4, CellOfPiece
<1>6. QED
  BY <1>1, <1>5, LogPieceOK

\* The cells of a log, one by one.
LEMMA LogCells ==
    ASSUME NEW l \in Seq(Entry)
    PROVE  CellsOf(LogPiece(l)) =
             {[index |-> k, entry |-> l[k], before |-> TermAt(l, k - 1)] : k \in 1 .. Len(l)}
<1>1. /\ LogPiece(l).prev_log_index + 1 = 1
      /\ LastIndex(LogPiece(l)) = Len(l)
  BY LogPieceOK
<1>2. \A k \in 1 .. Len(l) :
         CellAt(LogPiece(l), k) = [index |-> k, entry |-> l[k], before |-> TermAt(l, k - 1)]
  BY LogPieceOK
<1>3. CellsOf(LogPiece(l)) = {CellAt(LogPiece(l), k) : k \in 1 .. Len(l)}
  BY <1>1 DEF CellsOf
<1>4. QED
  BY <1>2, <1>3

\* A cell of a log: its entry is at its index.
LEMMA CellInLog ==
    ASSUME NEW l \in Seq(Entry), NEW c \in CellsOf(LogPiece(l))
    PROVE  /\ c.index \in 1 .. Len(l) /\ l[c.index] = c.entry
           /\ TermAt(l, c.index) = c.entry.term /\ TermAt(l, c.index - 1) = c.before
<1>1. PICK k \in 1 .. Len(l) : c = [index |-> k, entry |-> l[k], before |-> TermAt(l, k - 1)]
  BY LogCells
<1>2. k # 0
  OBVIOUS
<1>3. QED
  BY <1>1, <1>2 DEF TermAt

\* Every cell comes from a log or from a message.
LEMMA CellOrigin ==
    ASSUME NEW c \in Cells
    PROVE  \/ \E i \in Server : c \in CellsOf(LogPiece(log[i]))
           \/ \E m \in appendEntries : c \in CellsOf(m)
BY DEF Cells, Pieces

\* m is a piece of the log l, up to its end.
EndOfLog(m, l) ==
    /\ PieceOK(m)
    /\ m.prev_log_index <= Len(l) /\ LastIndex(m) = Len(l)
    /\ \A k \in m.prev_log_index .. LastIndex(m) : PieceTerm(m, k) = TermAt(l, k)
    /\ CellsOf(m) \subseteq CellsOf(LogPiece(l))

\* What make_append_entries packs is such a piece.
LEMMA AppendPiece ==
    ASSUME NEW i \in Server, NEW p, NEW t \in Nat, NEW l \in Seq(Entry),
           NEW next \in 1 .. Len(l) + 1, NEW commit,
           NEW m, m = MakeAppendEntries(i, p, t, l, next, commit)
    PROVE  /\ m.term = t /\ m.leader_id = i /\ m.to = p /\ m.leader_commit = commit
           /\ EndOfLog(m, l)
<1> DEFINE es == SubSeq(l, next, Len(l))
<1>1. /\ m.term = t /\ m.leader_id = i /\ m.to = p /\ m.leader_commit = commit
      /\ m.prev_log_index = next - 1 /\ m.prev_log_term = TermAt(l, next - 1) /\ m.entries = es
  BY DEF MakeAppendEntries
<1>2. Len(l) \in Nat /\ next \in Nat \ {0}
  OBVIOUS
<1>3. \A k \in next .. Len(l) : l[k] \in Entry
  OBVIOUS
<1>4. /\ es \in Seq(Entry)
      /\ Len(es) = IF next <= Len(l) THEN Len(l) - next + 1 ELSE 0
      /\ \A k \in 1 .. Len(l) - next + 1 : es[k] = l[next + k - 1]
  BY <1>2, <1>3
<1>5. Len(es) = Len(l) - next + 1
  BY <1>2, <1>4
<1>6. LastIndex(m) = Len(l)
  BY <1>1, <1>2, <1>5 DEF LastIndex
<1>7. TermAt(l, next - 1) \in Nat
  BY <1>2, TermAtNat
<1>8. PieceOK(m)
  BY <1>1, <1>2, <1>4, <1>7 DEF PieceOK
<1>9. ASSUME NEW k \in next .. Len(l)
      PROVE  m.entries[k - m.prev_log_index] = l[k] /\ k # m.prev_log_index /\ k # 0
  <2>1. k - (next - 1) \in 1 .. Len(l) - next + 1 /\ next + (k - (next - 1)) - 1 = k
    BY <1>2
  <2>2. QED
    BY <1>1, <1>2, <1>4, <2>1
<1>10. ASSUME NEW k \in next - 1 .. Len(l) PROVE PieceTerm(m, k) = TermAt(l, k)
  <2>1. CASE k = next - 1
    BY <1>1, <2>1 DEF PieceTerm
  <2>2. CASE k # next - 1
    <3>1. k \in next .. Len(l)
      BY <1>2, <2>2
    <3>2. QED
      BY <1>9, <3>1 DEF PieceTerm, TermAt
  <2>3. QED
    BY <2>1, <2>2
<1>11. CellsOf(m) \subseteq CellsOf(LogPiece(l))
  <2>1. m.prev_log_index + 1 = next
    BY <1>1, <1>2
  <2>2. ASSUME NEW k \in next .. Len(l)
        PROVE  CellAt(m, k) \in CellsOf(LogPiece(l))
    <3>1. k \in 1 .. Len(l) /\ k - 1 \in next - 1 .. Len(l)
      BY <1>2
    <3>2. CellAt(m, k) = [index |-> k, entry |-> l[k], before |-> TermAt(l, k - 1)]
      BY <1>9, <1>10, <3>1 DEF CellAt
    <3>3. QED
      BY <3>1, <3>2, LogCells
  <2>3. QED
    BY <1>6, <2>1, <2>2 DEF CellsOf
<1>12. m.prev_log_index <= Len(l) /\ m.prev_log_index = next - 1
  BY <1>1, <1>2
<1>13. QED
  BY <1>1, <1>6, <1>8, <1>10, <1>11, <1>12 DEF EndOfLog

\* The follower's loop leaves a log behind.
LEMMA MergedIsLog ==
    ASSUME NEW l \in Seq(Entry), NEW es \in Seq(Entry), NEW prev \in Nat, prev <= Len(l)
    PROVE  MergedLog(l, prev, es) \in Seq(Entry)
<1> DEFINE Present(k) == k <= Len(l) /\ l[k].term = es[k - prev].term
           n == prev + Len(es)
           Pick(k) == IF \A j \in prev + 1 .. k : Present(j) THEN l[k] ELSE es[k - prev]
<1>1. n \in Nat
  OBVIOUS
<1>2. ASSUME NEW k \in 1 .. n PROVE Pick(k) \in Entry
  <2>1. CASE k <= prev
    BY <2>1
  <2>2. CASE k > prev /\ \A j \in prev + 1 .. k : Present(j)
    <3>1. Present(k)
      BY <2>2
    <3>2. QED
      BY <2>2, <3>1
  <2>3. CASE k > prev /\ ~(\A j \in prev + 1 .. k : Present(j))
    <3>1. k - prev \in 1 .. Len(es)
      BY <2>3
    <3>2. QED
      BY <2>3, <3>1
  <2>4. QED
    BY <2>1, <2>2, <2>3
<1> HIDE DEF Pick
<1>3. [k \in 1 .. n |-> Pick(k)] \in Seq(Entry)
  BY <1>1, <1>2
<1>4. QED
  BY <1>3 DEF MergedLog, Pick

\* handle_append_entries leaves a log that has the leader's terms where the message
\* reaches and holds no cell that was not in the log or in the message.
LEMMA MergedPiece ==
    ASSUME NEW l \in Seq(Entry), NEW m, PieceOK(m), PrevMatches(m, l)
    PROVE  LET merged == MergedLog(l, m.prev_log_index, m.entries) IN
           /\ merged \in Seq(Entry)
           /\ LastIndex(m) <= Len(merged)
           /\ \A k \in m.prev_log_index .. LastIndex(m) : TermAt(merged, k) = PieceTerm(m, k)
           /\ CellsOf(LogPiece(merged)) \subseteq CellsOf(LogPiece(l)) \cup CellsOf(m)
<1> DEFINE prev == m.prev_log_index
           es   == m.entries
           n    == prev + Len(es)
           merged == MergedLog(l, prev, es)
           Present(k) == k <= Len(l) /\ l[k].term = es[k - prev].term
           cut == [k \in 1 .. n |->
                     IF \A j \in prev + 1 .. k : Present(j) THEN l[k] ELSE es[k - prev]]
<1>1. /\ prev \in Nat /\ es \in Seq(Entry) /\ Len(es) \in Nat /\ Len(l) \in Nat /\ n \in Nat
      /\ prev <= Len(l) /\ TermAt(l, prev) = m.prev_log_term /\ LastIndex(m) = n
  BY DEF PieceOK, PrevMatches, LastIndex
<1>2. merged \in Seq(Entry)
  BY <1>1, MergedIsLog, Zenon
<1>3. \A k \in prev + 1 .. n : PieceTerm(m, k) = es[k - prev].term
  BY <1>1 DEF PieceTerm
<1>4. PieceTerm(m, prev) = m.prev_log_term
  BY DEF PieceTerm
<1>5. CASE \A k \in prev + 1 .. n : Present(k)
  <2>1. merged = l
    BY <1>5 DEF MergedLog
  <2>2. n <= Len(l)
    <3>1. n \in prev + 1 .. n \/ n = prev
      BY <1>1
    <3>2. QED
      BY <1>1, <1>5, <3>1
  <2>3. ASSUME NEW k \in prev .. n PROVE TermAt(l, k) = PieceTerm(m, k)
    <3>1. CASE k = prev
      BY <1>1, <1>4, <3>1
    <3>2. CASE k # prev
      <4>1. k \in prev + 1 .. n /\ k # 0
        BY <1>1, <3>2
      <4>2. QED
        BY <1>3, <1>5, <4>1 DEF TermAt
    <3>3. QED
      BY <3>1, <3>2
  <2>4. QED
    BY <1>1, <1>2, <2>1, <2>2, <2>3
<1>6. CASE ~(\A k \in prev + 1 .. n : Present(k))
  <2>1. merged = cut
    BY <1>6 DEF MergedLog
  <2>2. Len(merged) = n
    BY <1>1, <2>1
  <2>3. ASSUME NEW k \in 1 .. n, \A j \in prev + 1 .. k : Present(j)
        PROVE  merged[k] = l[k] /\ k <= Len(l)
    <3>1. merged[k] = l[k]
      BY <2>1, <2>3
    <3>2. k <= prev \/ k \in prev + 1 .. k
      BY <1>1
    <3>3. QED
      BY <1>1, <2>3, <3>1, <3>2
  <2>4. ASSUME NEW k \in 1 .. n, ~(\A j \in prev + 1 .. k : Present(j))
        PROVE  merged[k] = es[k - prev] /\ k \in prev + 1 .. n
    <3>1. merged[k] = es[k - prev]
      BY <2>1, <2>4
    <3>2. k \in prev + 1 .. n
      BY <1>1, <2>4
    <3>3. QED
      BY <3>1, <3>2
  <2>5. ASSUME NEW k \in prev .. n PROVE TermAt(merged, k) = PieceTerm(m, k)
    <3>1. CASE k = prev
      <4>1. CASE prev = 0
        BY <1>1, <1>4, <3>1, <4>1 DEF TermAt
      <4>2. CASE prev # 0
        <5>1. k \in 1 .. n /\ \A j \in prev + 1 .. k : Present(j)
          BY <1>1, <3>1, <4>2
        <5>2. merged[k] = l[k]
          BY <2>3, <5>1
        <5>3. QED
          BY <1>1, <1>4, <3>1, <4>2, <5>2 DEF TermAt
      <4>3. QED
        BY <4>1, <4>2
    <3>2. CASE k # prev
      <4>1. k \in prev + 1 .. n /\ k \in 1 .. n /\ k # 0 /\ k \in prev + 1 .. k
        BY <1>1, <3>2
      <4>2. merged[k].term = es[k - prev].term
        <5>1. CASE \A j \in prev + 1 .. k : Present(j)
          BY <2>3, <4>1, <5>1
        <5>2. CASE ~(\A j \in prev + 1 .. k : Present(j))
          BY <2>4, <4>1, <5>2
        <5>3. QED
          BY <5>1, <5>2
      <4>3. QED
        BY <1>3, <4>1, <4>2 DEF TermAt
    <3>3. QED
      BY <3>1, <3>2
  <2>6. ASSUME NEW k \in 1 .. n
        PROVE  [index |-> k, entry |-> merged[k], before |-> TermAt(merged, k - 1)]
                  \in CellsOf(LogPiece(l)) \cup CellsOf(m)
    <3>1. CASE \A j \in prev + 1 .. k : Present(j)
      <4>1. merged[k] = l[k] /\ k \in 1 .. Len(l)
        BY <2>3, <3>1
      <4>2. TermAt(merged, k - 1) = TermAt(l, k - 1)
        <5>1. CASE k = 1
          BY <5>1 DEF TermAt
        <5>2. CASE k # 1
          <6>1. k - 1 \in 1 .. n /\ k - 1 # 0 /\ \A j \in prev + 1 .. k - 1 : j \in prev + 1 .. k
            BY <1>1, <5>2
          <6>2. merged[k - 1] = l[k - 1]
            BY <2>3, <3>1, <6>1
          <6>3. QED
            BY <6>1, <6>2 DEF TermAt
        <5>3. QED
          BY <5>1, <5>2
      <4>3. QED
        BY <4>1, <4>2, LogCells
    <3>2. CASE ~(\A j \in prev + 1 .. k : Present(j))
      <4>0. merged[k] = es[k - prev] /\ k \in prev + 1 .. n
        BY <2>4, <3>2
      <4>1. k - 1 \in prev .. n
        BY <1>1, <4>0
      <4>2. TermAt(merged, k - 1) = PieceTerm(m, k - 1)
        BY <2>5, <4>1
      <4>3. CellAt(m, k) = [index |-> k, entry |-> merged[k], before |-> TermAt(merged, k - 1)]
        BY <4>0, <4>2 DEF CellAt
      <4>4. QED
        BY <1>1, <4>0, <4>3 DEF CellsOf
    <3>3. QED
      BY <3>1, <3>2
  <2>7. CellsOf(LogPiece(merged)) \subseteq CellsOf(LogPiece(l)) \cup CellsOf(m)
    BY <1>2, <2>2, <2>6, LogCells
  <2>8. QED
    BY <1>1, <1>2, <2>2, <2>5, <2>7
<1>7. QED
  BY <1>5, <1>6

\* It keeps an entry up to which the log has the terms of the message.
LEMMA MergedKeeps ==
    ASSUME NEW l \in Seq(Entry), NEW m, PieceOK(m), PrevMatches(m, l), NEW k \in 1 .. Len(l),
           \A j \in m.prev_log_index + 1 .. LastIndex(m) :
              j <= k => TermAt(l, j) = PieceTerm(m, j)
    PROVE  LET merged == MergedLog(l, m.prev_log_index, m.entries) IN
           k <= Len(merged) /\ merged[k] = l[k] /\ TermAt(merged, k - 1) = TermAt(l, k - 1)
<1> DEFINE prev == m.prev_log_index
           es   == m.entries
           n    == prev + Len(es)
           merged == MergedLog(l, prev, es)
           Present(j) == j <= Len(l) /\ l[j].term = es[j - prev].term
           cut == [j \in 1 .. n |->
                     IF \A h \in prev + 1 .. j : Present(h) THEN l[j] ELSE es[j - prev]]
<1>1. /\ prev \in Nat /\ es \in Seq(Entry) /\ Len(es) \in Nat /\ Len(l) \in Nat /\ n \in Nat
      /\ prev <= Len(l) /\ LastIndex(m) = n
  BY DEF PieceOK, PrevMatches, LastIndex
<1>2. ASSUME NEW j \in prev + 1 .. n, j <= k PROVE Present(j)
  <2>1. j # prev /\ j # 0 /\ j <= Len(l)
    BY <1>1, <1>2
  <2>2. TermAt(l, j) = PieceTerm(m, j)
    BY <1>1, <1>2
  <2>3. QED
    BY <2>1, <2>2 DEF TermAt, PieceTerm
<1>3. CASE \A j \in prev + 1 .. n : Present(j)
  <2>1. merged = l
    BY <1>3 DEF MergedLog
  <2>2. QED
    BY <2>1
<1>4. CASE ~(\A j \in prev + 1 .. n : Present(j))
  <2>1. merged = cut
    BY <1>4 DEF MergedLog
  <2>2. Len(merged) = n
    BY <1>1, <2>1
  <2>3. k < n
    BY <1>1, <1>2, <1>4
  <2>4. ASSUME NEW j \in 1 .. k PROVE merged[j] = l[j]
    <3>1. j \in 1 .. n /\ \A h \in prev + 1 .. j : h \in prev + 1 .. n /\ h <= k
      BY <1>1, <2>3
    <3>2. \A h \in prev + 1 .. j : Present(h)
      BY <1>2, <3>1
    <3>3. QED
      BY <2>1, <3>1, <3>2
  <2>5. k \in 1 .. k /\ (k - 1 = 0 \/ k - 1 \in 1 .. k)
    BY <1>1
  <2>6. QED
    BY <1>1, <2>2, <2>3, <2>4, <2>5 DEF TermAt
<1>5. QED
  BY <1>3, <1>4

\* The leader's append adds one cell, at the end.
LEMMA AppendedCells ==
    ASSUME NEW l \in Seq(Entry), NEW e \in Entry
    PROVE  LET grown == Append(l, e)
               new   == [index |-> Len(l) + 1, entry |-> e, before |-> LastTerm(l)] IN
           /\ grown \in Seq(Entry) /\ Len(grown) = Len(l) + 1
           /\ \A k \in 1 .. Len(l) : grown[k] = l[k]
           /\ grown[Len(l) + 1] = e
           /\ \A k \in 0 .. Len(l) : TermAt(grown, k) = TermAt(l, k)
           /\ CellsOf(LogPiece(grown)) = CellsOf(LogPiece(l)) \cup {new}
<1> DEFINE grown == Append(l, e)
           new   == [index |-> Len(l) + 1, entry |-> e, before |-> LastTerm(l)]
           CellL(k) == [index |-> k, entry |-> l[k], before |-> TermAt(l, k - 1)]
           CellG(k) == [index |-> k, entry |-> grown[k], before |-> TermAt(grown, k - 1)]
<1>1. /\ Len(l) \in Nat /\ grown \in Seq(Entry) /\ Len(grown) = Len(l) + 1
      /\ \A k \in 1 .. Len(l) : grown[k] = l[k]
      /\ grown[Len(l) + 1] = e
  OBVIOUS
<1>2. \A k \in 0 .. Len(l) : TermAt(grown, k) = TermAt(l, k)
  BY <1>1 DEF TermAt
<1>3. \A k \in 1 .. Len(l) : CellG(k) = CellL(k)
  <2>1. \A k \in 1 .. Len(l) : k - 1 \in 0 .. Len(l)
    BY <1>1
  <2>2. QED
    BY <1>1, <1>2, <2>1
<1>4. CellG(Len(l) + 1) = new
  <2>1. Len(l) + 1 - 1 = Len(l) /\ Len(l) \in 0 .. Len(l)
    BY <1>1
  <2>2. QED
    BY <1>1, <1>2, <2>1 DEF LastTerm
<1>5. 1 .. Len(grown) = 1 .. Len(l) \cup {Len(l) + 1}
  BY <1>1
<1>6. CellsOf(LogPiece(grown)) = {CellG(k) : k \in 1 .. Len(grown)}
  BY <1>1, LogCells, Zenon
<1>7. CellsOf(LogPiece(l)) = {CellL(k) : k \in 1 .. Len(l)}
  BY LogCells
<1> HIDE DEF grown, new, CellL, CellG
<1>8. CellsOf(LogPiece(grown)) = CellsOf(LogPiece(l)) \cup {new}
  BY <1>3, <1>4, <1>5, <1>6, <1>7
<1>9. QED
  BY <1>1, <1>2, <1>8 DEF grown, new

LEMMA AppendedLog ==
    ASSUME NEW l \in Seq(Entry), NEW e \in Entry
    PROVE  /\ Append(l, e) \in Seq(Entry) /\ Len(Append(l, e)) = Len(l) + 1
           /\ Append(l, e)[Len(l) + 1] = e
           /\ \A k \in 0 .. Len(l) : TermAt(Append(l, e), k) = TermAt(l, k)
           /\ CellsOf(LogPiece(l)) \subseteq CellsOf(LogPiece(Append(l, e)))
<1> DEFINE new == [index |-> Len(l) + 1, entry |-> e, before |-> LastTerm(l)]
<1>1. CellsOf(LogPiece(Append(l, e))) = CellsOf(LogPiece(l)) \cup {new}
  BY AppendedCells
<1>2. QED
  BY <1>1, AppendedCells
-----------------------------------------------------------------------------
(* Elections                                                               *)

Typed == TypeOK /\ CommitInLog
Base  == Quorums /\ Descent /\ Typed /\ ElectionInv

LEMMA MajorityOfCluster ==
    ASSUME Base, NEW i \in Server
    PROVE  Majority(i) = Cardinality(Server) \div 2 + 1
<1>1. peers[i] = Server \ {i}
  BY DEF Base, ElectionInv, CommandsOnly
<1>2. Cardinality(Server \ {i}) + 1 = Cardinality(Server)
  BY DEF Base, Quorums
<1>3. QED
  BY <1>1, <1>2, Zenon DEF Majority

LEMMA LargerQuorum ==
    ASSUME Base, NEW A \in SUBSET Server, NEW B \in SUBSET Server, A \subseteq B, IsQuorum(A)
    PROVE  IsQuorum(B)
BY DEF Base, Quorums

LEMMA QuorumsMeet ==
    ASSUME Base, NEW A \in SUBSET Server, NEW B \in SUBSET Server, IsQuorum(A), IsQuorum(B)
    PROVE  \E q \in Server : q \in A /\ q \in B
BY DEF Base, Quorums

LEMMA LeastNumber ==
    ASSUME Base, NEW S \in SUBSET Nat, S # {}
    PROVE  \E n \in S : \A k \in S : n <= k
BY DEF Base, Descent

LEMMA VotersServer ==
    ASSUME NEW j \in Server, NEW t
    PROVE  Voters(j, t) \in SUBSET Server /\ j \in Voters(j, t)
BY DEF Voters

\* A leader has been elected in its term.
LEMMA LeaderElected ==
    Base => \A i \in Server : role[i] = Leader => Elected(i, current_term[i])
<1> SUFFICES ASSUME Base, NEW i \in Server, role[i] = Leader
             PROVE  Elected(i, current_term[i])
  OBVIOUS
<1>1. votes_received[i] \in SUBSET Server
  BY DEF Base, Typed, TypeOK
<1>2. IsQuorum(votes_received[i])
  BY MajorityOfCluster DEF Base, ElectionInv, LeaderHasMajority, IsQuorum
<1>3. votes_received[i] \subseteq Voters(i, current_term[i])
  <2>1. role[i] # Follower
    BY DEF Leader, Follower
  <2>2. \A v \in votes_received[i] : v # i =>
           \E m \in voteResponses : /\ m.vote_granted /\ m.voter_id = v
                                    /\ m.term = current_term[i] /\ m.to = i
    BY <2>1 DEF Base, ElectionInv, VoteInv, VotesCounted
  <2>3. QED
    BY <1>1, <2>2 DEF Voters
<1>4. QED
  BY <1>1, <1>2, <1>3, VotersServer, LargerQuorum DEF Elected

LEMMA LeaderWasLeader ==
    Base => \A i \in Server : role[i] = Leader => WasLeader(i, current_term[i])
<1> SUFFICES ASSUME Base, NEW i \in Server, role[i] = Leader
             PROVE  WasLeader(i, current_term[i])
  OBVIOUS
<1>1. current_term[i] <= current_term[i]
  BY DEF Base, Typed, TypeOK
<1>2. QED
  BY <1>1, LeaderElected DEF WasLeader, Leader, Candidate

\* Whoever is elected has asked for votes, unless it is alone.
LEMMA ElectedRequested ==
    ASSUME Base, VotesRequested, NEW j \in Server, NEW t, Elected(j, t)
    PROVE  Server = {j} \/ \E r \in requestVotes : r.candidate_id = j /\ r.term = t
<1>1. CASE Voters(j, t) = {j}
  BY <1>1 DEF Elected, Base, Quorums
<1>2. CASE Voters(j, t) # {j}
  <2>1. PICK m \in voteResponses : m.vote_granted /\ m.term = t /\ m.to = j
    BY <1>2 DEF Voters
  <2>2. QED
    BY <2>1 DEF VotesRequested
<1>3. QED
  BY <1>1, <1>2

\* A term has one elected node.
LEMMA ElectedUnique ==
    ASSUME Base, RequestInv, NEW i \in Server, NEW j \in Server, NEW t,
           Elected(i, t), Elected(j, t)
    PROVE  i = j
<1> SUFFICES ASSUME i # j PROVE FALSE
  OBVIOUS
<1>1. PICK v \in Server : v \in Voters(i, t) /\ v \in Voters(j, t)
  BY VotersServer, QuorumsMeet DEF Elected
<1>2. /\ \E r \in requestVotes : r.candidate_id = i /\ r.term = t
      /\ \E r \in requestVotes : r.candidate_id = j /\ r.term = t
  BY ElectedRequested DEF RequestInv
<1>3. v # i => \E m \in voteResponses : /\ m.vote_granted /\ m.voter_id = v
                                        /\ m.term = t /\ m.to = i
  BY <1>1 DEF Voters
<1>4. v # j => \E m \in voteResponses : /\ m.vote_granted /\ m.voter_id = v
                                        /\ m.term = t /\ m.to = j
  BY <1>1 DEF Voters
<1>5. CASE v = i
  BY <1>2, <1>4, <1>5 DEF RequestInv, CandidateVotesForItself
<1>6. CASE v = j
  BY <1>2, <1>3, <1>6 DEF RequestInv, CandidateVotesForItself
<1>7. CASE v # i /\ v # j
  BY <1>3, <1>4, <1>7 DEF Base, ElectionInv, VoteInv, OneVotePerTerm
<1>8. QED
  BY <1>5, <1>6, <1>7
-----------------------------------------------------------------------------
(* What a step does to terms, roles, logs and messages.  The actions come  *)
(* down to a few shapes; the invariants are carried over shape by shape.   *)

NoNewLeader ==
    \A j \in Server : role'[j] = Leader => role[j] = Leader /\ current_term'[j] = current_term[j]
NoNewCandidate ==
    \A j \in Server :
        role'[j] = Candidate => role[j] = Candidate /\ current_term'[j] = current_term[j]

\* Whatever happens, messages stay, terms never go back, and within a term nobody
\* becomes a candidate or gives up its vote for itself.
Grows ==
    /\ requestVotes \subseteq requestVotes' /\ voteResponses \subseteq voteResponses'
    /\ appendEntries \subseteq appendEntries' /\ appendResponses \subseteq appendResponses'
    /\ \A j \in Server :
          /\ current_term[j] <= current_term'[j]
          /\ current_term'[j] = current_term[j] =>
                /\ role'[j] = Candidate => role[j] = Candidate
                /\ voted_for[j] = j => voted_for'[j] = j

\* m is an AppendEntries of leader i with its log l.
IsAppend(m, i, l) ==
    \E p \in Server \ {i} : \E next \in 1 .. Len(l) + 1 :
        m = MakeAppendEntries(i, p, current_term[i], l, next, commit_index[i])

NewAppends(i, l) == \A m \in appendEntries' \ appendEntries : IsAppend(m, i, l)

Campaigns(i) ==
    /\ current_term' = [current_term EXCEPT ![i] = @ + 1]
    /\ \/ role' = [role EXCEPT ![i] = Candidate]
       \/ Server = {i} /\ role' = [role EXCEPT ![i] = Leader]
    /\ \A r \in requestVotes' \ requestVotes :
          /\ r.candidate_id = i /\ r.term = current_term[i] + 1
          /\ r.last_log_index = Len(log[i]) /\ r.last_log_term = LastTerm(log[i])
    /\ voted_for'[i] = i
    /\ UNCHANGED <<log, voteResponses, appendEntries, appendResponses>>

Casts(m) ==
    /\ NoNewLeader /\ NoNewCandidate
    /\ \A v \in voteResponses' \ voteResponses : v.vote_granted =>
          /\ v.voter_id = m.to /\ v.term = m.term /\ v.to = m.candidate_id
          /\ m.term >= current_term[m.to]
          /\ m.term = current_term[m.to] => voted_for[m.to] \in {None, m.candidate_id}
          /\ UpToDate(m, log[m.to])
    /\ UNCHANGED <<log, requestVotes, appendEntries, appendResponses>>

Wins(i) ==
    /\ role[i] = Candidate
    /\ Elected(i, current_term[i])
    /\ role' = [role EXCEPT ![i] = Leader]
    /\ NewAppends(i, log[i])
    /\ UNCHANGED <<current_term, log, requestVotes, voteResponses, appendResponses>>

Ships(i) ==
    /\ role[i] = Leader
    /\ NewAppends(i, log[i])
    /\ UNCHANGED <<current_term, role, log, requestVotes, voteResponses, appendResponses>>

Extends(i, e) ==
    /\ role[i] = Leader
    /\ e.term = current_term[i]
    /\ log' = [log EXCEPT ![i] = Append(@, e)]
    /\ NewAppends(i, log'[i])
    /\ UNCHANGED <<current_term, role, requestVotes, voteResponses, appendResponses>>

Receives(m) ==
    /\ m.term >= current_term[m.to]
    /\ PrevMatches(m, log[m.to])
    /\ current_term' = [current_term EXCEPT ![m.to] = m.term]
    /\ role' = [role EXCEPT ![m.to] = Follower]
    /\ log' = [log EXCEPT ![m.to] = MergedLog(@, m.prev_log_index, m.entries)]
    /\ \A a \in appendResponses' \ appendResponses :
          /\ a.term = m.term /\ a.follower_id = m.to /\ a.to = m.leader_id
          /\ a.match_index = LastIndex(m)
    /\ UNCHANGED <<requestVotes, voteResponses, appendEntries>>

Rests ==
    /\ NoNewLeader /\ NoNewCandidate
    /\ \A a \in appendResponses' \ appendResponses :
          ~a.success /\ \E m \in appendEntries : a.follower_id = m.to /\ a.to = m.leader_id
    /\ UNCHANGED <<log, requestVotes, voteResponses, appendEntries>>

Shape ==
    \/ \E i \in Server : Campaigns(i)
    \/ \E m \in requestVotes : Casts(m)
    \/ \E i \in Server : Wins(i)
    \/ \E i \in Server : Ships(i)
    \/ \E i \in Server : \E e \in Entry : Extends(i, e)
    \/ \E m \in appendEntries : Receives(m)
    \/ Rests

-----------------------------------------------------------------------------
(* What stays                                                              *)

LEMMA ElectedStays ==
    ASSUME Base, Grows, NEW j \in Server, NEW t
    PROVE  Voters(j, t) \subseteq Voters(j, t)' /\ (Elected(j, t) => Elected(j, t)')
<1>1. Voters(j, t) \subseteq Voters(j, t)'
  BY DEF Grows, Voters
<1>2. Voters(j, t) \in SUBSET Server /\ Voters(j, t)' \in SUBSET Server
  BY DEF Voters
<1>3. ASSUME IsQuorum(Voters(j, t)) PROVE IsQuorum(Voters(j, t)')
  BY <1>1, <1>2, <1>3, LargerQuorum
<1>4. QED
  BY <1>1, <1>3 DEF Elected, IsQuorum

LEMMA WasLeaderStays ==
    ASSUME Base, Base', Grows, NEW j \in Server, NEW t \in Nat, WasLeader(j, t)
    PROVE  WasLeader(j, t)'
<1>1. Elected(j, t)'
  BY ElectedStays DEF WasLeader
<1>2. /\ current_term[j] \in Nat /\ current_term'[j] \in Nat
      /\ current_term[j] <= current_term'[j]
      /\ current_term'[j] = current_term[j] => (role'[j] = Candidate => role[j] = Candidate)
  BY DEF Base, Typed, TypeOK, Grows
<1>3. t <= current_term'[j]
  BY <1>2 DEF WasLeader
<1>4. t = current_term'[j] => role'[j] # Candidate
  BY <1>2 DEF WasLeader
<1>5. QED
  BY <1>1, <1>3, <1>4 DEF WasLeader

\* Leaders of a term are the same node; a candidate's term has had no leader.
LEMMA LeadersUnique ==
    ASSUME Base, RequestInv, NEW i \in Server, NEW j \in Server, NEW t,
           Elected(i, t), WasLeader(j, t)
    PROVE  i = j
BY ElectedUnique DEF WasLeader

LEMMA CellOriginNext ==
    ASSUME NEW c \in Cells'
    PROVE  \/ \E i \in Server : c \in CellsOf(LogPiece(log'[i]))
           \/ \E m \in appendEntries' : c \in CellsOf(m)
BY DEF Cells, Pieces

LEMMA CellIntro ==
    ASSUME NEW c
    PROVE  /\ \A i \in Server : c \in CellsOf(LogPiece(log[i])) => c \in Cells
           /\ \A m \in appendEntries : c \in CellsOf(m) => c \in Cells
BY DEF Cells, Pieces

LEMMA CellIntroNext ==
    ASSUME NEW c
    PROVE  /\ \A i \in Server : c \in CellsOf(LogPiece(log'[i])) => c \in Cells'
           /\ \A m \in appendEntries' : c \in CellsOf(m) => c \in Cells'
BY DEF Cells, Pieces

\* An AppendEntries of a leader is a piece of its log.
LEMMA NewAppendFacts ==
    ASSUME Base, NEW i \in Server, NEW l \in Seq(Entry), NEW m, IsAppend(m, i, l)
    PROVE  /\ m.term = current_term[i] /\ m.leader_id = i /\ m.to # i
           /\ m.leader_commit = commit_index[i]
           /\ EndOfLog(m, l)
<1>1. PICK p \in Server \ {i}, next \in 1 .. Len(l) + 1 :
         m = MakeAppendEntries(i, p, current_term[i], l, next, commit_index[i])
  BY DEF IsAppend
<1>2. current_term[i] \in Nat
  BY DEF Base, Typed, TypeOK
<1>3. QED
  BY <1>1, <1>2, AppendPiece

\* Sending what is in a log makes no new cell.
LEMMA ShippedCells ==
    ASSUME Base, NEW i \in Server, UNCHANGED log, appendEntries \subseteq appendEntries',
           NewAppends(i, log[i])
    PROVE  Cells' = Cells
<1>1. log[i] \in Seq(Entry)
  BY DEF Base, Typed, TypeOK
<1>2. \A m \in appendEntries' \ appendEntries : CellsOf(m) \subseteq CellsOf(LogPiece(log[i]))
  BY <1>1, NewAppendFacts DEF NewAppends, EndOfLog
<1>3. ASSUME NEW c \in Cells' PROVE c \in Cells
  <2>1. CASE \E j \in Server : c \in CellsOf(LogPiece(log'[j]))
    BY <2>1, CellIntro
  <2>2. CASE \E m \in appendEntries : c \in CellsOf(m)
    BY <2>2, CellIntro
  <2>3. CASE \E m \in appendEntries' \ appendEntries : c \in CellsOf(m)
    BY <1>2, <2>3, CellIntro
  <2>4. QED
    BY <1>3, <2>1, <2>2, <2>3, CellOriginNext
<1>4. ASSUME NEW c \in Cells PROVE c \in Cells'
  BY <1>4, CellOrigin, CellIntroNext
<1>5. QED
  BY <1>3, <1>4

\* A step that touches neither logs nor AppendEntries.
LEMMA SameCells ==
    ASSUME UNCHANGED <<log, appendEntries>>
    PROVE  Cells' = Cells
BY DEF Cells, Pieces

NewCell(i, e) == [index |-> Len(log[i]) + 1, entry |-> e, before |-> LastTerm(log[i])]

LEMMA ExtendedCells ==
    ASSUME Base, Base', Grows, NEW i \in Server, NEW e \in Entry, Extends(i, e)
    PROVE  /\ Cells' = Cells \cup {NewCell(i, e)}
           /\ CellsOf(LogPiece(log'[i])) = CellsOf(LogPiece(log[i])) \cup {NewCell(i, e)}
           /\ \A j \in Server \ {i} : log'[j] = log[j]
           /\ log'[i] = Append(log[i], e)
<1>1. log[i] \in Seq(Entry) /\ log'[i] \in Seq(Entry) /\ log \in [Server -> Seq(Entry)]
  BY DEF Base, Typed, TypeOK
<1>2. log'[i] = Append(log[i], e) /\ \A j \in Server \ {i} : log'[j] = log[j]
  BY <1>1 DEF Extends
<1>3. CellsOf(LogPiece(log'[i])) = CellsOf(LogPiece(log[i])) \cup {NewCell(i, e)}
  BY <1>1, <1>2, AppendedCells DEF NewCell
<1>4. \A m \in appendEntries' \ appendEntries : CellsOf(m) \subseteq CellsOf(LogPiece(log'[i]))
  BY <1>1, NewAppendFacts, Zenon DEF NewAppends, Extends, EndOfLog
<1> HIDE DEF NewCell
<1>5. ASSUME NEW c \in Cells' PROVE c \in Cells \cup {NewCell(i, e)}
  <2>1. ASSUME NEW j \in Server, c \in CellsOf(LogPiece(log'[j]))
        PROVE  c \in Cells \cup {NewCell(i, e)}
    <3>1. CASE j = i
      BY <1>3, <2>1, <3>1, CellIntro
    <3>2. CASE j # i
      BY <1>2, <2>1, <3>2, CellIntro
    <3>3. QED
      BY <3>1, <3>2
  <2>2. CASE \E m \in appendEntries : c \in CellsOf(m)
    BY <2>2, CellIntro
  <2>3. CASE \E m \in appendEntries' \ appendEntries : c \in CellsOf(m)
    BY <1>4, <2>1, <2>3
  <2>4. QED
    BY <1>5, <2>1, <2>2, <2>3, CellOriginNext
<1>6. ASSUME NEW c \in Cells PROVE c \in Cells'
  <2>1. ASSUME NEW j \in Server, c \in CellsOf(LogPiece(log[j])) PROVE c \in Cells'
    <3>1. c \in CellsOf(LogPiece(log'[j]))
      BY <1>2, <1>3, <2>1, Zenon
    <3>2. QED
      BY <3>1, CellIntroNext
  <2>2. CASE \E m \in appendEntries : c \in CellsOf(m)
    BY <2>2, CellIntroNext DEF Grows
  <2>3. QED
    BY <1>6, <2>1, <2>2, CellOrigin
<1>7. NewCell(i, e) \in Cells'
  BY <1>3, CellIntroNext
<1>8. QED
  BY <1>2, <1>3, <1>5, <1>6, <1>7

LEMMA ReceivedCells ==
    ASSUME Base, Base', NEW m \in appendEntries, Receives(m)
    PROVE  /\ Cells' \subseteq Cells
           /\ m.to \in Server /\ PieceOK(m)
           /\ log'[m.to] = MergedLog(log[m.to], m.prev_log_index, m.entries)
           /\ CellsOf(LogPiece(log'[m.to])) \subseteq CellsOf(LogPiece(log[m.to])) \cup CellsOf(m)
           /\ LastIndex(m) <= Len(log'[m.to])
           /\ \A k \in m.prev_log_index .. LastIndex(m) : TermAt(log'[m.to], k) = PieceTerm(m, k)
           /\ \A j \in Server \ {m.to} : log'[j] = log[j]
<1> DEFINE i == m.to
<1>1. i \in Server /\ log \in [Server -> Seq(Entry)] /\ log[i] \in Seq(Entry)
  BY Zenon DEF Base, Typed, TypeOK, AppendEntriesMsg
<1>2. PieceOK(m)
  BY PiecesTyped DEF Base, Typed
<1>3. /\ log'[i] = MergedLog(log[i], m.prev_log_index, m.entries)
      /\ \A j \in Server \ {i} : log'[j] = log[j]
      /\ appendEntries' = appendEntries
  BY <1>1, Zenon DEF Receives
<1>4. PrevMatches(m, log[i])
  BY DEF Receives
<1>5. /\ LastIndex(m) <= Len(log'[i])
      /\ \A k \in m.prev_log_index .. LastIndex(m) : TermAt(log'[i], k) = PieceTerm(m, k)
      /\ CellsOf(LogPiece(log'[i])) \subseteq CellsOf(LogPiece(log[i])) \cup CellsOf(m)
  BY <1>1, <1>2, <1>3, <1>4, MergedPiece, Zenon
<1>6. ASSUME NEW c \in Cells' PROVE c \in Cells
  <2>1. ASSUME NEW j \in Server, c \in CellsOf(LogPiece(log'[j])) PROVE c \in Cells
    <3>1. CASE j = i
      BY <1>1, <1>5, <2>1, <3>1, CellIntro
    <3>2. CASE j # i
      BY <1>3, <2>1, <3>2, CellIntro
    <3>3. QED
      BY <3>1, <3>2
  <2>2. CASE \E n \in appendEntries' : c \in CellsOf(n)
    BY <1>3, <2>2, CellIntro
  <2>3. QED
    BY <1>6, <2>1, <2>2, CellOriginNext
<1>7. QED
  BY <1>1, <1>2, <1>3, <1>5, <1>6, Zenon
\* The cells after a step: no new one, or the leader's one.
LEMMA CellsStep ==
    ASSUME Base, Base', Grows, Shape
    PROVE  \/ Cells' \subseteq Cells
           \/ \E i \in Server : \E e \in Entry : Extends(i, e) /\ Cells' = Cells \cup {NewCell(i, e)}
<1>1. CASE \E i \in Server : Wins(i) \/ Ships(i)
  BY <1>1, ShippedCells, Zenon DEF Wins, Ships, Grows
<1>2. CASE \E i \in Server : \E e \in Entry : Extends(i, e)
  BY <1>2, ExtendedCells
<1>3. CASE \E m \in appendEntries : Receives(m)
  BY <1>3, ReceivedCells, Zenon
<1>4. CASE UNCHANGED <<log, appendEntries>>
  BY <1>4, SameCells
<1>5. QED
  BY <1>1, <1>2, <1>3, <1>4, Zenon DEF Shape, Campaigns, Casts, Rests

\* What a step sends, it sends as the leader it then is.
LEMMA SenderLeads ==
    ASSUME Base, Base', Grows, Shape, NEW m \in appendEntries' \ appendEntries
    PROVE  /\ m.leader_id \in Server /\ m.term = current_term'[m.leader_id]
           /\ role'[m.leader_id] = Leader /\ m.to # m.leader_id
           /\ EndOfLog(m, log'[m.leader_id])
           /\ m.leader_commit = commit_index[m.leader_id]
<1>1. /\ role \in [Server -> {Follower, Candidate, Leader}] /\ log' \in [Server -> Seq(Entry)]
      /\ log \in [Server -> Seq(Entry)]
  BY DEF Base, Typed, TypeOK
<1>2. PICK i \in Server : /\ role'[i] = Leader /\ current_term' = current_term
                          /\ IsAppend(m, i, log'[i])
  <2>1. CASE \E i \in Server : Wins(i)
    BY <1>1, <2>1 DEF Wins, NewAppends
  <2>2. CASE \E i \in Server : Ships(i)
    BY <2>2 DEF Ships, NewAppends
  <2>3. CASE \E i \in Server : \E e \in Entry : Extends(i, e)
    BY <2>3 DEF Extends, NewAppends
  <2>4. QED
    BY <2>1, <2>2, <2>3, Zenon DEF Shape, Campaigns, Casts, Receives, Rests
<1>3. log'[i] \in Seq(Entry)
  BY <1>1
<1>4. /\ m.term = current_term[i] /\ m.leader_id = i /\ m.to # i
      /\ m.leader_commit = commit_index[i] /\ EndOfLog(m, log'[i])
  BY <1>2, <1>3, NewAppendFacts
<1>5. QED
  BY <1>2, <1>4, Zenon

\* The log of a leader only grows.
LogGrows(l, g) ==
    /\ Len(l) <= Len(g) /\ \A k \in 0 .. Len(l) : TermAt(g, k) = TermAt(l, k)
    /\ CellsOf(LogPiece(l)) \subseteq CellsOf(LogPiece(g))

LEMMA GrownTerm ==
    ASSUME NEW l \in Seq(Entry), NEW g \in Seq(Entry), LogGrows(l, g), NEW k \in Nat, k <= Len(l)
    PROVE  k <= Len(g) /\ TermAt(g, k) = TermAt(l, k)
<1>1. Len(l) \in Nat /\ Len(g) \in Nat
  OBVIOUS
<1>2. Len(l) <= Len(g) /\ \A n \in 0 .. Len(l) : TermAt(g, n) = TermAt(l, n)
  BY Zenon DEF LogGrows
<1>3. QED
  BY <1>1, <1>2

\* A leader has led before, and its log has only grown; or nobody has led its term.
LEMMA LeaderStep ==
    ASSUME Base, Base', LogInv, Grows, Shape, NEW j \in Server, role'[j] = Leader
    PROVE  \/ /\ role[j] = Leader /\ current_term'[j] = current_term[j]
              /\ LogGrows(log[j], log'[j])
           \/ /\ \A x \in Server : ~WasLeader(x, current_term'[j])
              /\ UNCHANGED <<log, appendResponses>>
<1>1. /\ current_term \in [Server -> Nat] /\ role \in [Server -> {Follower, Candidate, Leader}]
      /\ log \in [Server -> Seq(Entry)] /\ log[j] \in Seq(Entry) /\ Len(log[j]) \in Nat
  <2>1. /\ current_term \in [Server -> Nat] /\ role \in [Server -> {Follower, Candidate, Leader}]
        /\ log \in [Server -> Seq(Entry)]
    BY Zenon DEF Base, Typed, TypeOK
  <2>2. QED
    BY <2>1
<1>2. ASSUME log'[j] = log[j] PROVE LogGrows(log[j], log'[j])
  <2>1. Len(log[j]) <= Len(log[j])
    BY <1>1
  <2>2. QED
    BY <1>2, <2>1 DEF LogGrows
<1>3. CASE \E i \in Server : Campaigns(i)
  <2>1. PICK i \in Server : Campaigns(i)
    BY <1>3
  <2>2. UNCHANGED <<log, appendResponses>>
    BY <2>1, Zenon DEF Campaigns
  <2>3. CASE j = i
    <3>1. Server = {i} /\ current_term'[i] = current_term[i] + 1
      BY <1>1, <2>1, <2>3 DEF Campaigns, Candidate, Leader
    <3>2. \A x \in Server : ~(current_term'[j] <= current_term[x])
      BY <1>1, <2>3, <3>1
    <3>3. QED
      BY <2>2, <3>2, Zenon DEF WasLeader
  <2>4. CASE j # i
    <3>1. role[j] = Leader /\ current_term'[j] = current_term[j]
      BY <1>1, <2>1, <2>4 DEF Campaigns
    <3>2. QED
      BY <1>2, <2>2, <3>1
  <2>5. QED
    BY <2>3, <2>4, Zenon
<1>4. CASE (\E m \in requestVotes : Casts(m)) \/ Rests
  <2>1. NoNewLeader /\ log' = log
    BY <1>4 DEF Casts, Rests
  <2>2. QED
    BY <1>2, <2>1 DEF NoNewLeader
<1>5. CASE \E i \in Server : Wins(i)
  <2>1. PICK i \in Server : Wins(i)
    BY <1>5
  <2>2. UNCHANGED <<current_term, log, appendResponses>> /\ role[i] = Candidate
    BY <2>1 DEF Wins
  <2>3. CASE j = i
    <3>1. ASSUME NEW x \in Server, WasLeader(x, current_term'[j]) PROVE FALSE
      <4>1. WasLeader(x, current_term[i])
        BY <2>2, <2>3, <3>1
      <4>2. x = i
        BY <2>1, <4>1, LeadersUnique DEF Wins, LogInv
      <4>3. QED
        BY <2>2, <4>1, <4>2, Zenon DEF WasLeader
    <3>2. QED
      BY <2>2, <3>1
  <2>4. CASE j # i
    <3>1. role[j] = Leader
      BY <1>1, <2>1, <2>4 DEF Wins
    <3>2. QED
      BY <1>2, <2>2, <3>1
  <2>5. QED
    BY <2>3, <2>4
<1>6. CASE \E i \in Server : Ships(i)
  <2>1. UNCHANGED <<current_term, role, log>>
    BY <1>6 DEF Ships
  <2>2. QED
    BY <1>2, <2>1
<1>7. CASE \E i \in Server : \E e \in Entry : Extends(i, e)
  <2>1. PICK i \in Server, e \in Entry : Extends(i, e)
    BY <1>7
  <2>2. UNCHANGED <<current_term, role>>
    BY <2>1 DEF Extends
  <2>3. CASE j = i
    <3>1. log'[j] = Append(log[j], e)
      BY <2>1, <2>3, ExtendedCells, Zenon
    <3>2. LogGrows(log[j], Append(log[j], e))
      <4>1. /\ Len(Append(log[j], e)) = Len(log[j]) + 1
            /\ \A k \in 0 .. Len(log[j]) : TermAt(Append(log[j], e), k) = TermAt(log[j], k)
            /\ CellsOf(LogPiece(log[j])) \subseteq CellsOf(LogPiece(Append(log[j], e)))
        BY <1>1, AppendedLog, Zenon
      <4>2. Len(log[j]) <= Len(Append(log[j], e))
        BY <1>1, <4>1
      <4>3. QED
        BY <4>1, <4>2 DEF LogGrows
    <3>3. QED
      BY <2>2, <3>1, <3>2
  <2>4. CASE j # i
    <3>1. log'[j] = log[j]
      BY <2>1, <2>4, ExtendedCells
    <3>2. QED
      BY <1>2, <2>2, <3>1
  <2>5. QED
    BY <2>3, <2>4
<1>8. CASE \E m \in appendEntries : Receives(m)
  <2>1. PICK m \in appendEntries : Receives(m)
    BY <1>8
  <2>2. m.to \in Server /\ \A x \in Server \ {m.to} : log'[x] = log[x]
    BY <2>1, ReceivedCells, Zenon
  <2>3. j # m.to
    BY <1>1, <2>1, <2>2, Zenon DEF Receives, Follower, Leader
  <2>4. role[j] = Leader /\ current_term'[j] = current_term[j] /\ log'[j] = log[j]
    BY <1>1, <2>1, <2>2, <2>3, Zenon DEF Receives
  <2>5. QED
    BY <1>2, <2>4
<1>9. QED
  BY <1>3, <1>4, <1>5, <1>6, <1>7, <1>8, Zenon DEF Shape

\* A new success is the answer to an AppendEntries.
LEMMA NewReply ==
    ASSUME Base, Shape, NEW a \in appendResponses' \ appendResponses, a.success
    PROVE  \E m \in appendEntries :
              /\ Receives(m) /\ a.term = m.term /\ a.follower_id = m.to /\ a.to = m.leader_id
              /\ a.match_index = LastIndex(m)
<1>1. CASE \E m \in appendEntries : Receives(m)
  BY <1>1, Zenon DEF Receives
<1>2. QED
  BY <1>1, Zenon DEF Shape, Campaigns, Casts, Wins, Ships, Extends, Rests

-----------------------------------------------------------------------------
(* What a step does to commit indices and applied entries                  *)

Applies(i) ==
    /\ last_applied' = [last_applied EXCEPT ![i] =
          IF commit_index'[i] > @ THEN commit_index'[i] ELSE @]
    /\ applied' = [applied EXCEPT ![i] =
          @ \o SubSeq(log'[i], last_applied[i] + 1, commit_index'[i])]

Follows(m) ==
    /\ Receives(m) /\ Applies(m.to)
    /\ commit_index' = [commit_index EXCEPT ![m.to] = FollowerCommit(m, log'[m.to])]

Decides(i) ==
    /\ role'[i] = Leader /\ current_term'[i] = current_term[i] /\ Applies(i)
    /\ \E c \in commit_index[i] .. Len(log'[i]) :
          /\ c # commit_index[i] => Committable(i, log'[i], match_index'[i], c)
          /\ commit_index' = [commit_index EXCEPT ![i] = c]

Commits ==
    \/ UNCHANGED <<commit_index, last_applied, applied>>
    \/ \E m \in appendEntries : Follows(m)
    \/ \E i \in Server : Decides(i)

\* What a step does for clients: x is a request that node i answers when it applies
\* its entry, one it has or one whose entry it appends in this step.
NewPending(i, x) ==
    \E e \in Entry : /\ Extends(i, e)
                     /\ x.index = Len(log[i]) + 1 /\ x.term = current_term[i]
                     /\ e.payload = CommandPayload(x.request)
Mine(i, x) == x \in pending_requests[i] \/ NewPending(i, x)

Answered(i, x, r) ==
    /\ Applies(i)
    /\ x.index \in last_applied[i] + 1 .. commit_index'[i]
    /\ log'[i][x.index].term = x.term
    /\ r.index = x.index /\ r.term = x.term /\ r.request = x.request

Serves ==
    /\ \A i \in Server : \A x \in pending_requests'[i] : Mine(i, x)
    /\ \A r \in clientResponses' : r.success /\ r \notin clientResponses
          => \E i \in Server : \E x : Mine(i, x) /\ Answered(i, x, r)

-----------------------------------------------------------------------------
(* Log Matching: what the invariant says                                   *)

\* Two pieces with the same term at an index have the same terms at every index they
\* they both reach down to, and the same entries there.
LEMMA PiecesAgree ==
    ASSUME Base, CellsUnique, NEW p \in Pieces, NEW q \in Pieces, NEW lo \in Nat, NEW k \in Nat,
           p.prev_log_index <= lo, q.prev_log_index <= lo, lo < k,
           k <= LastIndex(p), k <= LastIndex(q), PieceTerm(p, k) = PieceTerm(q, k)
    PROVE  /\ \A n \in lo + 1 .. k : CellAt(p, n) = CellAt(q, n)
           /\ \A n \in lo .. k : PieceTerm(p, n) = PieceTerm(q, n)
<1> DEFINE S == {d \in Nat : k - d \in lo + 1 .. k /\ CellAt(p, k - d) # CellAt(q, k - d)}
<1>1. PieceOK(p) /\ PieceOK(q)
  BY PiecesTyped DEF Base, Typed
<1>2. p.prev_log_index \in Nat /\ q.prev_log_index \in Nat /\ LastIndex(p) \in Nat /\ LastIndex(q) \in Nat
  BY <1>1, PieceTermType, Zenon DEF PieceOK
<1>3. \A n \in lo + 1 .. k : n \in p.prev_log_index + 1 .. LastIndex(p)
                             /\ n \in q.prev_log_index + 1 .. LastIndex(q)
  BY <1>2
<1>4. \A n \in lo + 1 .. k :
         /\ CellAt(p, n) \in Cells /\ CellAt(p, n).index = n
         /\ CellAt(p, n).entry.term = PieceTerm(p, n) /\ CellAt(p, n).before = PieceTerm(p, n - 1)
  BY <1>1, <1>3, PieceTermType, CellOfPiece, Zenon
<1>5. \A n \in lo + 1 .. k :
         /\ CellAt(q, n) \in Cells /\ CellAt(q, n).index = n
         /\ CellAt(q, n).entry.term = PieceTerm(q, n) /\ CellAt(q, n).before = PieceTerm(q, n - 1)
  BY <1>1, <1>3, PieceTermType, CellOfPiece, Zenon
<1>6. \A n \in lo + 1 .. k : PieceTerm(p, n) = PieceTerm(q, n) => CellAt(p, n) = CellAt(q, n)
  <2> SUFFICES ASSUME NEW n \in lo + 1 .. k, PieceTerm(p, n) = PieceTerm(q, n)
               PROVE  CellAt(p, n) = CellAt(q, n)
    OBVIOUS
  <2>1. /\ CellAt(p, n) \in Cells /\ CellAt(p, n).index = n
        /\ CellAt(p, n).entry.term = PieceTerm(p, n)
    BY <1>4, Zenon
  <2>2. /\ CellAt(q, n) \in Cells /\ CellAt(q, n).index = n
        /\ CellAt(q, n).entry.term = PieceTerm(p, n)
    BY <1>5, Zenon
  <2>3. QED
    BY <2>1, <2>2, Zenon DEF CellsUnique
<1>7. S = {}
  <2> SUFFICES ASSUME S # {} PROVE FALSE
    OBVIOUS
  <2>1. S \in SUBSET Nat
    OBVIOUS
  <2> HIDE DEF S
  <2>2. PICK d \in S : \A e \in S : d <= e
    BY <2>1, LeastNumber
  <2>3. d \in Nat /\ k - d \in lo + 1 .. k /\ CellAt(p, k - d) # CellAt(q, k - d)
    BY <2>2 DEF S
  <2>4. d # 0
    BY <1>6, <2>3
  <2>5. d - 1 \in Nat /\ ~(d <= d - 1) /\ k - (d - 1) \in lo + 1 .. k /\ (k - (d - 1)) - 1 = k - d
    BY <2>3, <2>4
  <2>6. CellAt(p, k - (d - 1)) = CellAt(q, k - (d - 1))
    BY <2>2, <2>5 DEF S
  <2>7. PieceTerm(p, k - d) = PieceTerm(q, k - d)
    BY <1>4, <1>5, <2>5, <2>6
  <2>8. QED
    BY <1>6, <2>3, <2>7
<1>8. ASSUME NEW n \in lo + 1 .. k PROVE CellAt(p, n) = CellAt(q, n)
  <2>1. k - n \in Nat /\ k - (k - n) = n
    OBVIOUS
  <2>2. k - n \notin S
    BY <1>7, Zenon
  <2>3. QED
    BY <2>1, <2>2
<1>9. ASSUME NEW n \in lo .. k PROVE PieceTerm(p, n) = PieceTerm(q, n)
  <2>1. CASE n = lo
    <3>1. lo + 1 \in lo + 1 .. k /\ (lo + 1) - 1 = lo
      OBVIOUS
    <3>2. QED
      BY <1>4, <1>5, <1>8, <2>1, <3>1
  <2>2. CASE n # lo
    <3>1. n \in lo + 1 .. k
      BY <2>2
    <3>2. QED
      BY <1>4, <1>5, <1>8, <3>1
  <2>3. QED
    BY <2>1, <2>2
<1>10. QED
  BY <1>8, <1>9

\* The same for two logs.
LEMMA LogsAgree ==
    ASSUME Base, CellsUnique, NEW i \in Server, NEW j \in Server, NEW k \in Nat,
           k <= Len(log[i]), k <= Len(log[j]), TermAt(log[i], k) = TermAt(log[j], k)
    PROVE  /\ \A n \in 1 .. k : log[i][n] = log[j][n]
           /\ \A n \in 0 .. k : TermAt(log[i], n) = TermAt(log[j], n)
<1> DEFINE p == LogPiece(log[i])
           q == LogPiece(log[j])
<1>1. /\ log[i] \in Seq(Entry) /\ log[j] \in Seq(Entry)
      /\ Len(log[i]) \in Nat /\ Len(log[j]) \in Nat
  <2>1. log \in [Server -> Seq(Entry)]
    BY Zenon DEF Base, Typed, TypeOK
  <2>2. QED
    BY <2>1
<1>2. CASE k = 0
  BY <1>2
<1>3. CASE k # 0
  <2>1. p \in Pieces /\ q \in Pieces
    BY PiecesTyped DEF Base, Typed
  <2> DEFINE Facts(r, l) ==
               /\ r.prev_log_index = 0 /\ LastIndex(r) = Len(l) /\ PieceTerm(r, k) = TermAt(l, k)
               /\ \A n \in 1 .. k :
                     CellAt(r, n) = [index |-> n, entry |-> l[n], before |-> TermAt(l, n - 1)]
  <2>2. ASSUME NEW l \in Seq(Entry), k <= Len(l) PROVE Facts(LogPiece(l), l)
    <3>1. k \in 0 .. Len(l) /\ \A n \in 1 .. k : n \in 1 .. Len(l)
      BY <2>2
    <3>2. QED
      BY <3>1, LogPieceOK, Zenon
  <2>3. Facts(p, log[i]) /\ Facts(q, log[j])
    <3> HIDE DEF Facts
    <3>1. QED
      BY <1>1, <2>2
  <2> HIDE DEF p, q
  <2>4. \A n \in 0 + 1 .. k : CellAt(p, n) = CellAt(q, n)
    <3>1. /\ p.prev_log_index <= 0 /\ q.prev_log_index <= 0 /\ 0 < k /\ 0 \in Nat
          /\ k <= LastIndex(p) /\ k <= LastIndex(q) /\ PieceTerm(p, k) = PieceTerm(q, k)
      <4>1. /\ p.prev_log_index = 0 /\ LastIndex(p) = Len(log[i])
            /\ PieceTerm(p, k) = TermAt(log[i], k)
        BY <2>3, Zenon
      <4>2. /\ q.prev_log_index = 0 /\ LastIndex(q) = Len(log[j])
            /\ PieceTerm(q, k) = TermAt(log[j], k)
        BY <2>3, Zenon
      <4> HIDE DEF Facts
      <4>3. QED
        BY <1>3, <4>1, <4>2
    <3> HIDE DEF Facts
    <3>2. QED
      BY <2>1, <3>1, PiecesAgree
  <2>5. ASSUME NEW n \in 1 .. k PROVE log[i][n] = log[j][n]
    <3>1. CellAt(p, n) = [index |-> n, entry |-> log[i][n], before |-> TermAt(log[i], n - 1)]
      BY <2>3, Zenon
    <3>2. CellAt(q, n) = [index |-> n, entry |-> log[j][n], before |-> TermAt(log[j], n - 1)]
      BY <2>3, Zenon
    <3> HIDE DEF Facts
    <3>3. CellAt(p, n).entry = CellAt(q, n).entry
      BY <2>4
    <3>4. QED
      BY <3>1, <3>2, <3>3
  <2>6. QED
    BY <2>5 DEF TermAt
<1>4. QED
  BY <1>2, <1>3

\* And for a message and a log.
LEMMA MessageAgrees ==
    ASSUME Base, CellsUnique, NEW m \in appendEntries, NEW j \in Server, NEW k \in Nat,
           m.prev_log_index < k, k <= LastIndex(m), k <= Len(log[j]),
           PieceTerm(m, k) = TermAt(log[j], k)
    PROVE  \A n \in m.prev_log_index .. k : PieceTerm(m, n) = TermAt(log[j], n)
<1> DEFINE q == LogPiece(log[j])
<1>1. log[j] \in Seq(Entry) /\ Len(log[j]) \in Nat
  BY DEF Base, Typed, TypeOK
<1>2. m \in Pieces /\ q \in Pieces
  BY PiecesTyped DEF Base, Typed
<1>3. m.prev_log_index \in Nat
  BY <1>2, PiecesTyped DEF PieceOK, Base, Typed
<1>4. /\ q.prev_log_index = 0 /\ LastIndex(q) = Len(log[j])
      /\ \A n \in 0 .. Len(log[j]) : PieceTerm(q, n) = TermAt(log[j], n)
  BY <1>1, LogPieceOK, Zenon
<1> HIDE DEF q
<1>5. /\ q.prev_log_index <= m.prev_log_index /\ m.prev_log_index <= m.prev_log_index
      /\ k \in 0 .. Len(log[j])
  BY <1>1, <1>3, <1>4
<1>6. \A n \in m.prev_log_index .. k : PieceTerm(m, n) = PieceTerm(q, n)
  BY <1>2, <1>3, <1>4, <1>5, PiecesAgree
<1>7. \A n \in m.prev_log_index .. k : n \in 0 .. Len(log[j])
  BY <1>1, <1>3
<1>8. QED
  BY <1>4, <1>6, <1>7

-----------------------------------------------------------------------------
(* Types, once and for all                                                 *)

LogTypes ==
    \A i \in Server : /\ current_term[i] \in Nat /\ log[i] \in Seq(Entry) /\ Len(log[i]) \in Nat
                      /\ role[i] \in {Follower, Candidate, Leader}
RequestTypes ==
    \A r \in requestVotes : /\ r.term \in Nat /\ r.candidate_id \in Server
                            /\ r.last_log_index \in Nat /\ r.last_log_term \in Nat
AppendTypes ==
    \A m \in appendEntries : /\ m.term \in Nat /\ m.leader_id \in Server /\ m.to \in Server
                             /\ m \in Pieces /\ PieceOK(m)
                             /\ m.prev_log_index \in Nat /\ LastIndex(m) \in Nat
                             /\ m.prev_log_index <= LastIndex(m)
                             /\ PieceTerm(m, LastIndex(m)) \in Nat
ReplyTypes ==
    \A a \in appendResponses : /\ a.term \in Nat /\ a.follower_id \in Server /\ a.to \in Server
                               /\ a.match_index \in Nat
CellTypes ==
    \A c \in Cells : c.index \in Nat /\ c.index >= 1 /\ c.entry.term \in Nat /\ c.before \in Nat

LEMMA LogTyped == Base => LogTypes
<1> SUFFICES ASSUME Base, NEW i \in Server
             PROVE  /\ current_term[i] \in Nat /\ log[i] \in Seq(Entry) /\ Len(log[i]) \in Nat
                    /\ role[i] \in {Follower, Candidate, Leader}
  BY DEF LogTypes
<1>1. /\ current_term \in [Server -> Nat] /\ log \in [Server -> Seq(Entry)]
      /\ role \in [Server -> {Follower, Candidate, Leader}]
  BY Zenon DEF Base, Typed, TypeOK
<1>2. QED
  BY <1>1

LEMMA RequestTyped == Base => RequestTypes
BY Zenon DEF Base, Typed, TypeOK, RequestVoteMsg, RequestTypes

LEMMA AppendTyped == Base => AppendTypes
<1> SUFFICES ASSUME Base, NEW m \in appendEntries
             PROVE  /\ m.term \in Nat /\ m.leader_id \in Server /\ m.to \in Server
                    /\ m \in Pieces /\ PieceOK(m)
                    /\ m.prev_log_index \in Nat /\ LastIndex(m) \in Nat
                    /\ m.prev_log_index <= LastIndex(m)
                    /\ PieceTerm(m, LastIndex(m)) \in Nat
  BY DEF AppendTypes
<1>1. m.term \in Nat /\ m.leader_id \in Server /\ m.to \in Server
  BY Zenon DEF Base, Typed, TypeOK, AppendEntriesMsg
<1>2. m \in Pieces /\ PieceOK(m)
  BY PiecesTyped DEF Base, Typed
<1>3. /\ m.prev_log_index \in Nat /\ LastIndex(m) \in Nat /\ m.prev_log_index <= LastIndex(m)
      /\ \A k \in m.prev_log_index .. LastIndex(m) : PieceTerm(m, k) \in Nat
  BY <1>2, PieceTermType DEF PieceOK
<1>4. LastIndex(m) \in m.prev_log_index .. LastIndex(m)
  BY <1>3
<1>5. QED
  BY <1>1, <1>2, <1>3, <1>4

LEMMA ReplyTyped == Base => ReplyTypes
BY Zenon DEF Base, Typed, TypeOK, AppendResponseMsg, ReplyTypes

LEMMA CellTyped == Base => CellTypes
<1> SUFFICES ASSUME Base, NEW c \in Cells
             PROVE  c.index \in Nat /\ c.index >= 1 /\ c.entry.term \in Nat /\ c.before \in Nat
  BY DEF CellTypes
<1>1. c \in Cell
  BY PiecesTyped DEF Base, Typed
<1>2. QED
  BY <1>1 DEF Cell, Entry

LEMMA LogTypedNext == Base' => LogTypes'
BY LogTyped, PTL
LEMMA RequestTypedNext == Base' => RequestTypes'
BY RequestTyped, PTL
LEMMA AppendTypedNext == Base' => AppendTypes'
BY AppendTyped, PTL
LEMMA ReplyTypedNext == Base' => ReplyTypes'
BY ReplyTyped, PTL
LEMMA CellTypedNext == Base' => CellTypes'
BY CellTyped, PTL

-----------------------------------------------------------------------------
(* Entries of logs and messages as cells                                   *)

\* c is the cell at index k of a piece with term t there and u before it.
CellIs(c, k, t, u) == c \in Cells /\ c.index = k /\ c.entry.term = t /\ c.before = u

LEMMA PieceCell ==
    ASSUME Base, NEW p \in Pieces, NEW k \in Nat, p.prev_log_index < k, k <= LastIndex(p)
    PROVE  \E c \in CellsOf(p) : CellIs(c, k, PieceTerm(p, k), PieceTerm(p, k - 1))
<1>1. PieceOK(p)
  BY PiecesTyped DEF Base, Typed
<1>2. k \in p.prev_log_index + 1 .. LastIndex(p)
  BY <1>1, PieceTermType DEF PieceOK
<1>3. /\ CellAt(p, k) \in CellsOf(p) /\ CellAt(p, k) \in Cells
      /\ CellAt(p, k).index = k /\ CellAt(p, k).entry.term = PieceTerm(p, k)
      /\ CellAt(p, k).before = PieceTerm(p, k - 1)
  BY <1>1, <1>2, CellOfPiece, PieceTermType, Zenon
<1>4. QED
  BY <1>3 DEF CellIs

\* The log of a node is a piece, too.
LogIsPiece(i) ==
    /\ LogPiece(log[i]) \in Pieces
    /\ LogPiece(log[i]).prev_log_index = 0 /\ LastIndex(LogPiece(log[i])) = Len(log[i])
    /\ \A k \in 0 .. Len(log[i]) : PieceTerm(LogPiece(log[i]), k) = TermAt(log[i], k)

LEMMA LogPieces ==
    ASSUME Base, NEW i \in Server
    PROVE  LogIsPiece(i)
<1>1. log[i] \in Seq(Entry)
  BY LogTyped DEF LogTypes
<1>2. LogPiece(log[i]) \in Pieces
  BY PiecesTyped DEF Base, Typed
<1>3. QED
  BY <1>1, <1>2, LogPieceOK, Zenon DEF LogIsPiece

LogCellsExist ==
    \A i \in Server : \A k \in 1 .. Len(log[i]) :
        \E c \in CellsOf(LogPiece(log[i])) :
            CellIs(c, k, TermAt(log[i], k), TermAt(log[i], k - 1))

LEMMA LogCell == Base => LogCellsExist
<1> SUFFICES ASSUME Base, NEW i \in Server, NEW k \in 1 .. Len(log[i])
             PROVE  \E c \in CellsOf(LogPiece(log[i])) :
                       CellIs(c, k, TermAt(log[i], k), TermAt(log[i], k - 1))
  BY DEF LogCellsExist
<1> DEFINE p == LogPiece(log[i])
<1>1. /\ p \in Pieces /\ p.prev_log_index = 0 /\ LastIndex(p) = Len(log[i])
      /\ \A n \in 0 .. Len(log[i]) : PieceTerm(p, n) = TermAt(log[i], n)
  BY LogPieces, Zenon DEF LogIsPiece
<1>2. Len(log[i]) \in Nat
  BY LogTyped DEF LogTypes
<1> HIDE DEF p
<1>3. k \in Nat /\ p.prev_log_index < k /\ k <= LastIndex(p)
  BY <1>1, <1>2
<1>4. PieceTerm(p, k) = TermAt(log[i], k) /\ PieceTerm(p, k - 1) = TermAt(log[i], k - 1)
  BY <1>1, <1>2
<1>5. \E c \in CellsOf(p) : CellIs(c, k, PieceTerm(p, k), PieceTerm(p, k - 1))
  BY <1>1, <1>3, PieceCell
<1>6. QED
  BY <1>4, <1>5 DEF p

LEMMA LogCellNext == Base' => LogCellsExist'
BY LogCell, PTL

\* What being in a node's log means for a cell.
LogCellPlaces ==
    \A i \in Server : \A c \in CellsOf(LogPiece(log[i])) :
        /\ c \in Cells /\ c.index \in 1 .. Len(log[i]) /\ log[i][c.index] = c.entry
        /\ TermAt(log[i], c.index) = c.entry.term /\ TermAt(log[i], c.index - 1) = c.before

LEMMA LogCellPlace == Base => LogCellPlaces
<1> SUFFICES ASSUME Base, NEW i \in Server, NEW c \in CellsOf(LogPiece(log[i]))
             PROVE  /\ c \in Cells /\ c.index \in 1 .. Len(log[i]) /\ log[i][c.index] = c.entry
                    /\ TermAt(log[i], c.index) = c.entry.term
                    /\ TermAt(log[i], c.index - 1) = c.before
  BY DEF LogCellPlaces
<1>1. log[i] \in Seq(Entry)
  BY LogTyped DEF LogTypes
<1>2. c \in Cells
  BY CellIntro
<1>3. QED
  BY <1>1, <1>2, CellInLog, Zenon

LEMMA LogCellPlaceNext == Base' => LogCellPlaces'
BY LogCellPlace, PTL

\* A log that has a cell's term at the cell's index has the cell.
LogHasCell ==
    \A i \in Server : \A c \in Cells :
        c.index <= Len(log[i]) /\ TermAt(log[i], c.index) = c.entry.term
            => c \in CellsOf(LogPiece(log[i]))

LEMMA InLog == Base /\ CellsUnique => LogHasCell
<1> SUFFICES ASSUME Base, CellsUnique, NEW i \in Server, NEW c \in Cells,
                    c.index <= Len(log[i]), TermAt(log[i], c.index) = c.entry.term
             PROVE  c \in CellsOf(LogPiece(log[i]))
  BY DEF LogHasCell
<1>1. Len(log[i]) \in Nat /\ c.index \in Nat /\ c.index >= 1
  BY LogTyped, CellTyped DEF LogTypes, CellTypes
<1>2. c.index \in 1 .. Len(log[i])
  BY <1>1
<1>3. PICK d \in CellsOf(LogPiece(log[i])) :
         CellIs(d, c.index, TermAt(log[i], c.index), TermAt(log[i], c.index - 1))
  BY <1>2, LogCell DEF LogCellsExist
<1>4. d = c
  BY <1>3, Zenon DEF CellIs, CellsUnique
<1>5. QED
  BY <1>3, <1>4

LEMMA InLogNext == Base' /\ CellsUnique' => LogHasCell'
BY InLog, PTL

-----------------------------------------------------------------------------
(* append_entry and apply_committed_entries, which several handlers end    *)
(* with                                                                    *)

LEMMA SendAppendsAppends ==
    ASSUME NEW i \in Server, NEW ps \in SUBSET (Server \ {i}), NEW next, SendAppends(i, ps, next)
    PROVE  NewAppends(i, log'[i]) /\ appendEntries \subseteq appendEntries'
<1> DEFINE Msg(p) == MakeAppendEntries(i, p, current_term[i], log'[i], next[p], commit_index[i])
<1>1. CASE \A p \in ps : next[p] \in 1 .. Len(log'[i]) + 1
  <2>1. appendEntries' = appendEntries \cup Sent(i, {Msg(p) : p \in ps})
    BY <1>1, Zenon DEF SendAppends
  <2>2. \A m \in appendEntries' \ appendEntries : \E p \in ps : m = Msg(p)
    BY <2>1 DEF Sent
  <2>3. \A m \in appendEntries' \ appendEntries : IsAppend(m, i, log'[i])
    BY <1>1, <2>2, Zenon DEF IsAppend
  <2>4. QED
    BY <2>1, <2>3, Zenon DEF NewAppends
<1>2. CASE ~(\A p \in ps : next[p] \in 1 .. Len(log'[i]) + 1)
  BY <1>2, Zenon DEF SendAppends, NewAppends
<1>3. QED
  BY <1>1, <1>2

\* A step that leaves the terms, roles and votes alone.
LEMMA SameTermsGrow ==
    ASSUME Base, UNCHANGED <<current_term, role, voted_for, requestVotes, voteResponses>>,
           appendEntries \subseteq appendEntries', appendResponses \subseteq appendResponses'
    PROVE  Grows /\ NoNewLeader /\ NoNewCandidate
<1>1. current_term \in [Server -> Nat]
  BY DEF Base, Typed, TypeOK
<1>2. \A j \in Server : current_term[j] <= current_term'[j]
  BY <1>1
<1>3. QED
  BY <1>2, Zenon DEF Grows, NoNewLeader, NoNewCandidate

LEMMA AppendEntryShape ==
    ASSUME Base, NEW i \in Server, role[i] = Leader, NEW payload \in Payload, NEW pending,
           AppendEntry(i, payload, pending)
    PROVE  Grows /\ Extends(i, [term |-> current_term[i], payload |-> payload])
<1> DEFINE e == [term |-> current_term[i], payload |-> payload]
<1>1. peers[i] \in SUBSET (Server \ {i})
  BY DEF Base, ElectionInv, CommandsOnly
<1>2. /\ log' = [log EXCEPT ![i] = Append(@, e)]
      /\ UNCHANGED <<current_term, voted_for, role, requestVotes, voteResponses, appendResponses>>
  BY Zenon DEF AppendEntry, termVars
<1>3. NewAppends(i, log'[i]) /\ appendEntries \subseteq appendEntries'
  <2>1. CASE peers[i] = {}
    <3>1. appendEntries' = appendEntries
      BY <2>1, Zenon DEF AppendEntry
    <3>2. QED
      BY <3>1 DEF NewAppends
  <2>2. CASE peers[i] # {}
    <3>1. SendAppends(i, peers[i], next_index[i])
      BY <2>2, Zenon DEF AppendEntry
    <3>2. QED
      BY <1>1, <3>1, SendAppendsAppends, Zenon
  <2>3. QED
    BY <2>1, <2>2
<1>4. Extends(i, e)
  BY <1>2, <1>3, Zenon DEF Extends
<1>5. QED
  BY <1>2, <1>3, <1>4, SameTermsGrow, Zenon

\* Applying commands leaves the progress maps as the caller has set them.
LEMMA ApplyKeepsProgress ==
    ASSUME Base, Base', NEW i \in Server, NEW next \in [Server -> Nat], NEW match \in [Server -> Nat],
           NEW pending, NEW responses, ApplyCommittedEntries(i, next, match, pending, responses)
    PROVE  /\ next_index' = [next_index EXCEPT ![i] = next]
           /\ match_index' = [match_index EXCEPT ![i] = match]
<1> DEFINE l  == log'[i]
           ks == last_applied[i] + 1 .. commit_index'[i]
<1>1. /\ last_applied[i] \in Nat /\ commit_index'[i] \in Nat /\ commit_index'[i] <= Len(l)
      /\ Len(l) \in Nat
  <2>1. /\ last_applied \in [Server -> Nat] /\ commit_index' \in [Server -> Nat]
        /\ log' \in [Server -> Seq(Entry)] /\ commit_index'[i] <= Len(log'[i])
    BY Zenon DEF Base, Typed, TypeOK, CommitInLog
  <2>2. QED
    BY <2>1
<1>2. \A k \in ks : l[k].payload.kind = "command"
  <2>1. \A k \in ks : k \in 1 .. Len(l)
    BY <1>1
  <2>2. \A k \in 1 .. Len(l) : l[k].payload.kind = "command"
    BY Zenon DEF Base, ElectionInv, CommandsOnly, Commands
  <2>3. QED
    BY <2>1, <2>2, Zenon
<1>3. \A p : ~Removes(l, ks, p) /\ ~Adds(l, ks, p)
  <2> HIDE DEF l, ks
  <2>1. ASSUME NEW k \in ks, NEW p
        PROVE  /\ l[k].payload # [kind |-> "remove", id |-> p]
               /\ l[k].payload # [kind |-> "add", id |-> p]
    <3>1. l[k].payload.kind = "command"
      BY <1>2
    <3>2. QED
      BY <3>1
  <2>2. QED
    BY <2>1, Zenon DEF Removes, Adds
<1>4. \A p \in Server : NextAfter(role'[i] = Leader, l, ks, next[p], p) = next[p]
  BY <1>3, Zenon DEF NextAfter
<1>5. /\ next_index' = [next_index EXCEPT ![i] =
            [p \in Server |-> NextAfter(role'[i] = Leader, l, ks, next[p], p)]]
      /\ match_index' = [match_index EXCEPT ![i] = [p \in Server |->
            IF Removes(l, ks, p) THEN 0 ELSE match[p]]]
  BY Zenon DEF ApplyCommittedEntries
<1> HIDE DEF l, ks
<1>6. [p \in Server |-> NextAfter(role'[i] = Leader, l, ks, next[p], p)] = next
  BY <1>4
<1>7. [p \in Server |-> IF Removes(l, ks, p) THEN 0 ELSE match[p]] = match
  BY <1>3
<1>8. QED
  BY <1>5, <1>6, <1>7, Zenon
=============================================================================
