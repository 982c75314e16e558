--------------------------- MODULE StreamLogProofs ----------------------------
(***************************************************************************)
(* What is stored of a stream, whatever its text, its events, the number   *)
(* of claims and the number of faults: the log has each chunk and each     *)
(* transition once and in order, and the publisher never contradicts what  *)
(* it sent before.                                                         *)
(*                                                                         *)
(* A write may be under way, given up on, tried again and late, all at     *)
(* once.  LogInv says what can be relied on nevertheless: each of them is  *)
(* in the log already, or is the one entry the log goes on with (Fresh).   *)
(* That is inductive because the head of the queue is not changed once it  *)
(* was sent, and the next operation is made only after it was answered.    *)
(*                                                                         *)
(* TextInv adds how far the text can get (Reach), so that a turn is        *)
(* completed only with all its text stored.                                *)
(***************************************************************************)
EXTENDS StreamProofs

-----------------------------------------------------------------------------
(* The log *)

(* How far the text had got after the first n entries of the log l. *)
Reached(l, n) == {0} \cup {l[j].to : j \in {j \in 1..n : l[j].kind = "text"}}

(* The text is the furthest of these. *)
IsTextAfter(t, l, n) == t \in Reached(l, n) /\ \A b \in Reached(l, n) : b <= t

(* An entry goes on where the text was, and a transition is there once. *)
EntryOK(l, i) ==
    /\ l[i].kind = "text" => IsTextAfter(l[i].id, l, i - 1) /\ l[i].to > l[i].id
    /\ l[i].kind = "semantic" /\ l[i].id > 0 =>
          /\ IsTextAfter(l[i].to, l, i - 1)
          /\ \A j \in 1..(i - 1) : l[j].kind = "semantic" => l[j].id # l[i].id

(* Every entry does, and nothing follows the end. *)
WellFormed(l) ==
    \A i \in 1..Len(l) : EntryOK(l, i) /\ (l[i].kind = "done" => i = Len(l))

(* The transitions that are in the log. *)
Ids(l) == {l[i].id : i \in {j \in 1..Len(l) : l[j].kind = "semantic"}}

(* The row of the stream is where the log of an open turn has got to. *)
Follows(s, l) ==
    /\ IsTextAfter(s.text, l, Len(l))
    /\ s.batchSeq \in 0..Len(l)
    /\ s.batchSeq = 0 => s.text = 0
    /\ s.batchSeq > 0 => l[s.batchSeq].kind = "text" /\ l[s.batchSeq].to = s.text
    /\ \A i \in 1..Len(l) : l[i].kind # "done"
    /\ Ids(l) \subseteq 1..MaxSemantic
    /\ Len(l) <= s.text + Cardinality(Ids(l))

(* The log is in order, and the row agrees with it until the turn ends. *)
StoreOK ==
    /\ WellFormed(log) /\ Len(log) <= MaxLog
    /\ ~Ended => Follows(stream, log)

(* An entry the log goes on with, and one it has. *)
Fresh(op, l, t) ==
    \/ op.kind = "text" /\ op.id = t /\ op.to > op.id
    \/ /\ op.kind = "semantic" /\ op.to = t
       /\ op.id \in 1..MaxSemantic /\ op.id \notin Ids(l)

Past(op, l) == \E i \in 1..Len(l) : l[i] = op

Latest(op, l, t) == Past(op, l) /\ op.to = t

-----------------------------------------------------------------------------
(* A log that grows keeps what it has *)

(* The log m goes on from l. *)
Extends(m, l) == Len(l) <= Len(m) /\ \A i \in 1..Len(l) : m[i] = l[i]

(* What the log had got to, it still has. *)
LEMMA ReachedKept ==
    ASSUME NEW l \in Seq(Entry), NEW m \in Seq(Entry), Extends(m, l), NEW n \in 0..Len(l)
    PROVE  Reached(m, n) = Reached(l, n)
BY DEF Reached, Extends

(* An entry that was right stays right. *)
LEMMA EntryKept ==
    ASSUME NEW l \in Seq(Entry), NEW m \in Seq(Entry), Extends(m, l), NEW i \in 1..Len(l),
           EntryOK(l, i)
    PROVE  EntryOK(m, i)
<1>1. Reached(m, i - 1) = Reached(l, i - 1)
  BY ReachedKept
<1>2. m[i] = l[i] /\ \A j \in 1..(i - 1) : m[j] = l[j]
  BY DEF Extends
<1>3. QED
  BY <1>1, <1>2 DEF EntryOK, IsTextAfter

(* What is in the log stays in it. *)
LEMMA PastKept ==
    ASSUME NEW l \in Seq(Entry), NEW m \in Seq(Entry), Extends(m, l), NEW op, Past(op, l)
    PROVE  Past(op, m)
BY DEF Past, Extends

(* A log with one more entry keeps what it has. *)
LEMMA AppendExtends ==
    ASSUME NEW l \in Seq(Entry), NEW e \in Entry
    PROVE  /\ Append(l, e) \in Seq(Entry) /\ Extends(Append(l, e), l)
           /\ Len(Append(l, e)) = Len(l) + 1 /\ Append(l, e)[Len(l) + 1] = e
BY AppendProperties DEF Extends

(* The text only grows: batches begin where the one before ended. *)
LEMMA TextIsBounded ==
    ASSUME NEW l \in Seq(Entry), NEW t \in Nat, IsTextAfter(t, l, Len(l)), NEW i \in 1..Len(l),
           l[i].kind = "text"
    PROVE  l[i].to <= t
BY DEF IsTextAfter, Reached

(* Batches start at different texts: the start of one names it. *)
LEMMA BatchesAreApart ==
    ASSUME NEW l \in Seq(Entry), WellFormed(l),
           NEW i \in 1..Len(l), NEW j \in 1..Len(l), i < j,
           l[i].kind = "text", l[j].kind = "text"
    PROVE  l[i].to <= l[j].id /\ l[i].id < l[j].id
<1>1. l[i].to \in Reached(l, j - 1)
  BY DEF Reached
<1>2. IsTextAfter(l[j].id, l, j - 1) /\ l[i].to > l[i].id
  BY DEF WellFormed, EntryOK
<1>3. l[i].to <= l[j].id
  BY <1>1, <1>2 DEF IsTextAfter
<1>4. l[i] \in Entry /\ l[j] \in Entry
  OBVIOUS
<1>5. l[i].id \in Nat /\ l[j].id \in Nat /\ l[i].to \in Nat
  BY <1>4, StreamAssumption DEF Entry, Texts
<1>6. l[i].id < l[i].to
  BY <1>2, <1>5
<1> QED
  BY <1>3, <1>5, <1>6

(* What is in the log is not what it goes on with. *)
LEMMA PastIsNotFresh ==
    ASSUME NEW l \in Seq(Entry), NEW s \in StreamRecord, Follows(s, l), NEW op \in Write,
           Past(op, l)
    PROVE  ~Fresh(op, l, s.text)
<1>1. PICK i \in 1..Len(l) : l[i] = op
  BY DEF Past
<1>2. CASE op.kind = "text"
  <2>1. op.to <= s.text
    BY <1>1, <1>2, TextIsBounded DEF Follows, StreamRecord, Texts
  <2>2. QED
    BY <1>2, <2>1 DEF Fresh, Write, StreamRecord, Texts
<1>3. CASE op.kind = "semantic"
  BY <1>1, <1>3 DEF Fresh, Ids
<1>4. QED
  BY <1>2, <1>3 DEF Write

-----------------------------------------------------------------------------
(* What a write does to the log *)

(* A fresh entry is what the log goes on with. *)
LEMMA FreshIsRight ==
    ASSUME NEW l \in Seq(Entry), NEW s \in StreamRecord, WellFormed(l), Follows(s, l),
           NEW op \in Write, Fresh(op, l, s.text)
    PROVE  WellFormed(Append(l, op))
<1> DEFINE m == Append(l, op)  n == Len(l) + 1
<1>0. op \in Entry /\ Len(l) \in Nat
  BY DEF Write, Entry
<1>1. m \in Seq(Entry) /\ Extends(m, l) /\ Len(m) = n /\ m[n] = op
  BY <1>0, AppendExtends
<1> HIDE DEF m
<1>2. ASSUME NEW i \in 1..Len(l) PROVE EntryOK(m, i) /\ m[i].kind # "done"
  <2>1. EntryOK(l, i) /\ l[i].kind # "done" /\ m[i] = l[i]
    BY <1>1 DEF WellFormed, Follows, Extends
  <2>2. QED
    BY <1>1, <2>1, EntryKept
<1>3. Reached(m, n - 1) = Reached(l, Len(l))
  BY <1>0, <1>1, ReachedKept
<1>4. IsTextAfter(s.text, m, n - 1)
  BY <1>3 DEF Follows, IsTextAfter
<1>5. EntryOK(m, n) /\ m[n].kind # "done"
  <2>1. CASE op.kind = "text"
    BY <1>1, <1>4, <2>1 DEF EntryOK, Fresh
  <2>2. CASE op.kind = "semantic"
    <3>1. \A j \in 1..(n - 1) : m[j].kind = "semantic" => m[j].id # op.id
      BY <1>0, <1>1, <2>2 DEF Fresh, Ids, Extends
    <3>2. QED
      BY <1>1, <1>4, <2>2, <3>1 DEF EntryOK, Fresh
  <2>3. QED
    BY <2>1, <2>2 DEF Write
<1>6. QED
  BY <1>0, <1>1, <1>2, <1>5 DEF WellFormed, m

(* And where the row then stands. *)
LEMMA RowFollows ==
    ASSUME NEW l \in Seq(Entry), NEW s \in StreamRecord, Follows(s, l),
           NEW op \in Write, Fresh(op, l, s.text),
           NEW r \in StreamRecord, r.text = op.to,
           r.batchSeq = (IF op.kind = "text" THEN Len(l) + 1 ELSE s.batchSeq)
    PROVE  Follows(r, Append(l, op))
<1> DEFINE m == Append(l, op)  n == Len(l) + 1
<1>0. op \in Entry /\ Len(l) \in Nat /\ s.text \in Nat /\ r.text \in Nat /\ op.to \in Nat
  BY StreamAssumption DEF Write, Entry, StreamRecord, Texts
<1>1. m \in Seq(Entry) /\ Extends(m, l) /\ Len(m) = n /\ m[n] = op
  BY <1>0, AppendExtends
<1> HIDE DEF m
<1>2. Reached(m, n) = Reached(l, Len(l)) \cup (IF op.kind = "text" THEN {op.to} ELSE {})
  BY <1>0, <1>1 DEF Reached, Extends
<1>3. IsTextAfter(r.text, m, n)
  <2>1. Reached(l, Len(l)) \subseteq Nat
    <3>1. \A j \in 1..Len(l) : l[j] \in Entry
      OBVIOUS
    <3>2. QED
      BY <3>1, StreamAssumption DEF Reached, Entry, Texts
  <2>2. s.text \in Reached(l, Len(l)) /\ \A b \in Reached(l, Len(l)) : b <= s.text
    BY DEF Follows, IsTextAfter
  <2>3. CASE op.kind = "text"
    <3>1. op.to > s.text
      BY <2>3 DEF Fresh
    <3>2. QED
      BY <1>0, <1>2, <2>1, <2>2, <2>3, <3>1 DEF IsTextAfter
  <2>4. CASE op.kind = "semantic"
    BY <1>2, <2>2, <2>4 DEF IsTextAfter, Fresh
  <2>5. QED
    BY <2>3, <2>4 DEF Write
<1>4. Ids(m) = Ids(l) \cup (IF op.kind = "semantic" THEN {op.id} ELSE {})
  BY <1>0, <1>1 DEF Ids, Extends
<1>5. IsFiniteSet(Ids(l)) /\ Cardinality(Ids(l)) \in Nat
  <2>1. IsFiniteSet(1..MaxSemantic)
    BY StreamAssumption, FS_Interval
  <2>2. QED
    BY <2>1, FS_Subset, FS_CardinalityType DEF Follows
<1>6. Ids(m) \subseteq 1..MaxSemantic /\ n <= r.text + Cardinality(Ids(m))
  <2>1. CASE op.kind = "text"
    BY <1>0, <1>4, <1>5, <2>1 DEF Follows, Fresh
  <2>2. CASE op.kind = "semantic"
    <3>1. op.id \in 1..MaxSemantic /\ op.id \notin Ids(l) /\ op.to = s.text
      BY <2>2 DEF Fresh
    <3>2. Cardinality(Ids(m)) = Cardinality(Ids(l)) + 1
      BY <1>4, <1>5, <2>2, <3>1, FS_AddElement
    <3>3. QED
      BY <1>0, <1>4, <1>5, <2>2, <3>1, <3>2 DEF Follows
  <2>3. QED
    BY <2>1, <2>2 DEF Write
<1>7. /\ r.batchSeq \in 0..n
      /\ r.batchSeq = 0 => r.text = 0
      /\ r.batchSeq > 0 => m[r.batchSeq].kind = "text" /\ m[r.batchSeq].to = r.text
  BY <1>0, <1>1 DEF Follows, Fresh, Extends, Write
<1>8. \A i \in 1..n : m[i].kind # "done"
  BY <1>0, <1>1 DEF Follows, Extends, Write
<1>9. QED
  BY <1>1, <1>3, <1>6, <1>7, <1>8 DEF Follows, m

(* The log of an open turn leaves room for what the end adds. *)
LEMMA RoomForTheEnd ==
    ASSUME NEW l \in Seq(Entry), NEW s \in StreamRecord, Follows(s, l)
    PROVE  Len(l) + 3 <= MaxLog
<1>1. IsFiniteSet(1..MaxSemantic) /\ Cardinality(1..MaxSemantic) = MaxSemantic
  BY StreamAssumption, FS_Interval
<1>2. Cardinality(Ids(l)) \in Nat /\ Cardinality(Ids(l)) <= MaxSemantic
  BY <1>1, FS_Subset, FS_CardinalityType DEF Follows
<1>3. Len(l) \in Nat /\ s.text \in 0..MaxText
  BY DEF StreamRecord, Texts
<1>4. QED
  BY <1>2, <1>3, StreamAssumption DEF Follows, MaxLog

-----------------------------------------------------------------------------
(* What the store answers *)

(* What the store answers to a write. *)
LEMMA AnswerTyped ==
    ASSUME NEW op \in Write
    PROVE  /\ op.kind \in {"text", "semantic"} /\ op.id \in Nat /\ op.to \in Texts
           /\ op.to \in Nat /\ op \in Entry
BY StreamAssumption DEF Write, Entry, Texts

(* A fresh write is taken, if any is. *)
LEMMA FreshIsTaken ==
    ASSUME Typed, StoreOK, ~Ended, NEW op \in Write, Fresh(op, log, stream.text)
    PROVE  \/ AnswerTo(op) = [out |-> "persisted", seq |-> Len(log) + 1]
           \/ Refusal # None /\ AnswerTo(op) = Refused(Refusal)
<1>0. Follows(stream, log) /\ WellFormed(log)
  BY DEF StoreOK
<1>1. CASE Refusal # None
  BY <1>1 DEF AnswerTo, TextAnswer, SemanticAnswer
<1>2. CASE Refusal = None /\ op.kind = "text"
  <2>1. ~LastBatch(op)
    <3> SUFFICES ASSUME stream.batchSeq > 0, log[stream.batchSeq].id = op.id PROVE FALSE
      BY DEF LastBatch
    <3>1. stream.batchSeq \in 1..Len(log) /\ log[stream.batchSeq].kind = "text"
          /\ log[stream.batchSeq].to = stream.text
      BY <1>0 DEF Follows
    <3>2. log[stream.batchSeq].to > log[stream.batchSeq].id
      BY <1>0, <3>1 DEF WellFormed, EntryOK
    <3>3. op.id = stream.text
      BY <1>2 DEF Fresh
    <3>4. QED
      BY <3>1, <3>2, <3>3, StreamAssumption DEF Typed, StreamRecord, Texts
  <2>2. TextAnswer(op) = Appended(op.id = stream.text)
    BY <1>2, <2>1 DEF TextAnswer
  <2>3. op.id = stream.text
    BY <1>2 DEF Fresh
  <2>4. QED
    BY <1>2, <2>2, <2>3 DEF AnswerTo, Appended
<1>3. CASE Refusal = None /\ op.kind # "text"
  <2>1. op.kind = "semantic" /\ op.to = stream.text /\ op.id \notin Ids(log)
    BY <1>3 DEF Fresh
  <2>2. Written(op) = {}
    BY <2>1 DEF Written, Ids
  <2>3. SemanticAnswer(op) = Appended(stream.text <= op.to)
    BY <1>3, <2>2 DEF SemanticAnswer
  <2>4. stream.text <= op.to
    BY <2>1, StreamAssumption DEF Typed, StreamRecord, Texts
  <2>5. QED
    BY <1>3, <2>3, <2>4 DEF AnswerTo, Appended
<1>4. QED
  BY <1>1, <1>2, <1>3

(* One the log has is not written again; the last one is recognised. *)
LEMMA PastIsKnown ==
    ASSUME Typed, StoreOK, ~Ended, NEW op \in Write, Past(op, log)
    PROVE  /\ AnswerTo(op).out # "persisted"
           /\ op.to = stream.text => AnswerTo(op).out # "conflict"
<1>0. Follows(stream, log) /\ WellFormed(log)
  BY DEF StoreOK
<1>00. log \in Seq(Entry) /\ stream \in StreamRecord /\ stream.text \in Nat /\ op.to \in Nat
  BY AnswerTyped, StreamAssumption DEF Typed, StreamRecord, Texts
<1>1. PICK i \in 1..Len(log) : log[i] = op
  BY DEF Past
<1>2. CASE Refusal # None
  BY <1>2 DEF AnswerTo, TextAnswer, SemanticAnswer, Refused, Refusal, None
<1>3. CASE Refusal = None /\ op.kind = "text"
  <2>1. AnswerTo(op) = TextAnswer(op)
    BY <1>3 DEF AnswerTo
  <2>2. op.to > op.id /\ op.to <= stream.text
    BY <1>0, <1>00, <1>1, <1>3, TextIsBounded DEF WellFormed, EntryOK, Follows
  <2>3. ASSUME LastBatch(op) PROVE AnswerTo(op).out # "persisted"
    BY <1>3, <2>1, <2>3 DEF TextAnswer, Refused
  <2>4. ASSUME ~LastBatch(op) PROVE AnswerTo(op).out # "persisted"
    <3>1. TextAnswer(op) = Appended(op.id = stream.text)
      BY <1>3, <2>4 DEF TextAnswer
    <3>2. op.id # stream.text
      BY <2>2, AnswerTyped, <1>00
    <3>3. TextAnswer(op) = Refused("conflict")
      BY <3>1, <3>2 DEF Appended
    <3>4. QED
      BY <2>1, <3>3 DEF Refused
  <2>5. ASSUME op.to = stream.text PROVE AnswerTo(op).out = "already_persisted"
    <3>1. stream.batchSeq \in 1..Len(log) /\ log[stream.batchSeq].kind = "text"
          /\ log[stream.batchSeq].to = stream.text
      BY <1>0, <2>2, <2>5, AnswerTyped DEF Follows
    <3>2. stream.batchSeq = i
      <4>1. ~(stream.batchSeq < i)
        BY <1>0, <1>00, <1>1, <1>3, <2>2, <2>5, <3>1, BatchesAreApart, AnswerTyped
      <4>2. ~(i < stream.batchSeq)
        <5> SUFFICES ASSUME i < stream.batchSeq PROVE FALSE
          OBVIOUS
        <5> DEFINE last == log[stream.batchSeq]
        <5>1. log[i].to <= last.id
          BY <1>0, <1>00, <1>1, <1>3, <3>1, BatchesAreApart
        <5>2. last.to > last.id /\ last \in Entry
          BY <1>0, <1>00, <3>1 DEF WellFormed, EntryOK
        <5>3. last.id \in Nat
          BY <5>2 DEF Entry
        <5>4. QED
          BY <1>00, <1>1, <2>5, <3>1, <5>1, <5>2, <5>3
      <4>3. QED
        BY <3>1, <4>1, <4>2
    <3>3. LastBatch(op) /\ log[stream.batchSeq].to = op.to /\ op.to <= stream.text
      BY <1>00, <1>1, <3>1, <3>2, <2>2 DEF LastBatch
    <3>4. QED
      BY <1>3, <2>1, <3>3 DEF TextAnswer
  <2>6. QED
    BY <2>1, <2>3, <2>4, <2>5
<1>4. CASE Refusal = None /\ op.kind # "text"
  <2>1. i \in Written(op)
    BY <1>1, <1>4, AnswerTyped DEF Written
  <2>2. SemanticAnswer(op).out = "already_persisted"
    BY <1>4, <2>1 DEF SemanticAnswer
  <2>3. QED
    BY <1>4, <2>2 DEF AnswerTo
<1>5. QED
  BY <1>2, <1>3, <1>4

(***************************************************************************)
(* A write that is fresh or past leaves the log in order, and is past      *)
(* afterwards unless it was refused.  One that is fresh or the latest is   *)
(* never in conflict.                                                      *)
(***************************************************************************)
LEMMA WriteLands ==
    ASSUME Typed, StoreOK, ~Ended, NEW op \in Write, Persist(op),
           Fresh(op, log, stream.text) \/ Past(op, log)
    PROVE  /\ StoreOK' /\ turn' = turn /\ owned' = owned
           /\ \/ log' = log /\ stream' = stream
              \/ /\ Fresh(op, log, stream.text) /\ Extends(log', log)
                 /\ stream'.text = op.to /\ Past(op, log') /\ log' \in Seq(Entry)
           /\ Fresh(op, log, stream.text) \/ op.to = stream.text =>
                /\ AnswerTo(op).out # "conflict"
                /\ AnswerTo(op).out \in {"persisted", "already_persisted"} =>
                     Latest(op, log', stream'.text)
<1>0. /\ Follows(stream, log) /\ WellFormed(log) /\ log \in Seq(Entry) /\ op \in Entry
      /\ stream \in StreamRecord /\ turn' = turn /\ owned' = owned
  BY AnswerTyped DEF StoreOK, Typed, Persist
<1>1. CASE AnswerTo(op).out = "persisted"
  <2>1. Fresh(op, log, stream.text)
    BY <1>1, PastIsKnown
  <2>2. /\ log' = Append(log, op)
        /\ stream' = [text |-> op.to, required |-> TRUE,
                      batchSeq |-> IF op.kind = "text" THEN Len(log) + 1
                                                       ELSE stream.batchSeq]
    BY <1>1 DEF Persist
  <2>3. stream' \in StreamRecord
    BY <1>0, <2>2, AnswerTyped DEF StreamRecord
  <2>4. /\ log' \in Seq(Entry) /\ Extends(log', log)
        /\ Len(log') = Len(log) + 1 /\ log'[Len(log) + 1] = op
    BY <1>0, <2>2, AppendExtends
  <2>5. Follows(stream', log')
    BY <1>0, <2>1, <2>2, <2>3, RowFollows
  <2>6. WellFormed(log')
    BY <1>0, <2>1, <2>2, FreshIsRight
  <2>7. Len(log') <= MaxLog
    BY <1>0, <2>4, RoomForTheEnd, StreamAssumption DEF MaxLog
  <2>8. Past(op, log')
    BY <1>0, <2>4 DEF Past
  <2>9. QED
    BY <1>0, <1>1, <2>1, <2>2, <2>4, <2>5, <2>6, <2>7, <2>8 DEF StoreOK, Latest, Ended
<1>2. CASE AnswerTo(op).out # "persisted"
  <2>1. log' = log /\ stream' = stream
    BY <1>2 DEF Persist
  <2>2. StoreOK'
    BY <1>0, <2>1 DEF StoreOK, Ended
  <2>3. ASSUME Fresh(op, log, stream.text)
        PROVE  AnswerTo(op).out \notin {"persisted", "already_persisted", "conflict"}
    BY <1>2, <2>3, FreshIsTaken DEF Refused, Refusal, None
  <2>4. ASSUME Past(op, log), op.to = stream.text
        PROVE  /\ AnswerTo(op).out # "conflict"
               /\ Latest(op, log', stream'.text)
    BY <2>1, <2>4, PastIsKnown DEF Latest
  <2>5. QED
    BY <1>0, <2>1, <2>2, <2>3, <2>4
<1>3. QED
  BY <1>1, <1>2

-----------------------------------------------------------------------------
(* The writes on their way *)

(* No late write but this one is still to be taken. *)
OnlyFresh(op) ==
    \A c \in late : c.call = "write" /\ Fresh(c.op, log, stream.text) => c.op = op

(* The write of the operation at the head of the queue. *)
HeadWrite == [kind |-> pub.ops[1].kind, id |-> pub.ops[1].id, to |-> pub.ops[1].to]

(* A write is the next entry, or the last one of the text. *)
Live(op) ==
    Fresh(op, log, stream.text) \/ Latest(op, log, stream.text)

(* A write that was given up on is in the log, or is the next entry. *)
LateOK ==
    \A c \in late : c.call = "write" =>
        \/ Past(c.op, log)
        \/ Fresh(c.op, log, stream.text) /\ OnlyFresh(c.op)

(* So is the write under way. *)
RequestOK == io.pc = "request" => Live(io.op) /\ OnlyFresh(io.op)

(* The one operation in the queue is the one under way. *)
HeadOK ==
    pub.at = "open" /\ pub.ops # <<>> =>
        /\ Len(pub.ops) = 1 /\ pub.ops[1].to = pub.text
        /\ HeadWrite \in Write /\ Live(HeadWrite) /\ OnlyFresh(HeadWrite)
        /\ io.pc = "request" => io.op = HeadWrite
        /\ io.pc \in {"send", "ack"} => Latest(HeadWrite, log, stream.text)
        /\ io.pc = "reply" /\ io.ans.out \in {"persisted", "already_persisted"} =>
              Latest(HeadWrite, log, stream.text)

(* With nothing in the queue the publisher and the store are of one text. *)
RestOK ==
    pub.at = "open" /\ ~pub.blocked /\ pub.ops = <<>> =>
        /\ pub.text = stream.text
        /\ \A c \in late : c.call = "write" => Past(c.op, log)

(* All that is on its way *)
WritesOK == ~Ended => LateOK /\ RequestOK /\ HeadOK /\ RestOK

(* The invariant of the log *)
(* What a sweep has read of the turn is a prefix of what is stored. *)
SweepsOK ==
    /\ SweepsTyped
    /\ \A c \in closing : /\ c.gen <= turn.gen
                          /\ c.gen = turn.gen /\ ~Ended => c.text <= stream.text

LogInv == StreamInv /\ StoreOK /\ WritesOK /\ NoSelfConflict /\ SweepsOK

-----------------------------------------------------------------------------
(* Steps that write nothing *)

(* The log and the text stay, or the turn ends with a log in order. *)
StoreStands ==
    /\ log' = log /\ stream'.text = stream.text /\ stream'.batchSeq = stream.batchSeq
    /\ ~Ended' => ~Ended

(* The turn ends, and no text is added. *)
StoreEnds ==
    /\ ~Ended /\ Ended'
    /\ log' \in Seq(Entry) /\ WellFormed(log') /\ Len(log') <= MaxLog
    /\ Extends(log', log)
    /\ \A i \in (Len(log) + 1)..Len(log') : log'[i].kind # "text"

(* The publisher's work is what it was. *)
SameWork(p, q) ==
    /\ p.at = q.at /\ p.blocked = q.blocked /\ p.text = q.text
    /\ Len(p.ops) = Len(q.ops) /\ (p.ops = <<>> <=> q.ops = <<>>)
    /\ q.ops # <<>> => /\ p.ops[1].kind = q.ops[1].kind /\ p.ops[1].id = q.ops[1].id
                       /\ p.ops[1].to = q.ops[1].to

(* It has nothing to do any more. *)
NoWork(p) == p.at # "open" \/ (p.blocked /\ p.ops = <<>>)

(* A success is known of the write under way. *)
Landed ==
    \/ io.pc \in {"send", "ack"}
    \/ io.pc = "reply" /\ io.ans.out \in {"persisted", "already_persisted"}

(* No write is given up on. *)
NoNewWrite == \A c \in late' : c.call = "write" => c \in late

(* The one operation is done with. *)
Finishes ==
    /\ Landed /\ pub'.at = pub.at /\ pub'.text = pub.text
    /\ pub.ops # <<>> => pub'.ops = Tail(pub.ops)
    /\ NoNewWrite

(* The write under way goes on, or is over. *)
IOMoves ==
    \/ io' = io
    \/ io'.pc = "idle"
    \/ Landed /\ io'.pc \in {"send", "ack"}

(* Only the write under way may be given up on. *)
LateMoves ==
    \/ NoNewWrite
    \/ /\ io.pc = "request" /\ io'.pc = "idle"
       /\ late' = late \cup {[call |-> "write", op |-> io.op]}

(* A step that hands over nothing new *)
Quiet ==
    /\ StoreStands \/ StoreEnds
    /\ NoWork(pub') \/ SameWork(pub', pub) \/ Finishes
    /\ IOMoves /\ LateMoves

(* One operation is all there is in a queue of one. *)
LEMMA TailOfOne ==
    ASSUME NEW S, NEW q \in Seq(S), Len(q) = 1
    PROVE  Tail(q) = <<>>
<1>1. q # <<>>
  OBVIOUS
<1>2. Tail(q) \in Seq(S) /\ Len(Tail(q)) = 0
  BY <1>1, HeadTailProperties
<1>3. QED
  BY <1>2, EmptySeq

(* A step that writes nothing keeps the log in order. *)
LEMMA QuietStore == ASSUME StoreOK, StoreStands \/ StoreEnds PROVE StoreOK'
BY DEF StoreOK, StoreStands, StoreEnds, Follows

(* Nor does it disturb what is on its way. *)
LEMMA QuietKeeps == ASSUME LogInv, Quiet PROVE StoreOK' /\ WritesOK' /\ NoSelfConflict'
<1>1. StoreOK'
  BY QuietStore DEF Quiet, LogInv
<1>2. NoSelfConflict'
  BY DEF Quiet, IOMoves, LogInv, NoSelfConflict
<1> SUFFICES ASSUME ~Ended' PROVE WritesOK'
  BY <1>1, <1>2 DEF WritesOK
<1>3. /\ log' = log /\ stream'.text = stream.text /\ ~Ended
      /\ Typed /\ Follows(stream, log) /\ HeadIsBusy
      /\ LateOK /\ RequestOK /\ HeadOK /\ RestOK
  BY DEF Quiet, StoreStands, StoreEnds, LogInv, StreamInv, StoreOK, WritesOK
<1>4. ASSUME NEW c \in late', c.call = "write", c \notin late
      PROVE  c.op = io.op /\ io.pc = "request" /\ io'.pc = "idle"
  BY <1>4 DEF Quiet, LateMoves, NoNewWrite
<1>5. LateOK'
  <2> SUFFICES ASSUME NEW c \in late', c.call = "write"
               PROVE  \/ Past(c.op, log)
                      \/ /\ Fresh(c.op, log, stream.text)
                         /\ \A d \in late' : d.call = "write" /\ Fresh(d.op, log, stream.text)
                                               => d.op = c.op
    BY <1>3 DEF LateOK, OnlyFresh, Past, Fresh
  <2>1. Past(c.op, log) \/ (Fresh(c.op, log, stream.text) /\ OnlyFresh(c.op))
    BY <1>3, <1>4 DEF LateOK, RequestOK, Live, Latest
  <2>2. ASSUME NEW d \in late', d.call = "write", d \notin late,
               Fresh(c.op, log, stream.text), Fresh(d.op, log, stream.text)
        PROVE  d.op = c.op
    BY <1>3, <1>4, <2>2 DEF RequestOK, OnlyFresh
  <2>3. QED
    BY <2>1, <2>2 DEF OnlyFresh
<1>6. RequestOK'
  <2> SUFFICES ASSUME io'.pc = "request"
               PROVE  /\ Live(io'.op)
                      /\ \A d \in late' : d.call = "write" /\ Fresh(d.op, log, stream.text)
                                            => d.op = io'.op
    BY <1>3 DEF RequestOK, Live, OnlyFresh, Fresh, Latest, Past
  <2>1. io' = io /\ NoNewWrite
    BY DEF Quiet, IOMoves, LateMoves
  <2>2. QED
    BY <1>3, <2>1 DEF RequestOK, OnlyFresh, NoNewWrite
<1>7. HeadOK'
  <2> SUFFICES ASSUME pub'.at = "open", pub'.ops # <<>>
               PROVE  /\ Len(pub'.ops) = 1 /\ pub'.ops[1].to = pub'.text
                      /\ HeadWrite' \in Write /\ Live(HeadWrite')
                      /\ \A d \in late' : d.call = "write" /\ Fresh(d.op, log, stream.text)
                                            => d.op = HeadWrite'
                      /\ io'.pc = "request" => io'.op = HeadWrite'
                      /\ io'.pc \in {"send", "ack"} => Latest(HeadWrite', log, stream.text)
                      /\ io'.pc = "reply" /\ io'.ans.out \in {"persisted", "already_persisted"}
                           => Latest(HeadWrite', log, stream.text)
    BY <1>3 DEF HeadOK, Live, OnlyFresh, Fresh, Latest, Past, HeadWrite
  <2>1. ~Finishes \/ SameWork(pub', pub)
    <3>1. ASSUME Finishes PROVE FALSE
      <4>1. pub.at = "open" /\ pub.ops # <<>>
        BY <1>3, <3>1 DEF Finishes, Landed, HeadIsBusy
      <4>2. Len(pub.ops) = 1 /\ pub'.ops = Tail(pub.ops) /\ pub.ops \in Seq(Operation)
        BY <1>3, <3>1, <4>1 DEF HeadOK, Finishes, Typed, Publisher
      <4>3. QED
        BY <4>1, <4>2, TailOfOne
    <3>2. QED
      BY <3>1
  <2>2. SameWork(pub', pub)
    BY <2>1 DEF Quiet, NoWork
  <2>3. HeadWrite' = HeadWrite /\ pub.at = "open" /\ pub.ops # <<>>
        /\ Len(pub'.ops) = 1 /\ pub'.ops[1].to = pub'.text
    BY <1>3, <2>2 DEF SameWork, HeadWrite, HeadOK
  <2>4. \A d \in late' : d.call = "write" /\ Fresh(d.op, log, stream.text)
                            => d.op = HeadWrite
    BY <1>3, <1>4, <2>3 DEF HeadOK, OnlyFresh
  <2>5. QED
    BY <1>3, <2>3, <2>4 DEF HeadOK, Quiet, IOMoves, Landed
<1>8. RestOK'
  <2> SUFFICES ASSUME pub'.at = "open", ~pub'.blocked, pub'.ops = <<>>
               PROVE  /\ pub'.text = stream.text
                      /\ \A c \in late' : c.call = "write" => Past(c.op, log)
    BY <1>3 DEF RestOK, Past
  <2>1. CASE SameWork(pub', pub)
    BY <1>3, <1>4, <2>1 DEF SameWork, RestOK, HeadIsBusy
  <2>2. CASE Finishes
    <3>1. pub.at = "open" /\ pub.ops # <<>> /\ NoNewWrite /\ pub'.text = pub.text
      BY <1>3, <2>2 DEF Finishes, Landed, HeadIsBusy
    <3>2. Latest(HeadWrite, log, stream.text) /\ OnlyFresh(HeadWrite) /\ HeadWrite \in Write
          /\ HeadWrite.to = pub.text
      BY <1>3, <2>2, <3>1 DEF HeadOK, Finishes, Landed, HeadWrite
    <3>3. ~Fresh(HeadWrite, log, stream.text)
      BY <1>3, <3>2, PastIsNotFresh DEF Latest, Typed
    <3>4. QED
      BY <1>3, <3>1, <3>2, <3>3 DEF LateOK, OnlyFresh, Latest, NoNewWrite
  <2>3. QED
    BY <2>1, <2>2 DEF Quiet, NoWork
<1>9. QED
  BY <1>5, <1>6, <1>7, <1>8 DEF WritesOK

-----------------------------------------------------------------------------
(* The store's steps *)

(* What the end adds: events without an identity, and done at last. *)
LEMMA EndIsRight ==
    ASSUME NEW l \in Seq(Entry), NEW m \in Seq(Entry), WellFormed(l), Extends(m, l),
           \A i \in 1..Len(l) : l[i].kind # "done",
           \A i \in (Len(l) + 1)..Len(m) :
              \/ m[i].kind = "semantic" /\ m[i].id = 0
              \/ m[i].kind = "done" /\ i = Len(m)
    PROVE  WellFormed(m)
<1> SUFFICES ASSUME NEW i \in 1..Len(m)
             PROVE  EntryOK(m, i) /\ (m[i].kind = "done" => i = Len(m))
  BY DEF WellFormed
<1>0. Len(l) \in Nat /\ Len(m) \in Nat
  OBVIOUS
<1>1. CASE i \in 1..Len(l)
  <2>1. EntryOK(l, i) /\ l[i].kind # "done"
    BY <1>1 DEF WellFormed
  <2>2. EntryOK(m, i)
    BY <1>1, <2>1, EntryKept
  <2>3. QED
    BY <1>1, <2>1, <2>2 DEF Extends
<1>2. CASE i \notin 1..Len(l)
  <2>1. i \in (Len(l) + 1)..Len(m)
    BY <1>0, <1>2
  <2>2. m[i].kind # "text" /\ ~(m[i].kind = "semantic" /\ m[i].id > 0)
    BY <2>1
  <2>3. QED
    BY <2>1, <2>2 DEF EntryOK
<1>3. QED
  BY <1>1, <1>2

(* The terminal transaction ends a log in order. *)
LEMMA CloseIsRight ==
    ASSUME Typed, StoreOK, ~Ended, NEW status \in Terminal, NEW text \in Texts, NEW k \in 0..2,
           Close(status, text, k)
    PROVE  StoreEnds /\ stream'.text = text /\ turn'.status = status
<1> DEFINE events == [i \in 1..k |-> [kind |-> "semantic", id |-> 0, to |-> text]]
<1>1. Follows(stream, log) /\ WellFormed(log) /\ log \in Seq(Entry) /\ stream \in StreamRecord
      /\ Len(log) \in Nat
  BY DEF StoreOK, Typed
<1>2. turn'.status = status /\ log' \in Seq(Entry) /\ Len(log') = Len(log) + k + 1
  BY CloseAppends DEF Typed, TurnRecord
<1>3. events \in Seq(Entry) /\ Len(events) = k
  BY DEF Entry
<1>4. \A i \in 1..k : events[i].kind = "semantic" /\ events[i].id = 0
  OBVIOUS
<1>5. <<Done(text)>> \in Seq(Entry) /\ Len(<<Done(text)>>) = 1
      /\ <<Done(text)>>[1].kind = "done"
  BY DEF Done, Entry
<1>6. log' = (log \o events) \o <<Done(text)>>
  BY DEF Close
<1> HIDE DEF events
<1>7. /\ log \o events \in Seq(Entry) /\ Len(log \o events) = Len(log) + k
      /\ \A i \in 1..Len(log) : (log \o events)[i] = log[i]
      /\ \A i \in (Len(log) + 1)..(Len(log) + k) : (log \o events)[i] = events[i - Len(log)]
  BY <1>1, <1>3, ConcatProperties
<1>8. Extends(log', log)
  BY <1>1, <1>2, <1>5, <1>6, <1>7, ConcatProperties DEF Extends
<1>9. ASSUME NEW i \in (Len(log) + 1)..Len(log')
      PROVE  \/ log'[i].kind = "semantic" /\ log'[i].id = 0
             \/ log'[i].kind = "done" /\ i = Len(log')
  <2>1. CASE i = Len(log) + k + 1
    BY <1>1, <1>2, <1>5, <1>6, <1>7, <2>1, ConcatProperties
  <2>2. CASE i \in (Len(log) + 1)..(Len(log) + k)
    <3>1. log'[i] = events[i - Len(log)] /\ i - Len(log) \in 1..k
      BY <1>1, <1>5, <1>6, <1>7, <2>2, ConcatProperties
    <3>2. QED
      BY <1>4, <3>1
  <2>3. QED
    BY <1>1, <1>2, <2>1, <2>2
<1>10. WellFormed(log')
  BY <1>1, <1>2, <1>8, <1>9, EndIsRight DEF Follows
<1>11. Len(log') <= MaxLog
  BY <1>1, <1>2, RoomForTheEnd, StreamAssumption DEF MaxLog
<1>12. \A i \in (Len(log) + 1)..Len(log') : log'[i].kind # "text"
  BY <1>9
<1>13. stream'.text = text
  BY <1>1 DEF Close, StreamRecord
<1>14. QED
  BY <1>2, <1>8, <1>10, <1>11, <1>12, <1>13 DEF StoreEnds, Ended

(* Before the start fence there is no log and no text. *)
LEMMA EmptyFollows ==
    ASSUME NEW s \in StreamRecord, s.text = 0, s.batchSeq = 0
    PROVE  Follows(s, <<>>) /\ WellFormed(<<>>) /\ Len(<<>>) <= MaxLog
<1>1. Ids(<<>>) = {} /\ Cardinality({}) = 0
  BY FS_EmptySet DEF Ids
<1>2. Len(<<>>) = 0 /\ Len(<<>>) <= MaxLog
  BY StreamAssumption DEF MaxLog
<1>3. Reached(<<>>, 0) = {0}
  BY DEF Reached
<1>4. WellFormed(<<>>)
  BY <1>2 DEF WellFormed
<1>5. Follows(s, <<>>)
  <2>1. IsTextAfter(s.text, <<>>, Len(<<>>))
    BY <1>2, <1>3 DEF IsTextAfter
  <2>2. Ids(<<>>) \subseteq 1..MaxSemantic /\ Cardinality(Ids(<<>>)) = 0
    BY <1>1
  <2>3. Len(<<>>) <= s.text + Cardinality(Ids(<<>>))
    BY <1>2, <2>2
  <2>4. QED
    BY <1>2, <2>1, <2>2, <2>3 DEF Follows
<1>6. QED
  BY <1>2, <1>4, <1>5

(* Before the start fence there is nothing in the log or on its way. *)
LEMMA Unbegun ==
    ASSUME LogInv, ~turn.begun, ~Ended
    PROVE  log = <<>> /\ stream.text = 0 /\ stream.batchSeq = 0 /\ late = {} /\ io.pc = "idle"
           /\ pub.ops = <<>>
<1>1. log = <<>> /\ late = {} /\ io.pc = "idle" /\ pub.ops = <<>> /\ Follows(stream, log)
  BY DEF LogInv, StreamInv, Fenced, StoreOK
<1>2. QED
  BY <1>1 DEF Follows

(* The settling of the job, a requeue, a fence or a note of cancellation. *)
LEMMA ControlStands ==
    ASSUME Typed, \/ SettleJob \/ RequeueTurn \/ BeginTurn \/ UNCHANGED storeVars
                  \/ RequestCancel /\ turn.status = "running"
                  \/ \E seq : Acknowledge(seq)
    PROVE  StoreStands
<1>1. turn \in TurnRecord /\ stream \in StreamRecord
  BY DEF Typed
<1>2. UNCHANGED log /\ stream'.text = stream.text /\ stream'.batchSeq = stream.batchSeq
  BY <1>1 DEF SettleJob, RequeueTurn, BeginTurn, RequestCancel, Acknowledge, storeVars,
              StreamRecord
<1>3. ~Ended' => ~Ended
  BY <1>1 DEF SettleJob, RequeueTurn, BeginTurn, RequestCancel, Acknowledge, storeVars,
              TurnRecord, Ended, Terminal
<1>4. QED
  BY <1>2, <1>3 DEF StoreStands

(* A turn that ends, in any of the procedures, ends with its log in order. *)
LEMMA FinalizeStands ==
    ASSUME LogInv, NEW status \in Terminal, NEW text \in Texts, NEW k \in 0..2,
           FinalizeTurn(status, text, k)
    PROVE  \/ StoreStands /\ turn' = turn
           \/ /\ StoreEnds /\ stream'.text = text /\ turn'.status = status
              /\ stream.text <= text
<1>1. CASE FinalizeAnswer(status, text) = "finalized"
  <2>1. ~Ended /\ stream.text <= text /\ Close(status, text, k)
    BY <1>1 DEF FinalizeTurn, FinalizeAnswer
  <2>2. QED
    BY <2>1, CloseIsRight DEF LogInv, StreamInv
<1>2. CASE FinalizeAnswer(status, text) # "finalized"
  BY <1>2 DEF FinalizeTurn, StoreStands, Ended
<1>3. QED
  BY <1>1, <1>2

(* The sweep leaves the log alone or ends it, with the text that is stored: *)
(* it has read no more, and with less it is refused.                        *)
LEMMA SweepStands ==
    ASSUME LogInv, SweepCloses
    PROVE  /\ turn'.gen = turn.gen
           /\ \/ StoreStands /\ turn' = turn
              \/ StoreEnds /\ stream'.text = stream.text /\ turn'.status # "completed"
<1> PICK c \in closing : \/ c.gen = turn.gen /\ FinalizeTurn(c.status, c.text, 0)
                         \/ UNCHANGED storeVars
  BY DEF SweepCloses
<1>1. /\ c.status \in {"failed", "cancelled"} /\ c.text \in Texts /\ stream.text \in Texts
      /\ turn \in TurnRecord
  BY DEF LogInv, SweepsOK, SweepsTyped, SweepCall, StreamInv, Typed, StreamRecord
<1>2. CASE UNCHANGED storeVars
  BY <1>2 DEF storeVars, StoreStands, Ended
<1>3. CASE c.gen = turn.gen /\ FinalizeTurn(c.status, c.text, 0)
  <2>1. turn'.gen = turn.gen
    BY <1>1, <1>3 DEF FinalizeTurn, Close, TurnRecord
  <2>2. c.status \in Terminal /\ c.status # "completed" /\ 0 \in 0..2
    BY <1>1 DEF Terminal
  <2>3. \/ StoreStands /\ turn' = turn
        \/ /\ StoreEnds /\ stream'.text = c.text /\ turn'.status = c.status
           /\ stream.text <= c.text
    BY <1>1, <1>3, <2>2, FinalizeStands
  <2>4. StoreEnds => c.text <= stream.text
    BY <1>3 DEF StoreEnds, LogInv, SweepsOK
  <2>5. c.text <= stream.text /\ stream.text <= c.text => c.text = stream.text
    BY <1>1, StreamAssumption DEF Texts
  <2>6. QED
    BY <2>1, <2>2, <2>3, <2>4, <2>5
<1>4. QED
  BY <1>2, <1>3

(* So does a cancellation. *)
LEMMA CancelStands ==
    ASSUME LogInv, RequestCancel
    PROVE  \/ turn.status = "running"
           \/ StoreEnds /\ stream'.text = stream.text /\ turn'.status # "completed"
<1>1. CASE turn.status = "queued"
  <2>1. log' = <<Done(0)>> /\ turn'.status = "cancelled"
    BY <1>1 DEF RequestCancel, LogInv, StreamInv, Typed, TurnRecord
  <2>2. ~Ended /\ Ended' /\ turn'.status # "completed"
    BY <1>1, <2>1 DEF Ended, Terminal
  <2>3. ~turn.begun
    BY <1>1 DEF LogInv, StreamInv, Fenced
  <2>4. log = <<>> /\ stream.text = 0 /\ stream \in StreamRecord
    BY <2>2, <2>3, Unbegun DEF LogInv, StreamInv, Typed
  <2>5. stream'.text = 0
    BY <1>1, <2>4 DEF RequestCancel, StreamRecord
  <2>6. Done(0) \in Entry /\ Done(0).kind = "done"
    BY StreamAssumption DEF Done, Entry, Texts
  <2>7. log' \in Seq(Entry) /\ Len(log') = 1 /\ log'[1].kind = "done"
    BY <2>1, <2>6
  <2>8. WellFormed(log')
    BY <2>7 DEF WellFormed, EntryOK
  <2>9. Len(log') <= MaxLog
    BY <2>7, StreamAssumption DEF MaxLog
  <2>10. Extends(log', log) /\ \A i \in (Len(log) + 1)..Len(log') : log'[i].kind # "text"
    BY <2>4, <2>7 DEF Extends
  <2>11. QED
    BY <2>2, <2>4, <2>5, <2>7, <2>8, <2>9, <2>10 DEF StoreEnds
<1>2. QED
  BY <1>1 DEF RequestCancel

-----------------------------------------------------------------------------
(* The worker's quiet steps *)

(* A publisher that is left as it was, given up or forgotten *)
LEMMA ForgetsKeeps ==
    ASSUME LogInv, StoreStands \/ StoreEnds, pub' \in {pub, Absent, Abandoned},
           UNCHANGED <<io, late>>
    PROVE  StoreOK' /\ WritesOK' /\ NoSelfConflict'
BY QuietKeeps, AbsentAndAbandoned
   DEF Quiet, NoWork, SameWork, IOMoves, LateMoves, NoNewWrite

(* A worker that is gone has forgotten or abandoned its publisher. *)
LEMMA OverForgets == ASSUME Over(pub) PROVE pub' \in {pub, Absent, Abandoned}
BY DEF Over, Unregistered

(* Claim, start, recovery, finalization and settlement *)
LEMMA ControlsKeepLog ==
    ASSUME LogInv, Begin \/ Recover \/ Finalize \/ FinalizeFails \/ Settle \/ FinishAnswer
                   \/ Stop
    PROVE  StoreOK' /\ WritesOK' /\ NoSelfConflict'
<1> USE DEF storeVars, workerVars
<1>0. Typed /\ exec.status \in Terminal /\ exec.text \in Texts /\ exec.k \in 0..2
  BY DEF LogInv, StreamInv, Typed, Executor
<1>1. UNCHANGED <<io, late>>
  BY DEF Begin, Recover, Finalize, FinalizeFails, Settle, FinishAnswer, Stop
<1>2. pub' \in {pub, Absent, Abandoned}
  BY OverForgets DEF Begin, Recover, Finalize, FinalizeFails, Settle, FinishAnswer, Stop,
                     Closing
<1>3. StoreStands \/ StoreEnds
  <2>1. CASE Begin \/ Recover \/ Settle \/ FinishAnswer \/ Stop
    BY <1>0, <2>1, ControlStands DEF Begin, Recover, Settle, FinishAnswer, Stop
  <2>2. CASE Finalize \/ FinalizeFails
    BY <1>0, <2>2, FinalizeStands, ControlStands DEF Finalize, FinalizeFails
  <2>3. QED
    BY <2>1, <2>2 DEF Begin
<1>4. QED
  BY <1>1, <1>2, <1>3, ForgetsKeeps

(* A publisher whose one operation is done, or whose work is what it was *)
LEMMA PublisherWorks ==
    ASSUME NEW p \in Publisher
    PROVE  /\ SameWork(p, p) /\ SameWork(ReconcileOnly(p), p)
           /\ SameWork(Deferred(p), p) /\ NoWork(Rejected(p))
           /\ Completed(p).text = p.text /\ Completed(p).at = p.at
           /\ p.ops # <<>> => Completed(p).ops = Tail(p.ops)
           /\ Completed(ReconcileOnly(p)).text = p.text
           /\ Completed(ReconcileOnly(p)).at = p.at
           /\ p.ops # <<>> => Completed(ReconcileOnly(p)).ops = Tail(p.ops)
<1>1. SameWork(p, p)
  BY DEF SameWork
<1>2. SameWork(ReconcileOnly(p), p) /\ NoWork(Rejected(p))
  BY DEF SameWork, ReconcileOnly, NoWork, Rejected, Publisher
<1>3. SameWork(Deferred(p), p)
  <2>1. CASE p.at = "abandoned" \/ p.ops = <<>>
    BY <2>1 DEF SameWork, Deferred, Publisher
  <2>2. CASE ~(p.at = "abandoned" \/ p.ops = <<>>)
    <3> DEFINE ops == [p.ops EXCEPT ![1].inFlight = FALSE]
    <3>1. 1 \in 1..Len(p.ops) /\ p.ops[1] \in Operation /\ p.ops \in Seq(Operation)
      BY <2>2 DEF Publisher
    <3>2. [p.ops[1] EXCEPT !.inFlight = FALSE] \in Operation
      BY <3>1 DEF Operation
    <3>3. ops \in Seq(Operation) /\ Len(ops) = Len(p.ops)
          /\ ops[1] = [p.ops[1] EXCEPT !.inFlight = FALSE]
      BY <3>1, <3>2, ExceptSeq
    <3>4. ops # <<>> /\ ops[1].kind = p.ops[1].kind /\ ops[1].id = p.ops[1].id
          /\ ops[1].to = p.ops[1].to
      BY <3>1, <3>3 DEF Operation
    <3>5. Deferred(p) = [p EXCEPT !.busy = FALSE, !.ops = ops]
      BY <2>2 DEF Deferred
    <3> HIDE DEF ops
    <3>6. QED
      BY <2>2, <3>3, <3>4, <3>5 DEF SameWork, Publisher
  <2>3. QED
    BY <2>1, <2>2
<1>4. /\ Completed(p).text = p.text /\ Completed(p).at = p.at
      /\ p.ops # <<>> => Completed(p).ops = Tail(p.ops)
  BY DEF Completed, Publisher
<1>5. /\ Completed(ReconcileOnly(p)).text = p.text /\ Completed(ReconcileOnly(p)).at = p.at
      /\ p.ops # <<>> => Completed(ReconcileOnly(p)).ops = Tail(p.ops)
  BY DEF Completed, ReconcileOnly, Publisher
<1>6. QED
  BY <1>1, <1>2, <1>3, <1>4, <1>5

(* The write loop, but for the step in which the store is asked *)
LEMMA LoopKeepsLog ==
    ASSUME LogInv, RequestFails \/ ReplyIsLost \/ ReplyArrives \/ Broadcasts \/ BroadcastFails
                   \/ WriteIsAcknowledged
    PROVE  StoreOK' /\ WritesOK' /\ NoSelfConflict'
<1> USE DEF Quiet, IOMoves, LateMoves, NoNewWrite
<1>0. Typed /\ pub \in Publisher /\ IOIdle.pc = "idle" /\ io \in IOState
  BY DEF LogInv, StreamInv, Typed, IOIdle
<1>1. CASE RequestFails
  <2>1. SameWork(pub', pub) /\ StoreStands
    BY <1>0, <1>1, PublisherWorks, ControlStands DEF RequestFails
  <2>2. io'.pc = "idle" /\ late' \in {late, late \cup {[call |-> "write", op |-> io.op]}}
        /\ io.pc = "request"
    BY <1>0, <1>1 DEF RequestFails, GivenUp
  <2>3. QED
    BY <2>1, <2>2, QuietKeeps
<1>2. CASE ReplyIsLost
  <2>1. SameWork(pub', pub) /\ StoreStands
    BY <1>0, <1>2, PublisherWorks, ControlStands DEF ReplyIsLost
  <2>2. io'.pc = "idle" /\ late' = late
    BY <1>0, <1>2 DEF ReplyIsLost
  <2>3. QED
    BY <2>1, <2>2, QuietKeeps
<1>3. CASE ReplyArrives
  <2>1. StoreStands /\ late' = late /\ io.pc = "reply"
    BY <1>0, <1>3, ControlStands DEF ReplyArrives
  <2>2. CASE pub.at = "abandoned" /\ io' = IOIdle /\ pub' = pub
    BY <1>0, <2>1, <2>2, PublisherWorks, QuietKeeps
  <2>3. CASE Receive(pub)
    <3> DEFINE next == [pub EXCEPT !.durable = io.ans.seq]
               fits == /\ io.ans.out \in {"persisted", "already_persisted"}
                       /\ io.ans.seq = pub.durable + 1
    <3>0. next \in Publisher /\ SameWork(next, pub) /\ next.ops = pub.ops
          /\ next.text = pub.text /\ next.at = pub.at
      BY <1>0 DEF SameWork, Publisher, IOState, Answer
    <3>1. \/ pub' = Rejected(pub) /\ io' = IOIdle
          \/ fits /\ pub' = Completed(ReconcileOnly(next)) /\ io' = IOIdle
          \/ fits /\ pub' = next /\ io' = [io EXCEPT !.pc = "send"]
      BY <2>3 DEF Receive
    <3> HIDE DEF next
    <3>2. CASE pub' = Rejected(pub) /\ io' = IOIdle
      BY <1>0, <2>1, <3>2, PublisherWorks, QuietKeeps
    <3>3. CASE fits /\ pub' = Completed(ReconcileOnly(next)) /\ io' = IOIdle
      <4>1. Finishes
        BY <2>1, <3>0, <3>3, PublisherWorks DEF Finishes, Landed
      <4>2. QED
        BY <1>0, <2>1, <3>3, <4>1, QuietKeeps
    <3>4. CASE fits /\ pub' = next /\ io' = [io EXCEPT !.pc = "send"]
      <4>1. Landed /\ io'.pc = "send"
        BY <1>0, <2>1, <3>4 DEF Landed, IOState
      <4>2. QED
        BY <2>1, <3>0, <3>4, <4>1, QuietKeeps
    <3>5. QED
      BY <3>1, <3>2, <3>3, <3>4
  <2>4. QED
    BY <1>3, <2>2, <2>3 DEF ReplyArrives
<1>4. CASE Broadcasts
  <2>1. StoreStands /\ late' = late /\ pub' = pub /\ Landed
    BY <1>0, <1>4, ControlStands DEF Broadcasts, Landed
  <2>2. io'.pc = "ack"
    BY <1>0, <1>4 DEF Broadcasts, IOState
  <2>3. QED
    BY <1>0, <2>1, <2>2, PublisherWorks, QuietKeeps
<1>5. CASE BroadcastFails
  <2>1. StoreStands /\ late' = late /\ io' = IOIdle /\ Landed
        /\ pub' = Completed(ReconcileOnly(pub))
    BY <1>0, <1>5, ControlStands DEF BroadcastFails, Landed
  <2>2. Finishes
    BY <1>0, <2>1, PublisherWorks DEF Finishes
  <2>3. QED
    BY <1>0, <2>1, <2>2, QuietKeeps
<1>6. CASE WriteIsAcknowledged
  <2>1. io.pc = "ack" /\ io' = IOIdle
    BY <1>6 DEF WriteIsAcknowledged
  <2> PICK p \in {pub, ReconcileOnly(pub)} : AckStep(io.ans.seq, p) /\ pub' = Completed(p)
    BY <1>6 DEF WriteIsAcknowledged
  <2>2. StoreStands
    BY <1>0, ControlStands DEF AckStep
  <2>3. \/ late' = late
        \/ late' = late \cup {[call |-> "ack", seq |-> io.ans.seq]}
    BY DEF AckStep, NoFault, GivenUp
  <2>4. NoNewWrite
    BY <2>3
  <2>5. Landed /\ Finishes
    <3>1. /\ pub'.text = pub.text /\ pub'.at = pub.at
          /\ pub.ops # <<>> => pub'.ops = Tail(pub.ops)
      BY <1>0, PublisherWorks
    <3>2. QED
      BY <2>1, <2>4, <3>1 DEF Finishes, Landed
  <2>6. QED
    BY <1>0, <2>1, <2>2, <2>4, <2>5, QuietKeeps
<1>7. QED
  BY <1>1, <1>2, <1>3, <1>4, <1>5, <1>6

-----------------------------------------------------------------------------
(* What the executor hands over *)

(* With an empty queue, what is handed over is what the log goes on with. *)
LEMMA HandedOverIsFresh ==
    ASSUME LogInv, Awaited, Writable, UNCHANGED <<storeVars, io, late>>,
           NEW op \in Operation, pub'.ops = <<op>>, op.to = pub'.text, pub'.at = "open",
           [kind |-> op.kind, id |-> op.id, to |-> op.to] \in Write,
           pub.text = stream.text =>
               Fresh([kind |-> op.kind, id |-> op.id, to |-> op.to], log, stream.text)
    PROVE  StoreOK' /\ WritesOK' /\ NoSelfConflict'
<1> DEFINE w == [kind |-> op.kind, id |-> op.id, to |-> op.to]
<1>1. StoreStands /\ io' = io /\ late' = late
  BY ControlStands DEF LogInv, StreamInv
<1>2. StoreOK' /\ NoSelfConflict'
  BY <1>1, QuietStore DEF LogInv, NoSelfConflict
<1> SUFFICES ASSUME ~Ended PROVE LateOK' /\ RequestOK' /\ HeadOK' /\ RestOK'
  BY <1>2 DEF WritesOK, Ended, storeVars
<1>3. /\ pub.at = "open" /\ ~pub.blocked /\ pub.ops = <<>> /\ io.pc = "idle"
      /\ Typed /\ Follows(stream, log) /\ LateOK /\ RestOK
  BY DEF Awaited, Writable, LogInv, StreamInv, HeadIsBusy, StoreOK, WritesOK
<1>4. pub.text = stream.text /\ \A c \in late : c.call = "write" => Past(c.op, log)
  BY <1>3 DEF RestOK
<1>5. \A c \in late : c.call = "write" => ~Fresh(c.op, log, stream.text)
  BY <1>3, <1>4, PastIsNotFresh DEF Typed
<1>6. log' = log /\ stream' = stream
  BY DEF storeVars
<1>7. LateOK' /\ RequestOK'
  BY <1>1, <1>3, <1>4, <1>6 DEF LateOK, RequestOK, Past
<1>8. HeadWrite' = w /\ Len(pub'.ops) = 1 /\ pub'.ops # <<>> /\ pub'.ops[1].to = pub'.text
  BY DEF HeadWrite
<1> HIDE DEF w
<1>9. HeadOK'
  <2>1. Fresh(w, log, stream.text) /\ w \in Write
    BY <1>4 DEF w
  <2>2. Live(HeadWrite)'
    BY <1>6, <1>8, <2>1 DEF Live, Fresh
  <2>3. OnlyFresh(HeadWrite)'
    BY <1>1, <1>5, <1>6 DEF OnlyFresh, Fresh
  <2>4. QED
    BY <1>1, <1>3, <1>8, <2>1, <2>2, <2>3 DEF HeadOK
<1>10. RestOK'
  BY <1>8 DEF RestOK
<1>11. QED
  BY <1>7, <1>9, <1>10

(* What the executor provides, while it answers and when it stops. *)
LEMMA ProvidesKeepLog ==
    ASSUME LogInv, EmitText \/ EmitSemantic \/ Overload
    PROVE  StoreOK' /\ WritesOK' /\ NoSelfConflict'
<1>0. pub \in Publisher /\ pub.text \in Texts /\ pub.text \in Nat /\ Typed
  BY StreamAssumption DEF LogInv, StreamInv, Typed, Publisher, Texts
<1>1. CASE EmitText
  <2> DEFINE op == [kind |-> "text", id |-> pub.text, to |-> pub.text + 1, inFlight |-> FALSE]
  <2>1. /\ Awaited /\ Writable /\ pub.text < MaxText /\ pub.ops = <<>> /\ ~Merges
        /\ UNCHANGED <<storeVars, io, late>>
    BY <1>1 DEF EmitText, AppendText, Awaited, Merges
  <2>2. pub' = [pub EXCEPT !.text = pub.text + 1, !.ops = Append(pub.ops, op)]
    BY <1>1, <2>1 DEF EmitText, AppendText
  <2>3. op \in Operation /\ pub.text + 1 \in Texts
        /\ [kind |-> "text", id |-> pub.text, to |-> pub.text + 1] \in Write
    BY <1>0, <2>1, StreamAssumption DEF Operation, Write, Texts
  <2>4. Append(pub.ops, op) = <<op>>
    BY <2>1
  <2>5. pub'.ops = <<op>> /\ pub'.text = pub.text + 1 /\ pub'.at = "open"
    BY <1>0, <2>1, <2>2, <2>4 DEF Publisher, Writable
  <2>6. Fresh([kind |-> "text", id |-> pub.text, to |-> pub.text + 1], log, pub.text)
    BY <1>0 DEF Fresh
  <2>7. QED
    BY <2>1, <2>3, <2>5, <2>6, HandedOverIsFresh
<1>2. CASE EmitSemantic
  <2> PICK id \in 1..MaxSemantic : id \notin Ids(log) /\ PublishSemantic(id)
    BY <1>2 DEF EmitSemantic, Ids
  <2> DEFINE op == [kind |-> "semantic", id |-> id, to |-> pub.text, inFlight |-> FALSE]
  <2>1. /\ Awaited /\ Writable /\ pub.ops = <<>> /\ UNCHANGED <<storeVars, io, late>>
        /\ pub' = [pub EXCEPT !.ops = Append(pub.ops, op)]
    BY <1>2 DEF EmitSemantic, PublishSemantic, Awaited
  <2>3. op \in Operation /\ [kind |-> "semantic", id |-> id, to |-> pub.text] \in Write
    BY <1>0, StreamAssumption DEF Operation, Write
  <2>4. Append(pub.ops, op) = <<op>>
    BY <2>1
  <2>5. pub'.ops = <<op>> /\ pub'.text = pub.text /\ pub'.at = "open"
    BY <1>0, <2>1, <2>4 DEF Publisher, Writable
  <2>6. Fresh([kind |-> "semantic", id |-> id, to |-> pub.text], log, pub.text)
    BY DEF Fresh
  <2>7. QED
    BY <2>1, <2>3, <2>5, <2>6, HandedOverIsFresh
<1>3. CASE Overload
  <2>1. Rejected(pub) \in Publisher /\ Rejected(pub).blocked = TRUE /\ Rejected(pub).ops = <<>>
    BY <1>0, PublisherSteps
  <2>2. pub' = [Rejected(pub) EXCEPT !.text = @ + 1]
    BY <1>3 DEF Overload, OverloadText
  <2>3. NoWork(pub')
    BY <2>1, <2>2 DEF NoWork, Publisher
  <2>4. StoreStands /\ UNCHANGED <<io, late>>
    BY <1>0, <1>3, ControlStands DEF Overload
  <2>5. QED
    BY <2>3, <2>4, QuietKeeps DEF Quiet, IOMoves, LateMoves, NoNewWrite
<1>4. QED
  BY <1>1, <1>2, <1>3

(* A claim, and a registration, before anything was written *)
LEMMA PrepareKeepsLog ==
    ASSUME LogInv, Prepare \/ Claim
    PROVE  StoreOK' /\ WritesOK' /\ NoSelfConflict'
<1>0. ~turn.begun /\ Typed /\ UNCHANGED <<io, late>>
  BY DEF LogInv, StreamInv, Fenced, Prepare, Claim, ClaimTurn, workerVars
<1>1. CASE Prepare
  <2>1. StoreStands /\ StoreOK'
    BY <1>0, <1>1, ControlStands, QuietStore DEF Prepare, LogInv
  <2>2. NoSelfConflict'
    BY <1>0 DEF LogInv, NoSelfConflict
  <2>3. ASSUME ~Ended PROVE LateOK' /\ RequestOK' /\ HeadOK' /\ RestOK'
    <3>1. stream.text = 0 /\ late = {} /\ io.pc = "idle"
      BY <1>0, <2>3, Unbegun
    <3>2. pub'.ops = <<>> /\ pub'.text = 0
      BY <1>1 DEF Prepare, RegisterTurn, Absent
    <3>3. QED
      BY <1>0, <2>1, <3>1, <3>2 DEF LateOK, RequestOK, HeadOK, RestOK, StoreStands
  <2>4. QED
    BY <2>1, <2>2, <2>3 DEF WritesOK, StoreStands
<1>2. CASE Claim
  <2>1. ~Ended /\ pub' = pub
    BY <1>2 DEF Claim, ClaimTurn, Ended, Terminal, workerVars
  <2>2. log = <<>> /\ stream.text = 0 /\ stream.batchSeq = 0
    BY <1>0, <2>1, Unbegun
  <2>3. log' = <<>> /\ stream'.text = 0 /\ stream'.batchSeq = 0
    BY <1>2 DEF Claim, ClaimTurn, EmptyStream
  <2>4. StoreStands
    BY <2>1, <2>2, <2>3 DEF StoreStands
  <2>5. QED
    BY <1>0, <2>1, <2>4, ForgetsKeeps
<1>3. QED
  BY <1>1, <1>2

(* The head of the queue is sent. *)
LEMMA FlushKeepsLog == ASSUME LogInv, Flush PROVE StoreOK' /\ WritesOK' /\ NoSelfConflict'
<1> DEFINE head == [pub.ops[1] EXCEPT !.inFlight = TRUE]
           ops == [pub.ops EXCEPT ![1] = head]
<1>1. /\ Typed /\ pub \in Publisher /\ pub.ops \in Seq(Operation)
      /\ pub.at = "open" /\ pub.ops # <<>>
  BY DEF LogInv, StreamInv, Typed, Flush, Publisher
<1>2. 1 \in 1..Len(pub.ops) /\ pub.ops[1] \in Operation /\ head \in Operation
      /\ head.kind = pub.ops[1].kind /\ head.id = pub.ops[1].id /\ head.to = pub.ops[1].to
  <2>1. 1 \in 1..Len(pub.ops) /\ pub.ops[1] \in Operation
    BY <1>1
  <2>2. QED
    BY <2>1 DEF Operation
<1>3. pub' = [pub EXCEPT !.busy = TRUE, !.ops = ops]
  BY DEF Flush
<1> HIDE DEF head
<1>4. ops \in Seq(Operation) /\ Len(ops) = Len(pub.ops) /\ ops[1] = head /\ ops # <<>>
  BY <1>1, <1>2, ExceptSeq
<1> HIDE DEF ops
<1>5. pub'.at = "open" /\ pub'.text = pub.text /\ pub'.ops = ops /\ pub'.ops # <<>>
      /\ HeadWrite' = HeadWrite
  BY <1>1, <1>2, <1>3, <1>4 DEF Publisher, HeadWrite
<1>6. io'.pc = "request" /\ io'.op = HeadWrite
  BY DEF Flush, IOIdle, HeadWrite
<1>7. StoreOK' /\ NoSelfConflict' /\ log' = log /\ stream' = stream /\ late' = late
      /\ Ended' = Ended
  BY <1>1, <1>6, ControlStands, QuietStore DEF Flush, LogInv, NoSelfConflict, storeVars, Ended
<1> SUFFICES ASSUME ~Ended PROVE LateOK' /\ RequestOK' /\ HeadOK' /\ RestOK'
  BY <1>7 DEF WritesOK
<1>8. LateOK /\ HeadOK
  BY DEF LogInv, WritesOK
<1>9. /\ Len(pub.ops) = 1 /\ pub.ops[1].to = pub.text /\ HeadWrite \in Write
      /\ Live(HeadWrite) /\ OnlyFresh(HeadWrite)
  BY <1>1, <1>8 DEF HeadOK
<1>10. LateOK'
  BY <1>7, <1>8 DEF LateOK, OnlyFresh, Past, Fresh
<1>11. Live(HeadWrite)' /\ OnlyFresh(HeadWrite)'
  BY <1>5, <1>7, <1>9 DEF Live, Latest, OnlyFresh, Past, Fresh
<1>12. Live(io.op)' /\ OnlyFresh(io.op)'
  BY <1>6, <1>7, <1>9 DEF Live, Latest, OnlyFresh, Past, Fresh
<1>13. RequestOK' /\ HeadOK' /\ RestOK'
  BY <1>2, <1>4, <1>5, <1>6, <1>9, <1>11, <1>12 DEF RequestOK, HeadOK, RestOK
<1>14. QED
  BY <1>10, <1>13

-----------------------------------------------------------------------------
(* The store is asked *)

(* A closed turn takes no more. *)
LEMMA EndedRefuses ==
    ASSUME Ended, NEW op
    PROVE  AnswerTo(op) = Refused("already_terminal")
<1>1. ~Held
  BY DEF Ended, Held, Terminal
<1>2. Refusal = "already_terminal" /\ Refusal # None
  BY <1>1 DEF Refusal, None
<1>3. QED
  BY <1>2 DEF AnswerTo, TextAnswer, SemanticAnswer

(* A write that grew the log leaves no late call anything to write. *)
LEMMA WrittenIsPast ==
    ASSUME Typed, WellFormed(log), NEW op \in Write, Fresh(op, log, stream.text), OnlyFresh(op),
           log' \in Seq(Entry), Extends(log', log), Past(op, log'), LateOK,
           NEW c \in late, c.call = "write"
    PROVE  Past(c.op, log')
<1>1. log \in Seq(Entry)
  BY DEF Typed
<1>2. CASE Past(c.op, log)
  BY <1>1, <1>2, PastKept
<1>3. CASE Fresh(c.op, log, stream.text)
  BY <1>3 DEF OnlyFresh
<1>4. QED
  BY <1>2, <1>3 DEF LateOK

(* The write is answered. *)
LEMMA RequestArrivesKeepsLog ==
    ASSUME LogInv, RequestArrives, StreamInv'
    PROVE  StoreOK' /\ WritesOK' /\ NoSelfConflict'
<1>1. /\ Typed /\ StoreOK /\ io.pc = "request" /\ io.op \in Write /\ io \in IOState
      /\ Persist(io.op) /\ UNCHANGED <<pub, late>>
      /\ io' = [io EXCEPT !.pc = "reply", !.ans = AnswerTo(io.op)]
  BY DEF LogInv, StreamInv, Typed, IOState, RequestArrives
<1>2. io'.pc = "reply" /\ io'.op = io.op /\ io'.ans = AnswerTo(io.op)
  BY <1>1 DEF IOState
<1>3. CASE Ended
  <2>1. AnswerTo(io.op) = Refused("already_terminal")
    BY <1>3, EndedRefuses
  <2>2. UNCHANGED storeVars /\ AnswerTo(io.op).out = "already_terminal"
    BY <1>1, <2>1 DEF Persist, Refused, storeVars
  <2>3. NoSelfConflict'
    BY <1>2, <2>2 DEF NoSelfConflict
  <2>4. StoreOK' /\ Ended'
    BY <1>1, <1>3, <2>2 DEF StoreOK, Ended, storeVars
  <2>5. QED
    BY <2>3, <2>4 DEF WritesOK
<1>4. CASE ~Ended
  <2>1. LateOK /\ HeadOK /\ Live(io.op) /\ OnlyFresh(io.op)
    BY <1>1, <1>4 DEF LogInv, WritesOK, RequestOK
  <2>2. /\ Fresh(io.op, log, stream.text) \/ Past(io.op, log)
        /\ Fresh(io.op, log, stream.text) \/ io.op.to = stream.text
    BY <2>1 DEF Live, Latest
  <2>3. /\ StoreOK' /\ turn' = turn
        /\ \/ log' = log /\ stream' = stream
           \/ /\ Fresh(io.op, log, stream.text) /\ Extends(log', log)
              /\ stream'.text = io.op.to /\ Past(io.op, log') /\ log' \in Seq(Entry)
        /\ AnswerTo(io.op).out # "conflict"
        /\ AnswerTo(io.op).out \in {"persisted", "already_persisted"} =>
             Latest(io.op, log', stream'.text)
    BY <1>1, <1>4, <2>2, WriteLands
  <2>4. ~Ended' /\ NoSelfConflict'
    BY <1>2, <1>4, <2>3 DEF NoSelfConflict, Ended
  <2>5. CASE log' = log /\ stream' = stream
    <3>1. LateOK'
      BY <1>1, <2>1, <2>5 DEF LateOK, OnlyFresh, Past, Fresh
    <3>2. RequestOK'
      BY <1>2 DEF RequestOK
    <3>3. HeadOK'
      <4>1. HeadWrite' = HeadWrite
        BY <1>1 DEF HeadWrite
      <4>2. Live(HeadWrite) => Live(HeadWrite)'
        BY <2>5, <4>1 DEF Live, Latest, Past, Fresh
      <4>3. OnlyFresh(HeadWrite) => OnlyFresh(HeadWrite)'
        BY <1>1, <2>5, <4>1 DEF OnlyFresh, Fresh
      <4>4. QED
        BY <1>1, <1>2, <2>1, <2>3, <2>5, <4>1, <4>2, <4>3 DEF HeadOK, Latest, Past
    <3>4. RestOK'
      BY <1>1 DEF RestOK, LogInv, StreamInv, HeadIsBusy
    <3>5. QED
      BY <2>3, <2>4, <3>1, <3>2, <3>3, <3>4 DEF WritesOK
  <2>6. CASE /\ Fresh(io.op, log, stream.text) /\ Extends(log', log)
             /\ stream'.text = io.op.to /\ Past(io.op, log') /\ log' \in Seq(Entry)
    <3>1. \A c \in late : c.call = "write" => Past(c.op, log')
      BY <1>1, <2>1, <2>6, WrittenIsPast DEF StoreOK
    <3>2. \A c \in late : c.call = "write" => ~Fresh(c.op, log', stream'.text)
      BY <1>1, <2>3, <2>4, <3>1, PastIsNotFresh DEF StreamInv, Typed, StoreOK
    <3>3. LateOK' /\ RequestOK'
      BY <1>1, <1>2, <3>1 DEF LateOK, RequestOK, Past
    <3>4. HeadOK'
      <4>1. HeadWrite' = HeadWrite
        BY <1>1 DEF HeadWrite
      <4>2. OnlyFresh(HeadWrite)'
        BY <1>1, <3>2 DEF OnlyFresh, Fresh
      <4>3. Latest(io.op, log', stream'.text)
        BY <2>6 DEF Latest
      <4>4. Live(io.op)' /\ Latest(io.op, log, stream.text)'
        BY <1>2, <4>3 DEF Live, Latest, Past
      <4>5. QED
        BY <1>1, <1>2, <2>1, <4>1, <4>2, <4>3, <4>4 DEF HeadOK, Live, Latest, Past
    <3>5. RestOK'
      BY <1>1 DEF RestOK, LogInv, StreamInv, HeadIsBusy
    <3>6. QED
      BY <2>3, <2>4, <3>3, <3>4, <3>5 DEF WritesOK
  <2>7. QED
    BY <2>3, <2>5, <2>6
<1>5. QED
  BY <1>3, <1>4

(* A call given up on is executed after all. *)
LEMMA LateCallArrivesKeepsLog ==
    ASSUME LogInv, LateCallArrives, StreamInv'
    PROVE  StoreOK' /\ WritesOK' /\ NoSelfConflict'
<1>1. /\ Typed /\ StoreOK /\ UNCHANGED <<pub, io>> /\ HeadIsBusy
  BY DEF LogInv, StreamInv, LateCallArrives
<1>2. PICK c \in late : /\ late' = late \ {c}
                        /\ \/ c.call = "write" /\ Persist(c.op)
                           \/ c.call = "ack" /\ Acknowledge(c.seq)
  BY DEF LateCallArrives
<1>3. NoNewWrite /\ SameWork(pub', pub) /\ NoSelfConflict'
  BY <1>1, <1>2 DEF NoNewWrite, SameWork, LogInv, NoSelfConflict
<1>4. CASE StoreStands
  BY <1>1, <1>3, <1>4, QuietKeeps DEF Quiet, IOMoves, LateMoves
<1>5. CASE c.call = "ack" /\ Acknowledge(c.seq)
  BY <1>1, <1>4, <1>5, ControlStands
<1>6. CASE c.call = "write" /\ Persist(c.op)
  <2>1. c.op \in Write
    BY <1>1, <1>6 DEF Typed
  <2>2. CASE Ended
    <3>1. AnswerTo(c.op) = Refused("already_terminal")
      BY <2>2, EndedRefuses
    <3>2. StoreStands
      BY <1>6, <2>2, <3>1 DEF Persist, Refused, StoreStands, Ended
    <3>3. QED
      BY <1>4, <3>2
  <2>3. CASE ~Ended
    <3>1. LateOK /\ RequestOK /\ HeadOK /\ RestOK
      BY <2>3 DEF LogInv, WritesOK
    <3>2. \/ Past(c.op, log)
          \/ Fresh(c.op, log, stream.text) /\ OnlyFresh(c.op)
      BY <1>6, <3>1 DEF LateOK
    <3>3. /\ StoreOK' /\ turn' = turn
          /\ \/ log' = log /\ stream' = stream
             \/ /\ Fresh(c.op, log, stream.text) /\ Extends(log', log)
                /\ stream'.text = c.op.to /\ Past(c.op, log') /\ log' \in Seq(Entry)
      BY <1>1, <1>6, <2>1, <2>3, <3>2, WriteLands
    <3>4. CASE log' = log /\ stream' = stream
      BY <1>4, <2>3, <3>4 DEF StoreStands
    <3>5. CASE /\ Fresh(c.op, log, stream.text) /\ Extends(log', log)
               /\ stream'.text = c.op.to /\ Past(c.op, log') /\ log' \in Seq(Entry)
      <4>0. ~Ended'
        BY <2>3, <3>3 DEF Ended
      <4>1. OnlyFresh(c.op) /\ Latest(c.op, log', stream'.text)
        <5>1. ~Past(c.op, log)
          BY <1>1, <2>1, <2>3, <3>5, PastIsNotFresh DEF StoreOK, Typed
        <5>2. QED
          BY <3>2, <3>5, <5>1 DEF Latest
      <4>2. \A d \in late : d.call = "write" => Past(d.op, log')
        BY <1>1, <2>1, <3>1, <3>5, <4>1, WrittenIsPast DEF StoreOK
      <4>3. \A d \in late : d.call = "write" => ~Fresh(d.op, log', stream'.text)
        BY <1>1, <3>3, <4>0, <4>2, PastIsNotFresh DEF StreamInv, Typed, StoreOK
      <4>4. LateOK'
        BY <1>2, <4>2 DEF LateOK, Past
      <4>5. ASSUME NEW op, OnlyFresh(op) PROVE op = c.op
        BY <1>6, <3>5, <4>5 DEF OnlyFresh
      <4>6. RequestOK'
        <5> SUFFICES ASSUME io.pc = "request"
                     PROVE  /\ Latest(io.op, log', stream'.text)
                            /\ \A d \in late' : d.call = "write" =>
                                                  ~Fresh(d.op, log', stream'.text)
          BY <1>1 DEF RequestOK, Live, Latest, Past, OnlyFresh, Fresh
        <5>1. io.op = c.op
          BY <3>1, <4>5 DEF RequestOK
        <5>2. QED
          BY <1>2, <4>1, <4>3, <5>1
      <4>7. HeadOK'
        <5>1. HeadWrite' = HeadWrite
          BY <1>1 DEF HeadWrite
        <5>2. ASSUME pub.at = "open", pub.ops # <<>>
              PROVE  Latest(HeadWrite, log', stream'.text)
          BY <3>1, <4>1, <4>5, <5>2 DEF HeadOK
        <5>3. OnlyFresh(HeadWrite)'
          BY <1>2, <4>3 DEF OnlyFresh, Fresh
        <5>4. QED
          BY <1>1, <3>1, <5>1, <5>2, <5>3 DEF HeadOK, Live, Latest, Past
      <4>8. RestOK'
        <5> SUFFICES ASSUME pub.at = "open", ~pub.blocked, pub.ops = <<>> PROVE FALSE
          BY <1>1 DEF RestOK
        <5>1. Past(c.op, log)
          BY <1>6, <3>1 DEF RestOK
        <5>2. QED
          BY <1>1, <2>1, <2>3, <3>5, <5>1, PastIsNotFresh DEF StoreOK, Typed
      <4>9. QED
        BY <1>3, <3>3, <4>4, <4>6, <4>7, <4>8 DEF WritesOK
    <3>6. QED
      BY <3>3, <3>4, <3>5
  <2>4. QED
    BY <2>2, <2>3
<1>7. QED
  BY <1>2, <1>5, <1>6

-----------------------------------------------------------------------------
(* The steps of the store *)

(* A step that leaves text and log as they are *)
StepStands == StoreStands /\ turn.gen <= turn'.gen /\ (Ended => turn'.status = turn.status)
              /\ (turn'.status = "completed" => Ended)

(* A step that ends the turn *)
StepEnds ==
    /\ StoreEnds /\ turn'.gen = turn.gen
    /\ \/ stream'.text = stream.text /\ turn'.status # "completed"
       \/ /\ exec.pc = "finalize"
          /\ stream'.text = exec.text /\ turn'.status = exec.status

(* A write that was under way, or late *)
Arrives(op) ==
    \/ io.pc = "request" /\ op = io.op
    \/ \E c \in late : c.call = "write" /\ op = c.op

(* A step that writes the next entry *)
StepWrites ==
    /\ ~Ended /\ turn' = turn /\ log' \in Seq(Entry) /\ Extends(log', log)
    /\ \E op \in Write : /\ Arrives(op) /\ Fresh(op, log, stream.text)
                         /\ stream'.text = op.to

(* The calls that neither write nor end: text and log stay as they are. *)
LEMMA ControlSteps ==
    ASSUME LogInv, \/ SettleJob \/ RequeueTurn \/ BeginTurn \/ UNCHANGED storeVars \/ ClaimTurn
                   \/ RequestCancel /\ turn.status = "running"
                   \/ \E seq : Acknowledge(seq)
    PROVE  StepStands
<1>0. Typed /\ turn \in TurnRecord
  BY DEF LogInv, StreamInv, Typed
<1>1. CASE ClaimTurn
  <2>1. ~Ended /\ ~turn.begun
    BY <1>1 DEF ClaimTurn, Ended, Terminal, LogInv, StreamInv, Fenced
  <2>2. log = <<>> /\ stream.text = 0 /\ stream.batchSeq = 0
    BY <2>1, Unbegun
  <2>3. turn'.gen = turn.gen + 1 /\ turn'.status = "running"
    BY <1>0, <1>1 DEF ClaimTurn, TurnRecord
  <2>4. QED
    BY <1>0, <1>1, <2>1, <2>2, <2>3
       DEF ClaimTurn, StepStands, StoreStands, EmptyStream, TurnRecord
<1>2. CASE ~ClaimTurn
  <2>1. StoreStands
    BY <1>0, <1>2, ControlStands
  <2>2. /\ turn'.gen = turn.gen /\ (Ended => turn'.status = turn.status)
        /\ turn'.status = "completed" => Ended
    BY <1>0, <1>2
       DEF SettleJob, RequeueTurn, BeginTurn, RequestCancel, Acknowledge, storeVars,
           TurnRecord, Ended, Terminal
  <2>3. QED
    BY <1>0, <2>1, <2>2 DEF StepStands, TurnRecord
<1>3. QED
  BY <1>1, <1>2

(* finalize ends the turn with the executor's text, or changes nothing. *)
LEMMA FinalizeSteps ==
    ASSUME LogInv, exec.pc = "finalize", FinalizeTurn(exec.status, exec.text, exec.k)
    PROVE  StepStands \/ StepEnds
<1>1. exec.status \in Terminal /\ exec.text \in Texts /\ exec.k \in 0..2 /\ turn \in TurnRecord
  BY DEF LogInv, StreamInv, Typed, Executor
<1>2. turn'.gen = turn.gen
  BY <1>1 DEF FinalizeTurn, Close, TurnRecord
<1>3. QED
  BY <1>1, <1>2, FinalizeStands DEF StepStands, StepEnds, Ended, Terminal, TurnRecord

(* The sweep and a cancellation end it with the text they find. *)
LEMMA SweepSteps == ASSUME LogInv, SweepCloses \/ RequestCancel PROVE StepStands \/ StepEnds
<1>1. turn \in TurnRecord
  BY DEF LogInv, StreamInv, Typed
<1>2. turn'.gen = turn.gen
  BY <1>1, SweepStands DEF RequestCancel, TurnRecord
<1>3. CASE StoreEnds /\ stream'.text = stream.text /\ turn'.status # "completed"
  BY <1>2, <1>3 DEF StepEnds
<1>4. CASE StoreStands /\ turn' = turn
  BY <1>1, <1>4 DEF StepStands, Ended, TurnRecord
<1>5. QED
  BY <1>3, <1>4, SweepStands, CancelStands, ControlSteps

(* A write appends what is fresh, or nothing. *)
LEMMA PersistSteps ==
    ASSUME LogInv, NEW op \in Write, Arrives(op), Persist(op),
           Fresh(op, log, stream.text) \/ Past(op, log) \/ Ended
    PROVE  StepStands \/ StepWrites
<1>0. Typed /\ StoreOK /\ turn' = turn /\ turn \in TurnRecord
  BY DEF LogInv, StreamInv, Typed, Persist
<1>1. CASE log' = log /\ stream' = stream
  BY <1>0, <1>1 DEF StepStands, StoreStands, Ended, Terminal, TurnRecord
<1>2. CASE Ended
  <2>1. AnswerTo(op).out = "already_terminal"
    BY <1>2, EndedRefuses DEF Refused
  <2>2. QED
    BY <1>1, <2>1 DEF Persist
<1>3. CASE ~Ended
  BY <1>0, <1>1, <1>3, WriteLands DEF StepWrites
<1>4. QED
  BY <1>2, <1>3

(* So every step of the system is one of three to the store. *)
LEMMA StoreSteps == ASSUME LogInv, [Next]_vars PROVE StepStands \/ StepEnds \/ StepWrites
<1> USE DEF storeVars, publisherVars, workerVars
<1>0. /\ Typed /\ io \in IOState
      /\ term.pc # "idle" => exec.pc = "deliver"
      /\ Refused("raised") \in Answer
  BY DEF LogInv, StreamInv, Typed, EndIsLast, Refused, Answer
<1>1. CASE UNCHANGED storeVars
  BY <1>1, ControlSteps
<1>2. CASE Finalize \/ FinalizeFails
  BY <1>1, <1>2, FinalizeSteps DEF Finalize, FinalizeFails
<1>3. CASE Claim \/ Begin \/ Recover \/ Settle \/ TerminalIsAcknowledged \/ WriteIsAcknowledged
  BY <1>1, <1>3, ControlSteps
     DEF Claim, Begin, Recover, Settle, TerminalIsAcknowledged, WriteIsAcknowledged, AckStep
<1>4. CASE Sweep \/ SweepCloses \/ UserCancels
  BY <1>4, SweepSteps, ControlSteps DEF Sweep, UserCancels
<1>5. CASE RequestArrives
  <2>1. io.op \in Write /\ Arrives(io.op) /\ Persist(io.op)
    BY <1>0, <1>5 DEF RequestArrives, Arrives, IOState
  <2>2. Fresh(io.op, log, stream.text) \/ Past(io.op, log) \/ Ended
    BY <1>5 DEF RequestArrives, LogInv, WritesOK, RequestOK, Live, Latest
  <2>3. QED
    BY <2>1, <2>2, PersistSteps
<1>6. CASE LateCallArrives
  <2> PICK c \in late : \/ c.call = "write" /\ Persist(c.op)
                        \/ c.call = "ack" /\ Acknowledge(c.seq)
    BY <1>6 DEF LateCallArrives
  <2>1. CASE c.call = "ack" /\ Acknowledge(c.seq)
    BY <2>1, ControlSteps
  <2>2. CASE c.call = "write" /\ Persist(c.op)
    <3>1. c.op \in Write /\ Arrives(c.op)
      BY <1>0, <2>2 DEF Typed, Arrives
    <3>2. Fresh(c.op, log, stream.text) \/ Past(c.op, log) \/ Ended
      BY <2>2 DEF LogInv, WritesOK, LateOK
    <3>3. QED
      BY <2>2, <3>1, <3>2, PersistSteps
  <2>3. QED
    BY <2>1, <2>2
<1>7. CASE EmitText \/ EmitSemantic \/ FinishAnswer \/ Overload \/ Stop \/ Prepare
           \/ DeliverNext \/ TerminalBroadcasts \/ TerminalBroadcastFails \/ Crash
           \/ SweepReads
  BY <1>1, <1>7
     DEF EmitText, EmitSemantic, FinishAnswer, Overload, Stop, Prepare, DeliverNext,
         TerminalBroadcasts, TerminalBroadcastFails, Crash, SweepReads
<1>8. CASE Flush \/ RequestFails \/ ReplyIsLost \/ ReplyArrives \/ Broadcasts \/ BroadcastFails
  BY <1>1, <1>8
     DEF Flush, RequestFails, ReplyIsLost, ReplyArrives, Broadcasts, BroadcastFails
<1>9. CASE ChannelDelivers \/ ChannelBreaks \/ Browser \/ BrowserFails \/ BrowserIsRefused
           \/ UNCHANGED vars
  BY <1>1, <1>9
     DEF ChannelDelivers, ChannelBreaks, Browser, BrowserFails, BrowserIsRefused, vars
<1>10. QED
  BY <1>2, <1>3, <1>4, <1>5, <1>6, <1>7, <1>8, <1>9
     DEF Next, Provides, Controls, Concludes, Writes

(* So what a sweep has read remains a prefix of what is stored. *)
LEMMA SweepsKept == ASSUME LogInv, [Next]_vars PROVE SweepsOK'
<1>1. StreamInv' /\ SweepsTyped'
  BY NextPreserves DEF LogInv, SweepsOK
<1>2. /\ turn.gen \in Nat /\ turn'.gen \in Nat /\ stream.text \in Nat /\ stream'.text \in Nat
      /\ \A c \in closing : c.gen \in Nat /\ c.text \in Nat
  BY <1>1, StreamAssumption
     DEF LogInv, StreamInv, Typed, TurnRecord, StreamRecord, Texts, SweepsOK, SweepsTyped,
         SweepCall
<1>3. ASSUME NEW c \in closing
      PROVE  c.gen <= turn'.gen /\ (c.gen = turn'.gen /\ ~Ended' => c.text <= stream'.text)
  <2>1. c.gen <= turn.gen /\ (c.gen = turn.gen /\ ~Ended => c.text <= stream.text)
    BY DEF LogInv, SweepsOK
  <2>2. CASE StepStands
    BY <1>2, <2>1, <2>2 DEF StepStands, StoreStands
  <2>3. CASE StepEnds
    BY <1>2, <2>1, <2>3 DEF StepEnds, StoreEnds
  <2>4. CASE StepWrites
    <3>1. PICK op \in Write : Fresh(op, log, stream.text) /\ stream'.text = op.to
      BY <2>4 DEF StepWrites
    <3>2. stream.text <= stream'.text
      BY <1>2, <3>1, StreamAssumption DEF Fresh, Write, Texts
    <3>3. QED
      BY <1>2, <2>1, <2>4, <3>2 DEF StepWrites
  <2>5. QED
    BY <2>2, <2>3, <2>4, StoreSteps
<1>4. CASE SweepReads
  <2>1. turn' = turn /\ stream' = stream
    BY <1>4 DEF SweepReads, storeVars
  <2>2. \A c \in closing' : c \in closing \/ (c.gen = turn.gen /\ c.text = stream.text)
    BY <1>4 DEF SweepReads
  <2>3. QED
    BY <1>1, <1>2, <1>3, <2>1, <2>2 DEF SweepsOK
<1>5. CASE ~SweepReads
  <2>1. closing' \subseteq closing
    BY <1>5, ClosingMoves DEF SweepCloses
  <2>2. QED
    BY <1>1, <1>3, <2>1 DEF SweepsOK
<1>6. QED
  BY <1>4, <1>5

-----------------------------------------------------------------------------
(* Every step *)

(* The delivery of the end, a crash, the sweep and the user *)
LEMMA OthersKeepLog ==
    ASSUME LogInv, DeliverNext \/ TerminalBroadcasts \/ TerminalBroadcastFails
                   \/ TerminalIsAcknowledged \/ Crash \/ Sweep \/ SweepCloses \/ UserCancels
    PROVE  StoreOK' /\ WritesOK' /\ NoSelfConflict'
<1> USE DEF storeVars, workerVars
<1>0. Typed /\ pub \in Publisher /\ IOIdle.pc = "idle"
  BY DEF LogInv, StreamInv, Typed, IOIdle
<1>1. CASE DeliverNext \/ TerminalBroadcasts \/ TerminalBroadcastFails
           \/ TerminalIsAcknowledged
  <2>1. Ended /\ io' = io
    BY <1>1 DEF LogInv, StreamInv, EndIsLast, DeliverNext, Delivering, TerminalBroadcasts,
                TerminalBroadcastFails, TerminalIsAcknowledged
  <2>2. StoreStands
    BY <1>0, <1>1, ControlStands
       DEF DeliverNext, TerminalBroadcasts, TerminalBroadcastFails, TerminalIsAcknowledged,
           AckStep
  <2>3. turn' = turn
    BY <1>1 DEF DeliverNext, TerminalBroadcasts, TerminalBroadcastFails,
                TerminalIsAcknowledged, AckStep, Acknowledge
  <2>4. Ended' /\ StoreOK'
    BY <2>1, <2>2, <2>3, QuietStore DEF Ended, LogInv
  <2>5. QED
    BY <2>1, <2>4 DEF WritesOK, LogInv, NoSelfConflict
<1>2. CASE Crash
  <2>1. NoWork(pub') /\ io'.pc = "idle" /\ StoreStands
    BY <1>0, <1>2, AbsentAndAbandoned, ControlStands DEF Crash, NoWork
  <2>2. LateMoves
    BY <1>2, <2>1 DEF Crash, LateMoves, NoNewWrite
  <2>3. QED
    BY <2>1, <2>2, QuietKeeps DEF Quiet, IOMoves
<1>3. CASE Sweep \/ SweepCloses \/ UserCancels
  <2>1. StoreStands \/ StoreEnds
    BY <1>0, <1>3, SweepStands, CancelStands, ControlStands DEF Sweep, UserCancels
  <2>2. QED
    BY <1>3, <2>1, ForgetsKeeps DEF Sweep, SweepCloses, UserCancels
<1>4. QED
  BY <1>1, <1>2, <1>3

(* Every step of the system keeps the invariant of the log. *)
LEMMA NextKeepsLog == LogInv /\ [Next]_vars => LogInv'
<1> SUFFICES ASSUME LogInv, [Next]_vars PROVE LogInv'
  OBVIOUS
<1>1. StreamInv' /\ SweepsOK'
  BY NextPreserves, SweepsKept DEF LogInv, SweepsOK
<1>2. CASE UNCHANGED <<storeVars, workerVars>>
  <2>1. UNCHANGED <<turn, owned, stream, log, pub, io, late>>
    BY <1>2 DEF storeVars, workerVars
  <2>2. QED
    BY <2>1, ForgetsKeeps, <1>1 DEF LogInv, StoreStands, Ended
<1>3. CASE Provides \/ Controls \/ Concludes
  BY <1>1, <1>3, ProvidesKeepLog, ControlsKeepLog, PrepareKeepsLog, OthersKeepLog
     DEF Provides, Controls, Concludes, LogInv
<1>4. CASE Writes
  BY <1>1, <1>4, FlushKeepsLog, RequestArrivesKeepsLog, LoopKeepsLog, LateCallArrivesKeepsLog
     DEF Writes, LogInv
<1>5. CASE Crash \/ Sweep \/ SweepCloses \/ UserCancels
  BY <1>1, <1>5, OthersKeepLog DEF LogInv
<1>6. QED
  BY <1>2, <1>3, <1>4, <1>5
     DEF Next, vars, SweepReads, ChannelDelivers, ChannelBreaks, Browser, BrowserFails,
         BrowserIsRefused, publisherVars, storeVars, workerVars

-----------------------------------------------------------------------------
(* The theorems *)

(* It holds at first. *)
LEMMA LogStarts == Init => LogInv
<1> SUFFICES ASSUME Init PROVE LogInv
  OBVIOUS
<1>1. StreamInv
  BY InitEstablishes
<1>2. log = <<>> /\ stream = EmptyStream /\ pub = Absent /\ io = IOIdle /\ late = {}
  BY DEF Init, StoreInit, PublisherInit
<1>3. StoreOK
  BY <1>1, <1>2, EmptyFollows DEF StoreOK, StreamInv, Typed, EmptyStream
<1>4. WritesOK /\ NoSelfConflict /\ SweepsOK
  BY <1>2 DEF WritesOK, LateOK, RequestOK, HeadOK, RestOK, NoSelfConflict, Absent, IOIdle,
              Init, SweepsOK, SweepsTyped
<1>5. QED
  BY <1>1, <1>3, <1>4 DEF LogInv

(***************************************************************************)
(* The inductive invariant of the log: its entries are in order, the row   *)
(* of the stream is where they have got to, and whatever is on its way is  *)
(* either in the log already or the one entry it goes on with.             *)
(***************************************************************************)
THEOREM LogInvariant == Spec => []LogInv
<1>1. QED
  BY LogStarts, NextKeepsLog, PTL DEF Spec

(* The text before an entry is the greatest end of a batch before it. *)
LEMMA TextBefore ==
    ASSUME NEW l \in Seq(Entry), NEW i \in 1..Len(l), NEW t, IsTextAfter(t, l, i - 1)
    PROVE  LET before == {l[j].to : j \in {j \in 1..(i - 1) : l[j].kind = "text"}}
           IN  (CHOOSE u \in before \cup {0} : \A b \in before : b <= u) = t
<1> DEFINE before == {l[j].to : j \in {j \in 1..(i - 1) : l[j].kind = "text"}}
<1>1. \A j \in 1..Len(l) : l[j] \in Entry
  OBVIOUS
<1>2. ASSUME NEW b \in before PROVE b \in Nat
  <2>1. PICK j \in 1..(i - 1) : b = l[j].to
    OBVIOUS
  <2>2. l[j] \in Entry
    BY <1>1
  <2>3. QED
    BY <2>1, <2>2, StreamAssumption DEF Entry, Texts
<1>3. t \in before \cup {0} /\ \A b \in before : b <= t
  BY DEF IsTextAfter, Reached
<1> HIDE DEF before
<1>4. \A u \in before \cup {0} : (\A b \in before : b <= u) => u = t
  BY <1>2, <1>3
<1>5. QED
  BY <1>3, <1>4 DEF before

(***************************************************************************)
(* Whatever is retried, delayed or repeated,                               *)
(* persist_agentic_chat_stream_text and _semantic store each chunk and     *)
(* each transition once, in order, and an event carries the text before    *)
(* it.                                                                     *)
(***************************************************************************)
THEOREM LogIsExactAlways == Spec => []LogIsExact
<1>1. LogInv => LogIsExact
  <2> SUFFICES ASSUME LogInv, NEW i \in 1..Len(log)
               PROVE  LET before == {log[j].to : j \in {j \in 1..(i - 1) : log[j].kind = "text"}}
                          text == CHOOSE t \in before \cup {0} : \A b \in before : b <= t
                      IN  /\ log[i].kind = "text" => log[i].id = text /\ log[i].to > text
                          /\ log[i].kind = "semantic" /\ log[i].id > 0 =>
                                /\ log[i].to = text
                                /\ \A j \in 1..(i - 1) :
                                      log[j].kind = "semantic" => log[j].id # log[i].id
                          /\ log[i].kind = "done" => i = Len(log)
    BY DEF LogIsExact
  <2> DEFINE before == {log[j].to : j \in {j \in 1..(i - 1) : log[j].kind = "text"}}
             text == CHOOSE t \in before \cup {0} : \A b \in before : b <= t
  <2>1. log \in Seq(Entry) /\ EntryOK(log, i) /\ (log[i].kind = "done" => i = Len(log))
    BY DEF LogInv, StreamInv, Typed, StoreOK, WellFormed
  <2>2. ASSUME NEW t, IsTextAfter(t, log, i - 1) PROVE text = t
    BY <2>1, <2>2, TextBefore
  <2> HIDE DEF text
  <2>3. QED
    BY <2>1, <2>2 DEF EntryOK, text
<1>2. QED
  BY <1>1, LogInvariant, PTL

(***************************************************************************)
(* A write of the publisher is never answered with a conflict: what it     *)
(* sends again under the id of a batch is what it sent before.             *)
(***************************************************************************)
THEOREM NoWriteConflicts == Spec => []NoSelfConflict
<1>1. LogInv => NoSelfConflict
  BY DEF LogInv
<1>2. QED
  BY <1>1, LogInvariant, PTL

-----------------------------------------------------------------------------
-----------------------------------------------------------------------------
(* How far the text can get *)

(* What the executor has of the text, while it can still write or close. *)
Reach ==
    CASE exec.pc \in {"starting", "answering"} -> pub.text
      [] exec.pc \in {"recover", "finalize"} -> exec.text
      [] exec.pc \notin {"starting", "answering", "recover", "finalize"} -> MaxText

(* The executor's text is the publisher's, as long as that is open. *)
OpenOK ==
    /\ exec.pc = "idle" => pub.at # "open"
    /\ exec.pc = "answering" => pub.at = "open"
    /\ exec.pc = "starting" => exec.text = 0 /\ (pub.at = "open" => pub.text = 0)
    /\ exec.pc \in {"recover", "finalize"} /\ pub.at = "open" => pub.text <= exec.text

(* Nothing that is stored, or on its way, is beyond it. *)
FitsOK ==
    ~Ended =>
        /\ stream.text <= Reach
        /\ \A c \in late : c.call = "write" => c.op.to <= Reach
        /\ io.pc = "request" => io.op.to <= Reach

(* A turn that is to be completed has all its text stored. *)
AnswerOK ==
    ~Ended /\ exec.pc = "finalize" /\ exec.status = "completed" =>
        /\ stream.text = exec.text /\ exec.publish
        /\ \A c \in late : c.call = "write" => Past(c.op, log)

(* A completed turn has the text of its whole log. *)
WholeOK == turn.status = "completed" => IsTextAfter(stream.text, log, Len(log))

(* Nothing runs before the first claim. *)
GenOK ==
    turn.gen = 0 => /\ exec.pc = "idle" /\ io.pc = "idle" /\ late = {} /\ sent = {}
                    /\ ~turn.begun /\ turn.status # "running"

(* The invariant of the text *)
TextInv == LogInv /\ OpenOK /\ FitsOK /\ AnswerOK /\ WholeOK /\ GenOK

-----------------------------------------------------------------------------
(* The text of the worker and of the store *)

(* What the write loop does leaves the publisher's text alone. *)
LEMMA WritesKeepText ==
    ASSUME LogInv, Writes
    PROVE  pub'.at = pub.at /\ pub'.text = pub.text
<1>0. pub \in Publisher /\ io \in IOState
  BY DEF LogInv, StreamInv, Typed
<1>1. CASE Flush
  BY <1>0, <1>1 DEF Flush, Publisher
<1>2. CASE RequestArrives \/ Broadcasts \/ LateCallArrives
  BY <1>2 DEF RequestArrives, Broadcasts, LateCallArrives
<1>3. CASE RequestFails \/ ReplyIsLost
  BY <1>0, <1>3, PublisherWorks DEF RequestFails, ReplyIsLost, SameWork
<1>4. CASE BroadcastFails \/ WriteIsAcknowledged
  BY <1>0, <1>4, PublisherWorks DEF BroadcastFails, WriteIsAcknowledged
<1>5. CASE ReplyArrives
  <2> DEFINE next == [pub EXCEPT !.durable = io.ans.seq]
  <2>1. next \in Publisher /\ next.at = pub.at /\ next.text = pub.text
    BY <1>0 DEF Publisher, IOState, Answer
  <2>2. Rejected(pub).at = pub.at /\ Rejected(pub).text = pub.text
    BY <1>0 DEF Publisher, Rejected
  <2>3. pub' \in {pub, Rejected(pub), Completed(ReconcileOnly(next)), next}
    BY <1>5 DEF ReplyArrives, Receive
  <2> HIDE DEF next
  <2>4. QED
    BY <2>1, <2>2, <2>3, PublisherWorks
<1>6. QED
  BY <1>1, <1>2, <1>3, <1>4, <1>5 DEF Writes

(* What comes on its way was handed over, or was on its way already. *)
LEMMA OnItsWay ==
    ASSUME LogInv, [Next]_vars
    PROVE  /\ \A c \in late' : c.call = "write" =>
                 c \in late \/ (io.pc = "request" /\ c.op = io.op)
           /\ io'.pc = "request" =>
                 \/ io' = io
                 \/ io'.op = HeadWrite /\ pub.at = "open" /\ pub.ops # <<>>
<1> USE DEF storeVars, publisherVars, workerVars
<1>0. io \in IOState /\ IOIdle.pc = "idle"
  BY DEF LogInv, StreamInv, Typed, IOIdle
<1>1. CASE Provides \/ Controls
  BY <1>1 DEF Provides, EmitText, EmitSemantic, FinishAnswer, Overload, Stop, Controls, Claim,
              Prepare, Begin, Recover, Finalize, FinalizeFails
<1>2. CASE Concludes
  BY <1>2 DEF Concludes, DeliverNext, TerminalBroadcasts, TerminalBroadcastFails,
              TerminalIsAcknowledged, Settle, AckStep, NoFault, GivenUp
<1>3. CASE Flush
  BY <1>3 DEF Flush, IOIdle, HeadWrite
<1>4. CASE RequestArrives \/ Broadcasts
  BY <1>0, <1>4 DEF RequestArrives, Broadcasts, IOState
<1>5. CASE RequestFails \/ ReplyIsLost \/ BroadcastFails \/ LateCallArrives
  BY <1>0, <1>5 DEF RequestFails, ReplyIsLost, BroadcastFails, LateCallArrives, GivenUp
<1>6. CASE WriteIsAcknowledged
  BY <1>0, <1>6 DEF WriteIsAcknowledged, AckStep, NoFault, GivenUp
<1>7. CASE ReplyArrives
  BY <1>0, <1>7 DEF ReplyArrives, Receive, IOState
<1>8. CASE Crash \/ Sweep \/ SweepReads \/ SweepCloses \/ UserCancels
  BY <1>0, <1>8 DEF Crash, Sweep, SweepReads, SweepCloses, UserCancels
<1>9. CASE ChannelDelivers \/ ChannelBreaks \/ Browser \/ BrowserFails \/ BrowserIsRefused
           \/ UNCHANGED vars
  BY <1>9
     DEF ChannelDelivers, ChannelBreaks, Browser, BrowserFails, BrowserIsRefused, vars
<1>10. QED
  BY <1>1, <1>2, <1>3, <1>4, <1>5, <1>6, <1>7, <1>8, <1>9 DEF Next, Writes

(* The reach is a text. *)
LEMMA ReachTyped == ASSUME Typed PROVE Reach \in Texts /\ Reach \in Nat
BY StreamAssumption DEF Typed, Reach, Executor, Publisher, Texts

(* The publisher's text is within reach. *)
LEMMA OpenIsInReach ==
    ASSUME Typed, OpenOK, pub.at = "open"
    PROVE  pub.text <= Reach
<1>1. pub.text \in 0..MaxText
  BY DEF Typed, Publisher, Texts
<1>2. QED
  BY <1>1, StreamAssumption DEF OpenOK, Reach

(* A worker that is gone has forgotten its publisher. *)
LEMMA GoneIsClosed ==
    ASSUME Typed, Over(pub)
    PROVE  exec'.pc = "idle" /\ pub'.at # "open"
BY AbsentAndAbandoned DEF Over, Unregistered, Idle

(* What stays as it was *)
LEMMA WorkStands ==
    ASSUME OpenOK, exec' = exec, pub'.at = pub.at, pub'.text = pub.text
    PROVE  OpenOK' /\ Reach' = Reach
BY DEF OpenOK, Reach

(* A worker that closes the turn reaches the text it closes it with. *)
LEMMA ClosingReaches ==
    ASSUME Typed, OpenOK, NEW status \in Terminal, NEW text \in Texts,
           NEW ks \in SUBSET (0..2), NEW publish \in BOOLEAN,
           pub.at = "open" => pub.text <= text, Closing(status, text, ks, publish)
    PROVE  /\ OpenOK' /\ Reach' = text
           /\ exec'.pc = "finalize" /\ exec'.status = status /\ exec'.text = text
           /\ exec'.publish = (publish /\ Drained)
<1>1. exec'.pc = "finalize" /\ exec'.status = status /\ exec'.text = text
      /\ exec'.publish = (publish /\ Drained)
  BY DEF Closing, Typed, Executor
<1>2. pub' = pub \/ pub'.at = "abandoned"
  BY AbsentAndAbandoned DEF Closing
<1>3. QED
  BY <1>1, <1>2 DEF OpenOK, Reach

(* No step of a started turn takes the text it can reach further down. *)
LEMMA ReachGrows ==
    ASSUME LogInv, OpenOK, [Next]_vars
    PROVE  OpenOK' /\ (turn.begun => Reach <= Reach')
<1> USE DEF workerVars, publisherVars
<1>0. /\ Typed /\ pub \in Publisher /\ exec \in Executor /\ pub.text \in Nat /\ pub.text \in Texts
      /\ exec.text \in Texts /\ Fenced /\ Reach \in 0..MaxText /\ StreamInv /\ MaxText \in Nat
      /\ \A x \in Texts : x \in Nat /\ x <= MaxText
  BY ReachTyped, StreamAssumption DEF LogInv, StreamInv, Typed, Publisher, Executor, Texts
<1>1. ASSUME exec'.pc \in {"idle", "settle", "deliver"}, exec'.pc = "idle" => pub'.at # "open"
      PROVE  OpenOK' /\ Reach <= Reach'
  <2>1. Reach' = MaxText
    BY <1>1 DEF Reach
  <2>2. QED
    BY <1>0, <1>1, <2>1 DEF OpenOK
<1>2. CASE exec' = exec /\ pub'.at = pub.at /\ pub'.text = pub.text
  BY <1>0, <1>2, WorkStands
<1>3. CASE Claim
  <2>1. ~turn.begun /\ exec'.pc = "starting" /\ exec'.text = 0 /\ pub' = pub
        /\ exec.pc = "idle"
    BY <1>0, <1>3 DEF Claim, ClaimTurn, Fenced, Idle
  <2>2. QED
    BY <2>1 DEF OpenOK
<1>4. CASE Prepare
  <2>1. ~turn.begun /\ exec' = exec /\ exec.pc = "starting" /\ pub'.text = 0
    BY <1>0, <1>4 DEF Prepare, RegisterTurn, Absent, Fenced
  <2>2. QED
    BY <2>1 DEF OpenOK
<1>5. CASE Begin
  <2>1. ~turn.begun /\ pub' = pub /\ pub.at = "open" /\ exec.pc = "starting"
        /\ exec'.pc \in {"answering", "recover"} /\ exec'.text = exec.text
    BY <1>0, <1>5 DEF Begin, Fenced, Executor
  <2>2. QED
    BY <1>0, <2>1 DEF OpenOK
<1>6. CASE EmitText \/ EmitSemantic
  <2>1. exec' = exec /\ exec.pc = "answering" /\ pub.at = "open"
    BY <1>6 DEF EmitText, EmitSemantic, AppendText, PublishSemantic, Awaited, Writable
  <2>2. pub'.at = "open" /\ pub'.text >= pub.text
    <3>1. CASE AppendText
      BY <1>0, <2>1, <3>1 DEF AppendText, Publisher
    <3>2. CASE \E id : PublishSemantic(id)
      BY <1>0, <2>1, <3>2 DEF PublishSemantic, Publisher
    <3>3. QED
      BY <1>6, <3>1, <3>2 DEF EmitText, EmitSemantic
  <2>3. QED
    BY <2>1, <2>2 DEF OpenOK, Reach
<1>7. CASE FinishAnswer
  <2>1. exec.pc = "answering" /\ Closing("completed", pub.text, {1, 2}, TRUE)
        /\ "completed" \in Terminal
    BY <1>7 DEF FinishAnswer, Awaited, Terminal
  <2>2. OpenOK' /\ Reach' = pub.text
    <3> DEFINE t == pub.text
    <3>1. t \in Texts /\ (pub.at = "open" => pub.text <= t)
      BY <1>0
    <3>2. Closing("completed", t, {1, 2}, TRUE)
      BY <2>1
    <3> HIDE DEF t
    <3>3. {1, 2} \in SUBSET (0..2) /\ TRUE \in BOOLEAN
      OBVIOUS
    <3>4. OpenOK' /\ Reach' = t
      BY <1>0, <2>1, <3>1, <3>2, <3>3, ClosingReaches
    <3>5. QED
      BY <3>4 DEF t
  <2>3. QED
    BY <1>0, <2>1, <2>2 DEF Reach
<1>8. CASE Overload
  <2>1. exec.pc = "answering" /\ exec'.pc = "recover" /\ exec'.text = pub.text + 1
    BY <1>0, <1>8 DEF Overload, Awaited, Executor
  <2>2. pub'.text = pub.text + 1
    BY <1>0, <1>8, PublisherSteps DEF Overload, OverloadText, Rejected, Publisher
  <2>3. QED
    BY <1>0, <2>1, <2>2 DEF OpenOK, Reach
<1>9. CASE Stop
  <2>1. exec.pc \in {"starting", "answering"} /\ exec'.pc = "recover" /\ exec'.text = pub.text
        /\ pub' = pub
    BY <1>0, <1>9 DEF Stop, Executor
  <2>2. QED
    BY <1>0, <2>1 DEF OpenOK, Reach
<1>10. CASE Recover
  <2>1. CASE Over(pub)
    BY <1>0, <1>1, <2>1, GoneIsClosed
  <2>2. CASE ~Over(pub)
    <3> DEFINE status == IF turn.cancel THEN "cancelled" ELSE "failed"
    <3>1. exec.pc = "recover" /\ Closing(status, exec.text, Extras(status), pub.at = "open")
          /\ status \in Terminal /\ Extras(status) \in SUBSET (0..2)
      BY <1>10, <2>2 DEF Recover, Terminal, Extras
    <3> HIDE DEF status
    <3>2. OpenOK' /\ Reach' = exec.text
      BY <1>0, <3>1, ClosingReaches DEF OpenOK
    <3>3. QED
      BY <1>0, <3>1, <3>2 DEF Reach
  <2>3. QED
    BY <2>1, <2>2
<1>11. CASE Finalize
  <2>1. exec.pc = "finalize" /\ pub' = pub
    BY <1>11 DEF Finalize
  <2>2. CASE exec'.pc \in {"deliver", "settle"}
    BY <1>1, <2>2
  <2>3. CASE exec'.pc = "recover" /\ exec'.text = exec.text
    BY <1>0, <2>1, <2>3 DEF OpenOK, Reach
  <2>4. QED
    BY <1>0, <1>11, <2>2, <2>3 DEF Finalize, FinalizeAnswer, Executor
<1>12. CASE FinalizeFails
  <2>1. CASE Over(pub)
    BY <1>0, <1>1, <2>1, GoneIsClosed
  <2>2. CASE exec.k = 2
    <3>1. exec.pc = "finalize" /\ pub' = pub /\ exec'.pc = exec.pc /\ exec'.text = exec.text
      BY <1>0, <1>12, <2>2 DEF FinalizeFails, Executor
    <3>2. QED
      BY <1>0, <3>1 DEF OpenOK, Reach
  <2>3. QED
    BY <1>12, <2>1, <2>2 DEF FinalizeFails
<1>13. CASE Settle
  BY <1>0, <1>1, <1>13, GoneIsClosed DEF Settle
<1>14. CASE Crash
  <2>1. exec'.pc = "idle" /\ pub'.at = "none"
    BY <1>14, AbsentAndAbandoned DEF Crash, Idle
  <2>2. QED
    BY <1>1, <2>1
<1>15. CASE DeliverNext \/ TerminalBroadcasts \/ TerminalBroadcastFails
            \/ TerminalIsAcknowledged
  <2>1. exec.pc = "deliver"
    BY <1>0, <1>15
       DEF StreamInv, EndIsLast, DeliverNext, Delivering, TerminalBroadcasts,
           TerminalBroadcastFails, TerminalIsAcknowledged
  <2>2. exec'.pc \in {"deliver", "settle"}
    BY <1>0, <1>15, <2>1, DeliversTyped
       DEF DeliverNext, TerminalBroadcasts, TerminalBroadcastFails, TerminalIsAcknowledged,
           Settling
  <2>3. QED
    BY <1>1, <2>2
<1>16. CASE Writes /\ UNCHANGED <<client, exec, closing>>
  BY <1>2, <1>16, WritesKeepText
<1>17. CASE Sweep \/ SweepReads \/ SweepCloses \/ UserCancels \/ ChannelDelivers
            \/ ChannelBreaks \/ Browser \/ BrowserFails \/ BrowserIsRefused \/ UNCHANGED vars
  BY <1>2, <1>17
     DEF Sweep, SweepReads, SweepCloses, UserCancels, ChannelDelivers, ChannelBreaks, Browser, BrowserFails,
         BrowserIsRefused, vars
<1>18. QED
  BY <1>3, <1>4, <1>5, <1>6, <1>7, <1>8, <1>9, <1>10, <1>11, <1>12, <1>13, <1>14, <1>15,
     <1>16, <1>17 DEF Next, Provides, Controls, Concludes

(* What a started turn does not forget is all that is beyond the fence. *)
LEMMA OnlyBeginStarts ==
    ASSUME LogInv, [Next]_vars, ~turn.begun, turn'.begun
    PROVE  Begin
<1> USE DEF storeVars, publisherVars, workerVars
<1>0. turn \in TurnRecord /\ exec \in Executor
  BY DEF LogInv, StreamInv, Typed
<1>2. ASSUME Close("failed", 0, 0) \/ \E status, text, k : Close(status, text, k)
      PROVE  FALSE
  BY <1>0, <1>2 DEF Close, TurnRecord
<1>3. CASE Provides \/ Claim \/ Prepare \/ Recover \/ Finalize \/ FinalizeFails
  BY <1>0, <1>2, <1>3
     DEF Provides, EmitText, EmitSemantic, FinishAnswer, Overload, Stop, Claim, ClaimTurn,
         Prepare, Recover, SettleJob, RequeueTurn, Finalize, FinalizeFails, FinalizeTurn,
         TurnRecord
<1>4. CASE Concludes
  BY <1>4 DEF Concludes, DeliverNext, TerminalBroadcasts, TerminalBroadcastFails,
              TerminalIsAcknowledged, Settle, SettleJob, AckStep, Acknowledge
<1>5. CASE Writes
  BY <1>5 DEF Writes, Flush, RequestArrives, RequestFails, ReplyIsLost, ReplyArrives,
              Broadcasts, BroadcastFails, WriteIsAcknowledged, AckStep, Acknowledge,
              LateCallArrives, Persist
<1>6. CASE Crash \/ Sweep \/ SweepReads \/ SweepCloses \/ UserCancels
  BY <1>0, <1>2, <1>6
     DEF Crash, Sweep, SweepReads, SweepCloses, FinalizeTurn, RequeueTurn, SettleJob,
         UserCancels, RequestCancel, TurnRecord
<1>7. CASE ChannelDelivers \/ ChannelBreaks \/ Browser \/ BrowserFails \/ BrowserIsRefused
           \/ UNCHANGED vars
  BY <1>7
     DEF ChannelDelivers, ChannelBreaks, Browser, BrowserFails, BrowserIsRefused, vars
<1>8. QED
  BY <1>3, <1>4, <1>5, <1>6, <1>7 DEF Next, Controls

(* Before the fence nothing was stored and nothing is on its way. *)
LEMMA UnbegunNext ==
    ASSUME LogInv', ~turn'.begun, ~Ended'
    PROVE  stream'.text = 0 /\ late' = {} /\ io'.pc = "idle"
<1>1. log' = <<>> /\ late' = {} /\ io'.pc = "idle" /\ Follows(stream, log)'
  BY DEF LogInv, StreamInv, Fenced, StoreOK
<1>2. stream'.batchSeq \in 0..Len(log') /\ (stream'.batchSeq = 0 => stream'.text = 0)
  BY <1>1 DEF Follows
<1>3. QED
  BY <1>1, <1>2

(* What is stored, and what is on its way, stays within reach. *)
LEMMA FitsKept ==
    ASSUME LogInv, LogInv', OpenOK, FitsOK, [Next]_vars
    PROVE  FitsOK'
<1> SUFFICES ASSUME ~Ended'
             PROVE  /\ stream'.text <= Reach'
                    /\ \A c \in late' : c.call = "write" => c.op.to <= Reach'
                    /\ io'.pc = "request" => io'.op.to <= Reach'
  BY DEF FitsOK
<1>0. Typed /\ Typed' /\ Reach \in Nat /\ io \in IOState /\ stream \in StreamRecord
      /\ stream.text \in Nat /\ io.op.to \in Nat
  BY ReachTyped, StreamAssumption DEF LogInv, StreamInv, Typed, IOState, Write, StreamRecord, Texts
<1>00. Reach' \in Nat
  <2>1. Reach' \in Texts
    <3>1. exec'.text \in Texts /\ pub'.text \in Texts /\ MaxText \in Texts
      BY <1>0, StreamAssumption DEF Typed, Executor, Publisher, Texts
    <3>2. QED
      BY <3>1 DEF Reach
  <2>2. QED
    BY <2>1, StreamAssumption DEF Texts
<1>1. CASE ~turn'.begun
  BY <1>00, <1>1, UnbegunNext
<1>2. CASE ~turn.begun /\ turn'.begun
  <2>1. Begin
    BY <1>2, OnlyBeginStarts
  <2>2. ~Ended /\ UNCHANGED <<stream, late, io>>
    BY <2>1 DEF Begin, BeginTurn, Ended, Terminal, workerVars
  <2>3. stream.text = 0 /\ late = {} /\ io.pc = "idle"
    BY <1>2, <2>2, Unbegun
  <2>4. QED
    BY <1>00, <2>2, <2>3
<1>3. CASE turn.begun /\ turn'.begun
  <2>1. Reach <= Reach'
    BY <1>3, ReachGrows
  <2>2. ~Ended /\ (stream'.text = stream.text
                   \/ \E op \in Write : Arrives(op) /\ stream'.text = op.to)
    BY StoreSteps DEF StepStands, StepEnds, StepWrites, StoreStands, StoreEnds, Ended
  <2>3. /\ stream.text <= Reach
        /\ \A c \in late : c.call = "write" => c.op.to <= Reach
        /\ io.pc = "request" => io.op.to <= Reach
    BY <2>2 DEF FitsOK
  <2>4. \A op \in Write : op.to \in Nat
    BY StreamAssumption DEF Write, Texts
  <2>5. \A op \in Write : Arrives(op) => op.to <= Reach'
    BY <1>0, <1>00, <2>1, <2>3, <2>4 DEF Arrives
  <2>6. stream'.text <= Reach'
    BY <1>0, <1>00, <2>1, <2>2, <2>3, <2>5
  <2>7. ASSUME NEW c \in late', c.call = "write" PROVE c.op.to <= Reach'
    <3>1. c.op \in Write
      BY <1>0, <2>7 DEF Typed
    <3>2. c \in late \/ (io.pc = "request" /\ c.op = io.op)
      BY <2>7, OnItsWay
    <3>3. Arrives(c.op)
      BY <2>7, <3>2 DEF Arrives
    <3>4. QED
      BY <2>5, <3>1, <3>3
  <2>8. ASSUME io'.pc = "request" PROVE io'.op.to <= Reach'
    <3>1. CASE io' = io
      BY <1>0, <1>00, <2>1, <2>3, <2>8, <3>1
    <3>2. CASE io'.op = HeadWrite /\ pub.at = "open" /\ pub.ops # <<>>
      <4>1. pub.ops[1].to = pub.text
        BY <2>2, <3>2 DEF LogInv, WritesOK, HeadOK
      <4>2. pub.text <= Reach /\ pub.text \in Nat
        BY <1>0, <3>2, OpenIsInReach, StreamAssumption DEF Typed, Publisher, Texts
      <4>3. io'.op.to = pub.text
        BY <3>2, <4>1 DEF HeadWrite
      <4>4. QED
        BY <1>0, <1>00, <2>1, <4>2, <4>3
    <3>3. QED
      BY <2>8, <3>1, <3>2, OnItsWay
  <2>9. QED
    BY <2>6, <2>7, <2>8
<1>4. QED
  BY <1>1, <1>2, <1>3

(* A turn that is to be completed stays the turn it was. *)
LEMMA AnswerKept ==
    ASSUME LogInv, LogInv', OpenOK, AnswerOK, [Next]_vars
    PROVE  AnswerOK'
<1> USE DEF storeVars, publisherVars, workerVars
<1> SUFFICES ASSUME ~Ended', exec'.pc = "finalize", exec'.status = "completed"
             PROVE  /\ stream'.text = exec'.text /\ exec'.publish
                    /\ \A c \in late' : c.call = "write" => Past(c.op, log')
  BY DEF AnswerOK
<1>0. /\ Typed /\ exec \in Executor /\ EndIsLast /\ log \in Seq(Entry)
      /\ turn \in TurnRecord
  BY DEF LogInv, StreamInv, Typed
<1>1. CASE FinishAnswer
  <2>1. /\ exec.pc = "answering" /\ ~pub.blocked /\ Drained /\ pub.ops = <<>>
        /\ UNCHANGED <<storeVars, late>>
        /\ Closing("completed", pub.text, {1, 2}, TRUE)
    BY <1>1 DEF FinishAnswer, Awaited, Drained
  <2>2. pub.at = "open" /\ ~Ended
    BY <2>1 DEF OpenOK, Ended
  <2>3. pub.text = stream.text /\ \A c \in late : c.call = "write" => Past(c.op, log)
    BY <2>1, <2>2 DEF LogInv, WritesOK, RestOK
  <2>4. exec'.text = pub.text /\ exec'.publish
    BY <1>0, <2>1 DEF Closing, Executor
  <2>5. QED
    BY <2>1, <2>3, <2>4
<1>2. CASE /\ exec.pc = "finalize" /\ exec.status = "completed"
           /\ exec'.text = exec.text /\ exec'.publish = exec.publish
  <2>1. StepStands \/ StepWrites
    BY StoreSteps DEF StepEnds, StoreEnds
  <2>2. ~Ended
    BY <2>1 DEF StepStands, StoreStands, StepWrites
  <2>3. /\ stream.text = exec.text /\ exec.publish
        /\ \A c \in late : c.call = "write" => Past(c.op, log)
    BY <1>2, <2>2 DEF AnswerOK
  <2>4. io.pc = "idle"
    BY <1>0, <1>2, <2>3 DEF EndIsLast
  <2>5. \A c \in late' : c.call = "write" => c \in late
    BY <2>4, OnItsWay
  <2>6. ~StepWrites
    <3>1. ASSUME NEW op \in Write, Arrives(op) PROVE ~Fresh(op, log, stream.text)
      <4>1. Past(op, log)
        BY <2>3, <2>4, <3>1 DEF Arrives
      <4>2. QED
        BY <1>0, <2>2, <4>1, PastIsNotFresh DEF Typed, LogInv, StoreOK
    <3>2. QED
      BY <3>1 DEF StepWrites
  <2>7. log' = log /\ stream'.text = stream.text
    BY <2>1, <2>6 DEF StepStands, StoreStands
  <2>8. QED
    BY <1>2, <2>3, <2>5, <2>7
<1>3. CASE FinalizeFails
  <2>1. CASE Over(pub)
    BY <2>1 DEF Over, Idle
  <2>2. CASE ~Over(pub)
    <3>1. \E k : exec.pc = "finalize" /\ exec' = [exec EXCEPT !.tried = TRUE, !.k = k]
      BY <1>3, <2>2 DEF FinalizeFails
    <3>2. exec.pc = "finalize" /\ exec'.status = exec.status /\ exec'.text = exec.text
          /\ exec'.publish = exec.publish
      BY <1>0, <3>1 DEF Executor
    <3>3. QED
      BY <1>2, <3>2
  <2>3. QED
    BY <2>1, <2>2
<1>4. CASE exec' = exec
  BY <1>2, <1>4
<1>5. CASE Recover
  <2>1. CASE Over(pub)
    BY <2>1 DEF Over, Idle
  <2>2. CASE ~Over(pub)
    <3> DEFINE status == IF turn.cancel THEN "cancelled" ELSE "failed"
    <3>1. Closing(status, exec.text, Extras(status), pub.at = "open") /\ status # "completed"
      BY <1>5, <2>2 DEF Recover
    <3> HIDE DEF status
    <3>2. exec'.status = status
      BY <1>0, <3>1 DEF Closing, Executor
    <3>3. QED
      BY <3>1, <3>2
  <2>3. QED
    BY <2>1, <2>2
<1>6. CASE Claim \/ Begin \/ Overload \/ Stop \/ Finalize \/ Settle \/ Crash
  <2>1. CASE Finalize
    BY <1>0, <2>1 DEF Finalize, FinalizeAnswer, Executor
  <2>2. CASE Claim \/ Settle \/ Crash
    BY <2>2 DEF Claim, Settle, Over, Crash, Idle
  <2>3. CASE Begin \/ Overload \/ Stop
    BY <1>0, <2>3 DEF Begin, Overload, Stop, Executor
  <2>4. QED
    BY <1>6, <2>1, <2>2, <2>3
<1>7. CASE DeliverNext \/ TerminalBroadcasts \/ TerminalBroadcastFails
           \/ TerminalIsAcknowledged
  <2>1. exec.pc = "deliver"
    BY <1>0, <1>7
       DEF EndIsLast, DeliverNext, Delivering, TerminalBroadcasts,
           TerminalBroadcastFails, TerminalIsAcknowledged
  <2>2. exec'.pc \in {"deliver", "settle"}
    BY <1>0, <1>7, <2>1, DeliversTyped
       DEF DeliverNext, TerminalBroadcasts, TerminalBroadcastFails, TerminalIsAcknowledged,
           Settling
  <2>3. QED
    BY <2>2
<1>8. QED
  BY <1>1, <1>3, <1>4, <1>5, <1>6, <1>7
     DEF Next, Provides, Controls, Concludes, Prepare, EmitText, EmitSemantic, Sweep,
         SweepReads, SweepCloses, UserCancels, ChannelDelivers, ChannelBreaks, Browser, BrowserFails,
         BrowserIsRefused, vars

(* The end of the log says how far the text got. *)
LEMMA EndAddsNoText ==
    ASSUME NEW l \in Seq(Entry), NEW m \in Seq(Entry), Extends(m, l),
           \A i \in (Len(l) + 1)..Len(m) : m[i].kind # "text",
           NEW t, IsTextAfter(t, l, Len(l))
    PROVE  IsTextAfter(t, m, Len(m))
<1>1. Len(l) \in Nat /\ Len(m) \in Nat /\ Len(l) <= Len(m)
  BY DEF Extends
<1>2. \A i \in 1..Len(m) : m[i].kind = "text" => i \in 1..Len(l) /\ m[i] = l[i]
  BY <1>1 DEF Extends
<1>3. \A i \in 1..Len(l) : i \in 1..Len(m) /\ m[i] = l[i]
  BY <1>1 DEF Extends
<1>4. Reached(m, Len(m)) = Reached(l, Len(l))
  BY <1>2, <1>3 DEF Reached
<1>5. QED
  BY <1>4 DEF IsTextAfter

(* A completed turn has the text of its whole log. *)
LEMMA WholeKept ==
    ASSUME LogInv, AnswerOK, WholeOK, [Next]_vars
    PROVE  WholeOK'
<1> SUFFICES ASSUME turn'.status = "completed"
             PROVE  IsTextAfter(stream'.text, log', Len(log'))
  BY DEF WholeOK
<1>1. CASE StepStands
  BY <1>1 DEF StepStands, StoreStands, WholeOK
<1>2. CASE StepWrites
  BY <1>2 DEF StepWrites, Ended, Terminal
<1>3. CASE StepEnds
  <2>1. ~Ended /\ exec.pc = "finalize" /\ exec.status = "completed" /\ stream'.text = exec.text
    BY <1>3 DEF StepEnds, StoreEnds
  <2>2. stream'.text = stream.text
    BY <2>1 DEF AnswerOK
  <2>3. IsTextAfter(stream.text, log, Len(log)) /\ log \in Seq(Entry)
    BY <2>1 DEF LogInv, StreamInv, Typed, StoreOK, Follows
  <2>4. log' \in Seq(Entry) /\ Extends(log', log)
        /\ \A i \in (Len(log) + 1)..Len(log') : log'[i].kind # "text"
    BY <1>3 DEF StepEnds, StoreEnds
  <2>5. QED
    BY <2>2, <2>3, <2>4, EndAddsNoText
<1>4. QED
  BY <1>1, <1>2, <1>3, StoreSteps

(* Before the first claim nobody but the user and the sweep can do anything. *)
LEMMA GenKept ==
    ASSUME LogInv, OpenOK, GenOK, [Next]_vars
    PROVE  GenOK'
<1> USE DEF storeVars, publisherVars, workerVars
<1> SUFFICES ASSUME turn'.gen = 0 PROVE GenOK'
  BY DEF GenOK
<1>1. turn \in TurnRecord /\ turn.gen \in Nat
  BY StreamAssumption DEF LogInv, StreamInv, Typed, TurnRecord
<1>2. turn.gen = 0
  BY <1>1, StoreSteps DEF StepStands, StepEnds, StepWrites
<1>3. /\ exec.pc = "idle" /\ io.pc = "idle" /\ late = {} /\ sent = {}
      /\ ~turn.begun /\ turn.status # "running" /\ pub.at # "open" /\ term.pc = "idle"
  BY <1>2 DEF GenOK, OpenOK, LogInv, StreamInv, EndIsLast
<1>4. CASE Claim
  BY <1>1, <1>2, <1>4 DEF Claim, ClaimTurn, TurnRecord
<1>5. CASE Sweep \/ SweepReads \/ SweepCloses \/ UserCancels
  <2>1. UNCHANGED <<exec, io, late, sent>>
    BY <1>5 DEF Sweep, SweepReads, SweepCloses, UserCancels
  <2>2. \A c \in closing : c.status # "running"
    BY DEF LogInv, SweepsOK, SweepsTyped, SweepCall
  <2>3. turn'.begun = turn.begun /\ turn'.status # "running"
    BY <1>1, <1>3, <1>5, <2>2
       DEF Sweep, SweepReads, SweepCloses, FinalizeTurn, Close, RequeueTurn, SettleJob,
           UserCancels, RequestCancel, TurnRecord
  <2>4. QED
    BY <1>3, <2>1, <2>3 DEF GenOK
<1>6. CASE UNCHANGED <<exec, io, late, sent, turn>>
  BY <1>2, <1>3, <1>6 DEF GenOK
<1>7. CASE Provides
  BY <1>3, <1>7 DEF Provides, EmitText, EmitSemantic, Awaited, FinishAnswer, Overload, Stop
<1>8. CASE Prepare \/ Begin \/ Recover \/ Finalize \/ FinalizeFails \/ Concludes
  BY <1>3, <1>8 DEF Prepare, Begin, Recover, Finalize, FinalizeFails, Concludes, DeliverNext,
       Delivering, TerminalBroadcasts, TerminalBroadcastFails, TerminalIsAcknowledged, Settle
<1>9. CASE Writes \/ Crash
  BY <1>3, <1>9 DEF Writes, Flush, RequestArrives, RequestFails, ReplyIsLost, ReplyArrives,
              Broadcasts, BroadcastFails, WriteIsAcknowledged, LateCallArrives, Crash
<1>10. QED
  BY <1>4, <1>5, <1>6, <1>7, <1>8, <1>9
     DEF Next, Controls, ChannelDelivers, ChannelBreaks, Browser, BrowserFails,
         BrowserIsRefused, vars

(* Every step keeps the invariant of the text. *)
LEMMA TextKept == TextInv /\ [Next]_vars => TextInv'
<1> SUFFICES ASSUME TextInv, [Next]_vars PROVE TextInv'
  OBVIOUS
<1>1. LogInv'
  BY NextKeepsLog DEF TextInv
<1>2. QED
  BY <1>1, ReachGrows, FitsKept, AnswerKept, WholeKept, GenKept DEF TextInv

(* It holds at first. *)
LEMMA TextStarts == Init => TextInv
<1> SUFFICES ASSUME Init PROVE TextInv
  OBVIOUS
<1>1. LogInv
  BY LogStarts
<1>2. /\ stream.text = 0 /\ pub.at = "none" /\ pub.text = 0 /\ io.pc = "idle" /\ late = {}
      /\ sent = {} /\ exec.pc = "idle" /\ turn.status = "queued" /\ turn.gen = 0 /\ ~turn.begun
  BY DEF Init, StoreInit, EmptyStream, PublisherInit, Absent, IOIdle, Idle
<1>3. QED
  BY <1>1, <1>2, StreamAssumption
     DEF TextInv, OpenOK, FitsOK, AnswerOK, WholeOK, GenOK, Reach

(***************************************************************************)
(* The inductive invariant of the text: nothing stored or on its way is    *)
(* beyond what the executor has, a turn is completed only when all of that *)
(* is stored, and then its row has the text of its whole log.              *)
(***************************************************************************)
THEOREM TextInvariant == Spec => []TextInv
BY TextStarts, TextKept, PTL DEF Spec
===============================================================================
