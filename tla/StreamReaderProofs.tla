-------------------------- MODULE StreamReaderProofs --------------------------
(***************************************************************************)
(* What the browser shows of a stream, whatever is lost, repeated or       *)
(* reordered on its way: a prefix of what is stored, all of it once it     *)
(* lets go of a completed turn, and nothing else; the whole system         *)
(* implements Transcript.                                                  *)
(*                                                                         *)
(* ReaderInv says what a window may rely on: it shows the text up to the   *)
(* last applied event, what it buffered is durable, and an answer of the   *)
(* server was true when it was given.  It needs TextInv: the end of a      *)
(* completed turn is shown as the text of the whole log, and that is what  *)
(* was stored.                                                             *)
(*                                                                         *)
(* The text an event appends is a run of chunks (Between), and runs that   *)
(* follow one another join; so what the live events append to the text of  *)
(* an answer is what the next answer would have.                           *)
(***************************************************************************)
EXTENDS StreamLogProofs, WellFoundedInduction

-----------------------------------------------------------------------------
(* Numbers *)

(* A set of numbers has a least element. *)
LEMMA LeastExists ==
    ASSUME NEW X \in SUBSET Nat, X # {}
    PROVE  \E x \in X : \A y \in X : x <= y
<1> DEFINE U == {1..n : n \in X}
<1>1. IsWellFoundedOn(StrictSubsetOrdering(Nat), FiniteSubsetsOf(Nat))
  BY FS_StrictSubsetOrderingWellFounded
<1>2. U \subseteq FiniteSubsetsOf(Nat)
  <2> SUFFICES ASSUME NEW u \in U PROVE u \in FiniteSubsetsOf(Nat)
    OBVIOUS
  <2>1. PICK n \in X : u = 1..n
    OBVIOUS
  <2>2. IsFiniteSet(1..n) /\ 1..n \subseteq Nat
    BY FS_Interval
  <2>3. QED
    BY <2>1, <2>2 DEF FiniteSubsetsOf
<1>3. U # {}
  OBVIOUS
<1> HIDE DEF U
<1>4. PICK u \in U : \A v \in U : ~ (<<v, u>> \in StrictSubsetOrdering(Nat))
  BY <1>1, <1>2, <1>3, WFMin
<1>5. PICK x \in X : u = 1..x
  BY DEF U
<1>6. ASSUME NEW y \in X, y < x PROVE FALSE
  <2>1. 1..y \in U
    BY DEF U
  <2>2. 1..y \subseteq 1..x /\ x \in 1..x /\ x \notin 1..y
    BY <1>6
  <2>3. 1..y \subseteq Nat /\ 1..x \subseteq Nat
    OBVIOUS
  <2>4. <<1..y, u>> \in StrictSubsetOrdering(Nat)
    BY <1>5, <2>2, <2>3 DEF StrictSubsetOrdering
  <2>5. QED
    BY <1>4, <2>1, <2>4
<1>7. QED
  BY <1>6

(* And a greatest one, if it has a bound. *)
LEMMA GreatestExists ==
    ASSUME NEW X \in SUBSET Nat, X # {}, NEW n \in Nat, \A x \in X : x <= n
    PROVE  \E x \in X : \A y \in X : y <= x
<1> DEFINE Y == {n - x : x \in X}
<1>1. \A x \in X : n - x \in Nat
  OBVIOUS
<1>5. Y \in SUBSET Nat /\ Y # {}
  BY <1>1
<1> HIDE DEF Y
<1>2. PICK y \in Y : \A z \in Y : y <= z
  BY <1>5, LeastExists
<1>3. PICK x \in X : y = n - x
  BY DEF Y
<1>4. ASSUME NEW z \in X PROVE z <= x
  <2>1. n - z \in Y
    BY DEF Y
  <2>2. n - x <= n - z
    BY <1>2, <1>3, <2>1
  <2>3. QED
    BY <1>3, <2>2
<1>6. QED
  BY <1>4

-----------------------------------------------------------------------------
(* Where the text is after each entry *)

(* The log gets to texts, and begins with none. *)
LEMMA ReachedTyped ==
    ASSUME NEW l \in Seq(Entry), NEW n \in 0..Len(l)
    PROVE  Reached(l, n) \subseteq Texts /\ Reached(l, n) \subseteq Nat /\ 0 \in Reached(l, n)
<1>1. \A j \in 1..Len(l) : l[j] \in Entry
  OBVIOUS
<1>2. \A j \in 1..n : l[j].to \in Texts
  BY <1>1 DEF Entry
<1>3. 0 \in Texts /\ Texts \subseteq Nat
  BY StreamAssumption DEF Texts
<1>4. QED
  BY <1>2, <1>3 DEF Reached

(* After any number of entries there is a text, *)
LEMMA TextExists ==
    ASSUME NEW l \in Seq(Entry), NEW n \in 0..Len(l)
    PROVE  \E t \in Texts : IsTextAfter(t, l, n)
<1>1. \A x \in Texts : x <= MaxText
  BY StreamAssumption DEF Texts
<1>2. QED
  BY <1>1, ReachedTyped, GreatestExists, StreamAssumption DEF IsTextAfter

(* and only one. *)
LEMMA TextIsUnique ==
    ASSUME NEW l \in Seq(Entry), NEW n \in 0..Len(l), NEW t, NEW u,
           IsTextAfter(t, l, n), IsTextAfter(u, l, n)
    PROVE  t = u
BY ReachedTyped DEF IsTextAfter

(* Before the first entry it is empty. *)
LEMMA TextAtFirst == ASSUME NEW l, NEW t PROVE IsTextAfter(t, l, 0) <=> t = 0
BY DEF IsTextAfter, Reached

(* The next entry goes on where the text is. *)
LEMMA TextGoesOn ==
    ASSUME NEW l \in Seq(Entry), WellFormed(l), NEW n \in 0..Len(l), n < Len(l),
           NEW t, IsTextAfter(t, l, n), NEW u, IsTextAfter(u, l, n + 1)
    PROVE  /\ t \in Texts /\ u \in Texts /\ t <= u
           /\ l[n + 1].kind = "text" => l[n + 1].id = t /\ l[n + 1].to = u
           /\ l[n + 1].kind # "text" => u = t
<1>1. n + 1 \in 1..Len(l) /\ n + 1 \in 0..Len(l) /\ (n + 1) - 1 = n
  OBVIOUS
<1>2. EntryOK(l, n + 1) /\ l[n + 1] \in Entry
  BY <1>1 DEF WellFormed
<1>3. t \in Texts /\ u \in Texts /\ t \in Nat /\ u \in Nat /\ l[n + 1].to \in Nat
  <2>1. t \in Texts
    BY ReachedTyped DEF IsTextAfter
  <2>2. u \in Texts
    BY <1>1, ReachedTyped DEF IsTextAfter
  <2>3. l[n + 1].to \in Texts
    BY <1>2 DEF Entry
  <2>4. QED
    BY <2>1, <2>2, <2>3, StreamAssumption DEF Texts
<1>4. Reached(l, n + 1) =
        Reached(l, n) \cup (IF l[n + 1].kind = "text" THEN {l[n + 1].to} ELSE {})
  BY <1>1 DEF Reached
<1>5. CASE l[n + 1].kind = "text"
  <2>1. l[n + 1].id = t /\ l[n + 1].to > t
    BY <1>1, <1>2, <1>5, TextIsUnique DEF EntryOK
  <2>2. IsTextAfter(l[n + 1].to, l, n + 1)
    <3>1. \A b \in Reached(l, n) : b \in Nat /\ b <= t
      BY ReachedTyped DEF IsTextAfter
    <3>2. QED
      BY <1>3, <1>4, <1>5, <2>1, <3>1 DEF IsTextAfter
  <2>3. QED
    BY <1>1, <1>3, <1>5, <2>1, <2>2, TextIsUnique
<1>6. CASE l[n + 1].kind # "text"
  <2>1. IsTextAfter(t, l, n + 1)
    BY <1>4, <1>6 DEF IsTextAfter
  <2>2. QED
    BY <1>1, <1>3, <1>6, <2>1, TextIsUnique
<1>7. QED
  BY <1>5, <1>6

(* The chunks from one place of the text to another. *)
Between(t, u) == [i \in 1..(u - t) |-> t + i]

(* Chunks that follow one another make one run of chunks. *)
LEMMA BetweenJoins ==
    ASSUME NEW t \in Nat, NEW u \in Nat, NEW v \in Nat, t <= u, u <= v
    PROVE  Between(t, u) \o Between(u, v) = Between(t, v)
<1>1. /\ Between(t, u) \in Seq(Nat) /\ Len(Between(t, u)) = u - t
      /\ Between(u, v) \in Seq(Nat) /\ Len(Between(u, v)) = v - u
      /\ Between(t, v) \in Seq(Nat) /\ Len(Between(t, v)) = v - t
  BY DEF Between
<1>2. /\ \A i \in 1..(u - t) : Between(t, u)[i] = t + i
      /\ \A i \in 1..(v - u) : Between(u, v)[i] = u + i
      /\ \A i \in 1..(v - t) : Between(t, v)[i] = t + i
  BY DEF Between
<1> DEFINE b == Between(t, u)  c == Between(u, v)  d == Between(t, v)
<1>0. b \in Seq(Nat) /\ c \in Seq(Nat) /\ Len(b) = u - t /\ Len(c) = v - u
  BY <1>1
<1> HIDE DEF b, c, d
<1>3. /\ b \o c \in Seq(Nat) /\ Len(b \o c) = v - t
      /\ \A i \in 1..(v - t) : (b \o c)[i] = IF i <= u - t THEN b[i] ELSE c[i - (u - t)]
  <2>1. /\ b \o c \in Seq(Nat) /\ Len(b \o c) = Len(b) + Len(c)
        /\ \A i \in 1..(Len(b) + Len(c)) :
             (b \o c)[i] = IF i <= Len(b) THEN b[i] ELSE c[i - Len(b)]
    BY <1>0, ConcatProperties
  <2>2. Len(b) = u - t /\ Len(b) + Len(c) = v - t
    BY <1>0
  <2> QED
    BY ONLY <2>1, <2>2
<1>4. \A i \in 1..(v - t) : (b \o c)[i] = t + i
  BY <1>2, <1>3 DEF b, c
<1>5. \A i \in 1..(v - t) : (b \o c)[i] = d[i]
  BY <1>2, <1>4 DEF d
<1>6. d \in Seq(Nat) /\ Len(d) = v - t
  BY <1>1 DEF d
<1>7. b \o c = d
  BY <1>3, <1>5, <1>6, SeqEqual
<1>8. QED
  BY <1>7 DEF b, c, d

(* A whole text is the run from its beginning. *)
LEMMA WholeIsBetween == ASSUME NEW t \in Nat PROVE Whole(t) = Between(0, t)
BY DEF Whole, Between

(* There is nothing between a text and itself. *)
LEMMA NothingBetween == ASSUME NEW t \in Nat PROVE Between(t, t) = <<>>
BY DEF Between

-----------------------------------------------------------------------------
(* What a run of events appends to the window *)

(* Two functions that go on alike from the same beginning are alike. *)
LEMMA AlikeFromTheFirst ==
    ASSUME NEW n \in Nat, NEW F, NEW G, F[1] = G[1],
           \A i \in 2..n : F[i - 1] = G[i - 1] => F[i] = G[i]
    PROVE  \A i \in 1..n : F[i] = G[i]
<1> DEFINE X == {i \in 1..n : G[i] # F[i]}
<1>1. ASSUME X # {} PROVE FALSE
  <2>1. X \in SUBSET Nat
    OBVIOUS
  <2>2. PICK x \in X : \A y \in X : x <= y
    BY <1>1, <2>1, LeastExists
  <2>3. x \in 1..n /\ G[x] # F[x] /\ x # 1
    OBVIOUS
  <2>4. x \in 2..n /\ x - 1 \in 1..n /\ x - 1 \notin X
    BY <2>2, <2>3
  <2>5. QED
    BY <2>3, <2>4
<1>2. QED
  BY <1>1

(* The equation of the recursion in FlattenSeq *)
JoinsUp(F, seqs, n) == F[1] = seqs[1] /\ \A i \in 2..n : F[i] = F[i - 1] \o seqs[i]

(* What satisfies it is what it defines. *)
LEMMA FlattenIs ==
    ASSUME NEW seqs, NEW n \in Nat \ {0}, Len(seqs) = n, NEW F, JoinsUp(F, seqs, n)
    PROVE  FlattenSeq(seqs) = F[n]
<1> USE DEF JoinsUp
<1> DEFINE P(f) == f = [i \in 1..n |-> IF i = 1 THEN seqs[i] ELSE f[i - 1] \o seqs[i]]
<1>1. FlattenSeq(seqs) = (CHOOSE f : P(f))[n]
  BY DEF FlattenSeq
<1> DEFINE H == [i \in 1..n |-> F[i]]
<1>2. P(H)
  <2>1. ASSUME NEW i \in 1..n
        PROVE  H[i] = IF i = 1 THEN seqs[i] ELSE H[i - 1] \o seqs[i]
    <3>1. CASE i = 1
      BY <3>1
    <3>2. CASE i # 1
      <4>1. i \in 2..n /\ i - 1 \in 1..n
        BY <3>2
      <4>2. H[i] = F[i] /\ H[i - 1] = F[i - 1]
        BY <4>1
      <4>3. F[i] = F[i - 1] \o seqs[i]
        BY <4>1
      <4>4. QED
        BY <3>2, <4>2, <4>3, Zenon
    <3>3. QED
      BY <3>1, <3>2
  <2>2. QED
    BY <2>1
<1>3. PICK G : P(G) /\ FlattenSeq(seqs) = G[n]
  BY <1>1, <1>2
<1>4. F[1] = G[1]
  BY <1>3
<1>5. \A i \in 2..n : F[i - 1] = G[i - 1] => F[i] = G[i]
  <2> SUFFICES ASSUME NEW i \in 2..n, F[i - 1] = G[i - 1] PROVE F[i] = G[i]
    OBVIOUS
  <2>1. i \in 1..n /\ i # 1
    OBVIOUS
  <2>2. F[i] = F[i - 1] \o seqs[i]
    OBVIOUS
  <2>3. G[i] = G[i - 1] \o seqs[i]
    BY <1>3, <2>1
  <2>4. QED
    BY <2>2, <2>3, Zenon
<1>6. n \in Nat /\ n \in 1..n
  OBVIOUS
<1>7. \A i \in 1..n : F[i] = G[i]
  BY ONLY <1>4, <1>5, <1>6, AlikeFromTheFirst
<1>8. QED
  BY ONLY <1>3, <1>6, <1>7

(* The text of a longer part of the log is no shorter. *)
LEMMA TextGrows ==
    ASSUME NEW l \in Seq(Entry), NEW m \in 0..Len(l), NEW n \in 0..Len(l), m <= n,
           NEW t, IsTextAfter(t, l, m), NEW u, IsTextAfter(u, l, n)
    PROVE  t <= u
<1>1. Reached(l, m) \subseteq Reached(l, n)
  BY DEF Reached
<1>2. QED
  BY <1>1 DEF IsTextAfter

(* The chunks of an event lead from the text before it to the text after it. *)
LEMMA ChunksAreBetween ==
    ASSUME log \in Seq(Entry), WellFormed(log), NEW n \in 0..Len(log), n < Len(log),
           NEW t, IsTextAfter(t, log, n), NEW u, IsTextAfter(u, log, n + 1)
    PROVE  Chunks(n + 1) = Between(t, u)
<1>1. /\ t \in Texts /\ u \in Texts /\ t <= u
      /\ log[n + 1].kind = "text" => log[n + 1].id = t /\ log[n + 1].to = u
      /\ log[n + 1].kind # "text" => u = t
  BY TextGoesOn
<1>2. t \in Nat
  BY <1>1, StreamAssumption DEF Texts
<1>3. CASE log[n + 1].kind = "text"
  BY <1>1, <1>3 DEF Chunks, Between
<1>4. CASE log[n + 1].kind # "text"
  BY <1>1, <1>2, <1>4, NothingBetween DEF Chunks
<1>5. QED
  BY <1>3, <1>4

(* And those of a run, from the text before it to the text after it. *)
LEMMA RunIsBetween ==
    ASSUME log \in Seq(Entry), WellFormed(log), NEW a \in 0..Len(log), NEW n \in Nat,
           a + n <= Len(log), NEW t, IsTextAfter(t, log, a), NEW u, IsTextAfter(u, log, a + n)
    PROVE  FlattenSeq([i \in 1..n |-> Chunks(a + i)]) = Between(t, u)
<1> DEFINE seqs == [i \in 1..n |-> Chunks(a + i)]
<1>0. Len(seqs) = n
  OBVIOUS
<1>1. CASE n = 0
  <2>1. t = u
    BY <1>1, TextIsUnique
  <2>2. t \in Nat
    BY ReachedTyped DEF IsTextAfter
  <2>3. FlattenSeq(seqs) = <<>>
    BY <1>0, <1>1 DEF FlattenSeq
  <2>4. QED
    BY <2>1, <2>2, <2>3, NothingBetween
<1>2. CASE n # 0
  <2> DEFINE texts == [i \in 0..n |-> CHOOSE x \in Texts : IsTextAfter(x, log, a + i)]
             F == [i \in 1..n |-> Between(t, texts[i])]
  <2>1. ASSUME NEW i \in 0..n
        PROVE  texts[i] \in Nat /\ IsTextAfter(texts[i], log, a + i) /\ t <= texts[i]
    <3>1. a + i \in 0..Len(log) /\ a <= a + i
      OBVIOUS
    <3>2. \E x \in Texts : IsTextAfter(x, log, a + i)
      BY <3>1, TextExists
    <3>3. texts[i] \in Texts /\ IsTextAfter(texts[i], log, a + i)
      BY <3>2
    <3> HIDE DEF texts
    <3>4. t <= texts[i]
      BY <3>1, <3>3, TextGrows
    <3>5. QED
      BY <3>3, <3>4, StreamAssumption DEF Texts
  <2> HIDE DEF texts
  <2>2. texts[0] = t /\ texts[n] = u
    <3>1. a + 0 = a /\ a + n \in 0..Len(log) /\ 0 \in 0..n /\ n \in 0..n
      OBVIOUS
    <3>2. IsTextAfter(texts[0], log, a) /\ IsTextAfter(texts[n], log, a + n)
      BY <2>1, <3>1
    <3>3. QED
      BY <3>1, <3>2, TextIsUnique
  <2>3. ASSUME NEW i \in 1..n
        PROVE  texts[i - 1] <= texts[i] /\ seqs[i] = Between(texts[i - 1], texts[i])
    <3>1. /\ i - 1 \in 0..n /\ i \in 0..n
          /\ a + (i - 1) \in 0..Len(log) /\ a + i \in 0..Len(log)
          /\ a + (i - 1) <= a + i /\ a + (i - 1) < Len(log) /\ (a + (i - 1)) + 1 = a + i
      OBVIOUS
    <3>2. IsTextAfter(texts[i - 1], log, a + (i - 1)) /\ IsTextAfter(texts[i], log, a + i)
      BY <2>1, <3>1
    <3>3. texts[i - 1] <= texts[i]
      BY <3>1, <3>2, TextGrows
    <3>4. Chunks((a + (i - 1)) + 1) = Between(texts[i - 1], texts[i])
      BY <3>1, <3>2, ChunksAreBetween
    <3>5. seqs[i] = Chunks(a + i)
      OBVIOUS
    <3>6. QED
      BY <3>1, <3>3, <3>4, <3>5
  <2> HIDE DEF seqs
  <2>4. ASSUME NEW i \in 1..n
        PROVE  F[i] = IF i = 1 THEN seqs[i] ELSE F[i - 1] \o seqs[i]
    <3>1. F[i] = Between(t, texts[i])
      OBVIOUS
    <3>2. CASE i = 1
      <4>1. i - 1 = 0
        BY <3>2
      <4>2. seqs[i] = Between(texts[0], texts[i])
        BY <2>3, <4>1
      <4>3. QED
        BY <2>2, <3>1, <3>2, <4>2
    <3>3. CASE i # 1
      <4>1. i - 1 \in 1..n /\ i - 1 \in 0..n /\ i \in 0..n
        BY <3>3
      <4>2. F[i - 1] = Between(t, texts[i - 1])
        BY <4>1
      <4>3. /\ t \in Nat /\ texts[i - 1] \in Nat /\ texts[i] \in Nat
            /\ t <= texts[i - 1] /\ texts[i - 1] <= texts[i]
        <5>1. t = texts[0] /\ 0 \in 0..n
          BY <2>2
        <5>2. t \in Nat /\ texts[i - 1] \in Nat /\ texts[i] \in Nat /\ t <= texts[i - 1]
          BY <2>1, <4>1, <5>1
        <5>3. texts[i - 1] <= texts[i]
          BY <2>3, <4>1
        <5>4. QED
          BY <5>2, <5>3
      <4>4. Between(t, texts[i - 1]) \o Between(texts[i - 1], texts[i]) = Between(t, texts[i])
        BY <4>3, BetweenJoins
      <4>5. seqs[i] = Between(texts[i - 1], texts[i])
        BY <2>3
      <4>6. F[i] = F[i - 1] \o seqs[i]
        BY <3>1, <4>2, <4>4, <4>5, Zenon
      <4>7. QED
        BY <3>3, <4>6, Zenon
    <3>4. QED
      BY <3>2, <3>3
  <2>5. n \in 1..n /\ 1 \in 1..n /\ F[n] = Between(t, u)
    BY <1>2, <2>2
  <2> HIDE DEF F
  <2>6. JoinsUp(F, seqs, n)
    <3>1. F[1] = seqs[1]
      BY <2>4, <2>5
    <3>2. ASSUME NEW i \in 2..n PROVE F[i] = F[i - 1] \o seqs[i]
      <4>1. i \in 1..n /\ i # 1
        OBVIOUS
      <4>2. QED
        BY <2>4, <4>1
    <3>3. QED
      BY <3>1, <3>2 DEF JoinsUp
  <2>7. FlattenSeq(seqs) = F[n]
    <3>1. n \in Nat \ {0}
      BY <1>2
    <3>2. QED
      BY ONLY <1>0, <2>6, <3>1, FlattenIs
  <2>8. QED
    BY <2>5, <2>7 DEF seqs
<1>3. QED
  BY <1>1, <1>2

(* The run of buffered events is as long as it can be. *)
LEMMA FollowingIsBuffered ==
    ASSUME NEW c, c.applied \in Nat, Bounded(c)
    PROVE  /\ Following(c) \in 0..MaxBuffered
           /\ \A k \in 1..Following(c) : [gen |-> c.gen, seq |-> c.applied + k] \in c.buffer
<1> DEFINE e(k) == [gen |-> c.gen, seq |-> c.applied + k]
           X == {k \in 1..(MaxBuffered + 1) : e(k) \notin c.buffer}
<1>0. MaxBuffered \in Nat
  BY InboxAssumption
<1>1. X # {}
  <2> SUFFICES ASSUME X = {} PROVE FALSE
    OBVIOUS
  <2> DEFINE S == 1..(MaxBuffered + 1)
             f == [k \in S |-> e(k)]
  <2>1. f \in [S -> c.buffer]
    OBVIOUS
  <2>2. IsFiniteSet(S) /\ Cardinality(S) = MaxBuffered + 1
    BY <1>0, FS_Interval
  <2>3. IsFiniteSet(c.buffer) /\ Cardinality(c.buffer) < Cardinality(S)
    BY <1>0, <2>2, FS_CardinalityType DEF Bounded
  <2>4. \A x, y \in S : x # y => f[x] # f[y]
    <3> SUFFICES ASSUME NEW x \in S, NEW y \in S, f[x] = f[y] PROVE x = y
      OBVIOUS
    <3>1. e(x) = e(y)
      OBVIOUS
    <3>2. c.applied + x = c.applied + y
      BY <3>1
    <3>3. QED
      BY <3>2
  <2> HIDE DEF S, f
  <2>5. QED
    BY <2>1, <2>2, <2>3, <2>4, FS_PigeonHole
<1>2. X \in SUBSET Nat
  OBVIOUS
<1>3. PICK x \in X : \A y \in X : x <= y
  BY <1>1, <1>2, LeastExists
<1> DEFINE Q(n) == \A k \in 1..(n + 1) : e(k) \in c.buffer <=> k <= n
<1>4. x - 1 \in 0..MaxBuffered /\ Q(x - 1)
  <2>1. x \in 1..(MaxBuffered + 1) /\ e(x) \notin c.buffer
    OBVIOUS
  <2>2. ASSUME NEW k \in 1..x, k # x PROVE e(k) \in c.buffer
    <3>1. k \in 1..(MaxBuffered + 1) /\ k < x
      BY <1>0, <2>1, <2>2
    <3>2. k \notin X
      BY <1>3, <3>1
    <3>3. QED
      BY <3>1, <3>2
  <2> HIDE DEF e
  <2>3. QED
    BY <1>0, <2>1, <2>2
<1>5. Following(c) = CHOOSE n \in 0..MaxBuffered : Q(n)
  BY DEF Following
<1> HIDE DEF Q
<1>6. Following(c) \in 0..MaxBuffered /\ Q(Following(c))
  BY <1>4, <1>5
<1>7. QED
  BY <1>6 DEF Q

-----------------------------------------------------------------------------
(* What the window shows *)

(* The text never falls behind what the log says. *)
BoundOK == \A b \in Reached(log, Len(log)) : b <= stream.text

(* The window shows the text up to the last applied event. *)
ShowsText(c) ==
    \E t \in 0..stream.text :
        /\ c.shown = Whole(t)
        /\ c.at = "tracking" => c.applied \in 0..Len(log) /\ IsTextAfter(t, log, c.applied)
        /\ c.at = "released" => Ended /\ (turn.status = "completed" => t = stream.text)

(* Only what is durable is buffered. *)
BuffersLog(c) == \A e \in c.buffer : e.seq \in 1..Len(log)

(* An answer was true when it was given, and the end is final. *)
ReceiptOK(r) ==
    /\ r.seq \in 0..Len(log) /\ r.text \in 0..stream.text
    /\ ~r.ended => IsTextAfter(r.text, log, r.seq)
    /\ r.ended => Ended /\ r.text = stream.text

(* What may be relied on of the window c *)
ReadsRight(c) == ShowsText(c) /\ BuffersLog(c) /\ \A r \in c.reply : ReceiptOK(r)

(* The invariant of the reader *)
ReaderInv == TextInv /\ InboxInv /\ BoundOK /\ ReadsRight(client)

(* The window of d is that of c. *)
SameWindow(d, c) ==
    /\ d.at = c.at /\ d.gen = c.gen /\ d.applied = c.applied /\ d.shown = c.shown
    /\ d.buffer \subseteq c.buffer /\ d.reply \subseteq c.reply

(* A window that did not change shows what it showed. *)
LEMMA SameIsRight ==
    ASSUME NEW c, NEW d, ReadsRight(c), SameWindow(d, c)
    PROVE  ReadsRight(d)
BY DEF ReadsRight, ShowsText, BuffersLog, SameWindow

-----------------------------------------------------------------------------
(* The operations of the browser *)

(* Asking the server changes nothing that is shown. *)
LEMMA AskKeepsWindow ==
    ASSUME NEW c, Shaped(c), Timed(c)
    PROVE  Shaped(Ask(c)) /\ SameWindow(Ask(c), c)
<1> DEFINE d == [c EXCEPT !.buffering = TRUE, !.requested = TRUE]
<1>1. Shaped(d) /\ Timed(d) /\ SameWindow(d, c)
  BY DEF Shaped, Timed, SameWindow
<1>2. Shaped(Queue(d)) /\ SameWindow(Queue(d), d)
  <2> HIDE DEF d
  <2>1. QED
    BY <1>1 DEF Queue, StartFetch, Shaped, Timed, SameWindow
<1>3. CASE c.requested
  <2>1. Ask(c) = [c EXCEPT !.buffering = TRUE]
    BY <1>3 DEF Ask
  <2>2. QED
    BY <2>1 DEF Shaped, SameWindow
<1>4. CASE ~c.requested
  <2>1. Ask(c) = Queue(d)
    BY <1>4 DEF Ask
  <2> HIDE DEF d
  <2>2. QED
    BY <1>1, <1>2, <2>1 DEF SameWindow
<1>5. QED
  BY <1>3, <1>4

(* What is buffered is durable if the event is. *)
LEMMA BufferedIsRight ==
    ASSUME NEW c, Shaped(c), Bounded(c), Timed(c), ReadsRight(c),
           NEW e, e.seq \in 1..Len(log)
    PROVE  /\ Shaped(Buffered(c, e)) /\ Timed(Buffered(c, e)) /\ ReadsRight(Buffered(c, e))
           /\ Buffered(c, e).at = c.at
<1>1. CASE e \in c.buffer
  BY <1>1 DEF Buffered
<1>2. CASE e \notin c.buffer /\ Cardinality(c.buffer) >= MaxBuffered
  <2> DEFINE d == [c EXCEPT !.overflow = TRUE]
  <2>1. Shaped(d) /\ Timed(d) /\ SameWindow(d, c)
    BY DEF Shaped, Timed, SameWindow
  <2>2. Buffered(c, e) = Ask(d)
    <3>1. ~(Cardinality(c.buffer) < MaxBuffered)
      BY <1>2, FS_CardinalityType, InboxAssumption DEF Bounded
    <3>2. QED
      BY <1>2, <3>1 DEF Buffered
  <2> HIDE DEF d
  <2>3. Shaped(Ask(d)) /\ SameWindow(Ask(d), d) /\ Timed(Ask(d))
    <3>1. Timed(Ask(d))
      <4>1. CASE d.requested
        BY <2>1, <4>1 DEF Ask, Shaped, Timed
      <4>2. CASE ~d.requested
        <5> DEFINE q == [d EXCEPT !.buffering = TRUE, !.requested = TRUE]
        <5>1. Shaped(q) /\ Timed(q)
          BY <2>1 DEF Shaped, Timed
        <5>2. Ask(d) = Queue(q)
          BY <4>2 DEF Ask
        <5> HIDE DEF q
        <5>3. QED
          BY <5>1, <5>2 DEF Queue, StartFetch, Shaped, Timed
      <4>3. QED
        BY <4>1, <4>2
    <3>2. QED
      BY <2>1, <3>1, AskKeepsWindow
  <2>4. QED
    BY <2>1, <2>2, <2>3, SameIsRight DEF SameWindow
<1>3. CASE e \notin c.buffer /\ ~(Cardinality(c.buffer) >= MaxBuffered)
  <2> DEFINE d == [c EXCEPT !.buffer = c.buffer \cup {e}]
  <2>1. Buffered(c, e) = d
    <3>1. Cardinality(c.buffer) < MaxBuffered
      BY <1>3, FS_CardinalityType, InboxAssumption DEF Bounded
    <3>2. QED
      BY <1>3, <3>1 DEF Buffered
  <2>2. /\ Shaped(d) /\ Timed(d) /\ d.at = c.at /\ d.applied = c.applied /\ d.shown = c.shown
        /\ d.buffer = c.buffer \cup {e} /\ d.reply = c.reply
    BY DEF Shaped, Timed
  <2> HIDE DEF d
  <2>3. ReadsRight(d)
    BY <2>2 DEF ReadsRight, ShowsText, BuffersLog
  <2>4. QED
    BY <2>1, <2>2, <2>3
<1>4. QED
  BY <1>1, <1>2, <1>3

(* A run of durable events goes on where the window is. *)
LEMMA LiveIsRight ==
    ASSUME log \in Seq(Entry), StoreOK, BoundOK, WholeOK, stream \in StreamRecord,
           NEW c, Shaped(c), ReadsRight(c), c.at = "tracking",
           NEW n \in Nat, c.applied + n <= Len(log)
    PROVE  /\ ReadsRight(ApplyLive(c, n))
           /\ ApplyLive(c, n).at \in {"tracking", "released"}
<1> DEFINE run == [i \in 1..n |-> c.applied + i]
           more == FlattenSeq([i \in 1..n |-> Chunks(run[i])])
           now == [c EXCEPT !.applied = c.applied + n, !.shown = c.shown \o more]
<1>0. /\ WellFormed(log) /\ (~Ended => Follows(stream, log)) /\ Len(log) \in Nat
      /\ stream.text \in Nat /\ stream.text \in Texts
  BY StreamAssumption DEF StoreOK, StreamRecord, Texts
<1>1. PICK t \in 0..stream.text :
         c.shown = Whole(t) /\ c.applied \in 0..Len(log) /\ IsTextAfter(t, log, c.applied)
  BY DEF ReadsRight, ShowsText
<1>2. c.applied + n \in 0..Len(log)
  BY <1>0, <1>1
<1>3. PICK u \in Texts : IsTextAfter(u, log, c.applied + n)
  BY <1>2, TextExists
<1>4. t <= u /\ u \in Nat /\ t \in Nat /\ u <= stream.text
  <2>1. t <= u
    BY <1>1, <1>2, <1>3, TextGrows
  <2>2. u \in Reached(log, Len(log))
    BY <1>2, <1>3 DEF IsTextAfter, Reached
  <2>3. QED
    BY <1>0, <2>1, <2>2, StreamAssumption DEF BoundOK, Texts
<1>5. more = Between(t, u)
  <2>1. [i \in 1..n |-> Chunks(run[i])] = [i \in 1..n |-> Chunks(c.applied + i)]
    <3>1. \A i \in 1..n : run[i] = c.applied + i
      OBVIOUS
    <3> HIDE DEF run
    <3>2. QED
      BY <3>1
  <2>2. FlattenSeq([i \in 1..n |-> Chunks(c.applied + i)]) = Between(t, u)
    BY <1>0, <1>1, <1>3, RunIsBetween
  <2> HIDE DEF run
  <2>3. QED
    BY <2>1, <2>2
<1>6. c.shown \o more = Whole(u)
  <2>1. Between(0, t) \o Between(t, u) = Between(0, u)
    <3>1. 0 \in Nat /\ t \in Nat /\ u \in Nat /\ 0 <= t /\ t <= u
      BY <1>4
    <3> HIDE DEF more, now
    <3>2. QED
      BY ONLY <3>1, BetweenJoins
  <2>2. Whole(t) = Between(0, t) /\ Whole(u) = Between(0, u)
    BY <1>4, WholeIsBetween
  <2> HIDE DEF more
  <2>3. QED
    BY <1>1, <1>5, <2>1, <2>2, Zenon
<1>7. ApplyLive(c, n) = IF \E i \in 1..n : log[run[i]].kind = "done" THEN Release(now) ELSE now
  BY DEF ApplyLive
<1>8. /\ now.at = "tracking" /\ now.applied = c.applied + n /\ now.shown = Whole(u)
      /\ now.buffer = c.buffer /\ now.reply = c.reply
  <2> HIDE DEF more
  <2>1. QED
    BY <1>6 DEF Shaped
<1>9. CASE ~ \E i \in 1..n : log[run[i]].kind = "done"
  <2>1. ApplyLive(c, n) = now
    BY <1>7, <1>9
  <2> HIDE DEF now
  <2>2. ReadsRight(now)
    BY <1>0, <1>2, <1>3, <1>4, <1>8 DEF ReadsRight, ShowsText, BuffersLog
  <2>3. QED
    BY <1>8, <2>1, <2>2
<1>10. CASE \E i \in 1..n : log[run[i]].kind = "done"
  <2> PICK i \in 1..n : log[run[i]].kind = "done"
    BY <1>10
  <2>1. run[i] = c.applied + i /\ run[i] \in 1..Len(log)
    BY <1>0, <1>1, <1>2
  <2> HIDE DEF run
  <2>2. run[i] = Len(log) /\ Ended
    BY <1>0, <2>1 DEF WellFormed, Follows
  <2>3. c.applied + n = Len(log)
    BY <1>1, <1>2, <2>1, <2>2
  <2>4. turn.status = "completed" => u = stream.text
    BY <1>0, <1>2, <1>3, <2>3, TextIsUnique DEF WholeOK
  <2>5. ApplyLive(c, n) = Release(now)
    BY <1>7, <1>10
  <2> HIDE DEF now
  <2>6. /\ Release(now).at = "released" /\ Release(now).shown = Whole(u)
        /\ Release(now).buffer = {} /\ Release(now).reply = {}
    BY <1>8 DEF Release, Unknown
  <2>7. ReadsRight(Release(now))
    BY <1>0, <1>4, <2>2, <2>4, <2>6 DEF ReadsRight, ShowsText, BuffersLog
  <2>8. QED
    BY <2>5, <2>6, <2>7
<1>11. QED
  BY <1>9, <1>10

(* What the operations of the browser need to know of the store. *)
LEMMA ReaderKnows ==
    ASSUME ReaderInv
    PROVE  /\ log \in Seq(Entry) /\ StoreOK /\ BoundOK /\ WholeOK /\ stream \in StreamRecord
           /\ stream.text \in Nat /\ Len(log) \in Nat
           /\ Shaped(client) /\ Bounded(client) /\ ReadsRight(client)
           /\ Tracking => Waiting(client) /\ Timed(client)
<1>1. Typed /\ InboxInv
  BY DEF ReaderInv, TextInv, LogInv, StreamInv
<1>2. stream.text \in Nat
  BY <1>1, StreamAssumption DEF Typed, StreamRecord, Texts
<1>3. QED
  BY <1>1, <1>2 DEF ReaderInv, TextInv, LogInv, Typed, InboxInv, Waiting

(* What remains of the buffer was in it. *)
LEMMA SettledKeepsWindow ==
    ASSUME NEW c, NEW overflow, Shaped(c), Timed(c)
    PROVE  SameWindow(Answered(Settled(c, overflow)), c)
<1> DEFINE rest == {e \in c.buffer : ~Stale(c, e)}
           kept == [c EXCEPT !.buffer = rest]
           open == [kept EXCEPT !.buffering = FALSE]
<1>1. rest \subseteq c.buffer
  OBVIOUS
<1> HIDE DEF rest
<1>2. /\ Shaped(kept) /\ Timed(kept) /\ SameWindow(kept, c)
      /\ Shaped(open) /\ SameWindow(open, c)
  BY <1>1 DEF Shaped, Timed, SameWindow
<1>3. Settled(c, overflow) \in {open, Ask(kept)}
  BY DEF Settled, rest
<1> HIDE DEF kept, open
<1>4. Shaped(Ask(kept)) /\ SameWindow(Ask(kept), c)
  BY <1>2, AskKeepsWindow DEF SameWindow
<1>5. ASSUME NEW s, Shaped(s), SameWindow(s, c) PROVE SameWindow(Answered(s), c)
  BY <1>5 DEF Answered, Shaped, SameWindow
<1>6. QED
  BY <1>2, <1>3, <1>4, <1>5

(* The answer of the server shows what was stored when it was given. *)
LEMMA TakenIsRight ==
    ASSUME ReaderInv, NEW c, Shaped(c), c.at = "tracking", ReadsRight(c), NEW r \in c.reply
    PROVE  /\ ~r.ended => ReadsRight(Taken(c, r))
           /\ r.ended => ReadsRight(Release(Taken(c, r)))
<1> DEFINE d == Taken(c, r)
<1>1. /\ ReceiptOK(r) /\ BuffersLog(c) /\ stream.text \in Nat
  BY ReaderKnows DEF ReadsRight
<1>2. /\ d.at = "tracking" /\ d.applied = r.seq /\ d.shown = Whole(r.text)
      /\ d.buffer = c.buffer /\ d.reply = {}
  BY DEF Taken, Shaped
<1> HIDE DEF d
<1>3. ASSUME ~r.ended PROVE ReadsRight(d)
  BY <1>1, <1>2, <1>3 DEF ReadsRight, ShowsText, BuffersLog, ReceiptOK
<1>4. ASSUME r.ended PROVE ReadsRight(Release(d))
  <2>1. /\ Release(d).at = "released" /\ Release(d).shown = Whole(r.text)
        /\ Release(d).buffer = {} /\ Release(d).reply = {}
    BY <1>2 DEF Release, Unknown
  <2>2. r.text = stream.text /\ Ended /\ r.text \in 0..stream.text
    BY <1>1, <1>4 DEF ReceiptOK
  <2>3. QED
    BY <2>1, <2>2 DEF ReadsRight, ShowsText, BuffersLog
<1>5. QED
  BY <1>3, <1>4 DEF d

(* The buffered events that follow are durable. *)
LEMMA FollowingFits ==
    ASSUME NEW c, Bounded(c), Len(log) \in Nat, c.applied \in 0..Len(log), BuffersLog(c)
    PROVE  Following(c) \in Nat /\ c.applied + Following(c) <= Len(log)
<1> DEFINE n == Following(c)
<1>1. c.applied \in Nat
  OBVIOUS
<1>2. /\ n \in 0..MaxBuffered
      /\ \A k \in 1..n : [gen |-> c.gen, seq |-> c.applied + k] \in c.buffer
  BY <1>1, FollowingIsBuffered
<1> HIDE DEF n
<1>3. n \in Nat
  BY <1>2, InboxAssumption
<1>4. CASE n = 0
  BY <1>1, <1>4 DEF n
<1>5. CASE n # 0
  <2>1. n \in 1..n
    BY <1>3, <1>5
  <2>2. [gen |-> c.gen, seq |-> c.applied + n] \in c.buffer
    BY <1>2, <2>1
  <2>3. c.applied + n \in 1..Len(log)
    BY <2>2 DEF BuffersLog
  <2>4. QED
    BY <1>3, <2>3 DEF n
<1>6. QED
  BY <1>4, <1>5

(* ReceiveReceipt: the answer, and the buffered events that follow it. *)
LEMMA ReceiptReads ==
    ASSUME ReaderInv, ReceiveReceipt
    PROVE  ReadsRight(client')
<1>0. /\ Tracking /\ Shaped(client) /\ Bounded(client) /\ Waiting(client) /\ Timed(client)
      /\ ReadsRight(client) /\ log \in Seq(Entry) /\ StoreOK /\ BoundOK /\ WholeOK
      /\ stream \in StreamRecord /\ Len(log) \in Nat
  BY ReaderKnows DEF ReceiveReceipt
<1> PICK r \in client.reply :
         IF r.asked # client.gen
         THEN client' = TryAgain(client)
         ELSE \E taken \in {Taken(client, r)} :
              \E now \in {ApplyLive(taken, Following(taken))} :
                client' = CASE r.ended -> Release(taken)
                            [] ~r.ended /\ now.at = "released" -> now
                            [] ~r.ended /\ now.at = "tracking" ->
                                 Answered(Settled(now, client.overflow))
  BY DEF ReceiveReceipt
<1>1. CASE r.asked # client.gen
  <2>1. client' = TryAgain(client)
    BY <1>1
  <2>2. SameWindow(TryAgain(client), client)
    BY <1>0 DEF TryAgain, Shaped, SameWindow
  <2>3. QED
    BY <1>0, <2>1, <2>2, SameIsRight
<1>2. CASE ~(r.asked # client.gen)
  <2> DEFINE taken == Taken(client, r)
             n == Following(taken)
             now == ApplyLive(taken, n)
  <2>1. client' = CASE r.ended -> Release(taken)
                    [] ~r.ended /\ now.at = "released" -> now
                    [] ~r.ended /\ now.at = "tracking" ->
                         Answered(Settled(now, client.overflow))
    BY <1>2
  <2>2. /\ Shaped(taken) /\ Bounded(taken) /\ Timed(taken) /\ taken.at = "tracking"
        /\ taken.applied = r.seq /\ taken.buffer = client.buffer
    BY <1>0 DEF Taken, Shaped, Bounded, Timed, Tracking
  <2>3. /\ ~r.ended => ReadsRight(taken)
        /\ r.ended => ReadsRight(Release(taken))
    BY <1>0, TakenIsRight DEF Tracking
  <2>4. r.seq \in 0..Len(log) /\ BuffersLog(client)
    BY <1>0 DEF ReadsRight, ReceiptOK
  <2> HIDE DEF taken
  <2>5. n \in Nat /\ taken.applied + n <= Len(log)
    BY <1>0, <2>2, <2>4, FollowingFits DEF BuffersLog
  <2> HIDE DEF n
  <2>6. CASE r.ended
    BY <2>1, <2>3, <2>6
  <2>7. ASSUME ~r.ended
        PROVE  /\ ReadsRight(now) /\ now.at \in {"tracking", "released"}
    BY <1>0, <2>2, <2>3, <2>5, <2>7, LiveIsRight
  <2>8. Shaped(now) /\ (now.at = "released" \/ Timed(now))
    BY <2>2, LiveWaits DEF Timed
  <2> HIDE DEF now
  <2>9. CASE ~r.ended /\ now.at = "released"
    BY <2>1, <2>7, <2>9
  <2>10. CASE ~r.ended /\ now.at = "tracking"
    <3>1. client' = Answered(Settled(now, client.overflow))
      BY <2>1, <2>10
    <3>2. SameWindow(Answered(Settled(now, client.overflow)), now)
      BY <2>8, <2>10, SettledKeepsWindow
    <3>3. QED
      BY <2>7, <2>10, <3>1, <3>2, SameIsRight
  <2>11. QED
    BY <2>6, <2>7, <2>9, <2>10
<1>3. QED
  BY <1>1, <1>2

(* The events and hints of this turn. *)
Heard == [gen : {turn.gen}, seq : 1..Len(log)]

(* Every step of the browser shows no more and no less than it knows. *)
LEMMA BrowserReads ==
    ASSUME ReaderInv,
           \/ UNCHANGED client \/ ChannelNotice \/ ServerAnswers \/ FetchFails
           \/ TimerFires \/ ReceiveReceipt
           \/ \E m \in Heard : ReceiveHint(m) \/ ReceiveEvent(m)
           \/ \E gen : Adopt(gen)
    PROVE  ReadsRight(client')
<1>0. /\ Shaped(client) /\ Bounded(client) /\ ReadsRight(client) /\ log \in Seq(Entry)
      /\ StoreOK /\ BoundOK /\ WholeOK /\ stream \in StreamRecord /\ Len(log) \in Nat
      /\ stream.text \in Nat
      /\ Tracking => Waiting(client) /\ Timed(client)
  BY ReaderKnows
<1>1. CASE UNCHANGED client
  BY <1>0, <1>1
<1>2. CASE ChannelNotice \/ \E m : ReceiveHint(m)
  <2>1. client' = Ask(client) /\ Timed(client)
    BY <1>0, <1>2 DEF ChannelNotice, ReceiveHint
  <2>2. QED
    BY <1>0, <2>1, AskKeepsWindow, SameIsRight
<1>3. CASE \E m \in Heard : ReceiveEvent(m)
  <2> PICK m \in Heard : ReceiveEvent(m)
    BY <1>3
  <2>0. m.seq \in 1..Len(log)
    BY DEF Heard
  <2>1. /\ client.at = "tracking" /\ Timed(client)
        /\ client' = IF InOrder(client, m) THEN ApplyLive(client, 1)
                                           ELSE Ask(Buffered(client, m))
    BY <1>0 DEF ReceiveEvent, Tracking
  <2>2. CASE InOrder(client, m)
    <3>1. client.applied + 1 <= Len(log)
      BY <1>0, <2>0, <2>2 DEF InOrder
    <3>2. ReadsRight(ApplyLive(client, 1))
      BY <1>0, <2>1, <3>1, LiveIsRight
    <3>3. QED
      BY <2>1, <2>2, <3>2
  <2>3. CASE ~InOrder(client, m)
    <3>1. /\ Shaped(Buffered(client, m)) /\ Timed(Buffered(client, m))
          /\ ReadsRight(Buffered(client, m))
      BY <1>0, <2>0, <2>1, BufferedIsRight
    <3>2. QED
      BY <2>1, <2>3, <3>1, AskKeepsWindow, SameIsRight
  <2>4. QED
    BY <2>2, <2>3
<1>4. CASE \E gen : Adopt(gen)
  <2> PICK gen : Adopt(gen)
    BY <1>4
  <2> DEFINE u == [Unknown EXCEPT !.at = "tracking", !.gen = gen]
  <2>1. /\ Shaped(u) /\ Timed(u) /\ u.at = "tracking" /\ u.applied = 0 /\ u.shown = <<>>
        /\ u.buffer = {} /\ u.reply = {}
    BY DEF Unknown, Shaped, Timed
  <2>2. client' = Ask(u)
    BY DEF Adopt
  <2> HIDE DEF u
  <2>3. Whole(0) = <<>> /\ IsTextAfter(0, log, 0)
    BY TextAtFirst DEF Whole
  <2>4. ReadsRight(u)
    BY <1>0, <2>1, <2>3 DEF ReadsRight, ShowsText, BuffersLog
  <2>5. QED
    BY <2>1, <2>2, <2>4, AskKeepsWindow, SameIsRight
<1>5. CASE ServerAnswers
  <2> PICK f \in client.flight : client' = [client EXCEPT !.reply = {Snapshot(f.gen)}]
    BY <1>5 DEF ServerAnswers
  <2>2. ReceiptOK(Snapshot(f.gen))
    <3>1. /\ Snapshot(f.gen).seq = Len(log) /\ Snapshot(f.gen).text = stream.text
          /\ Snapshot(f.gen).ended = Ended
      BY DEF Snapshot
    <3>2. ~Ended => IsTextAfter(stream.text, log, Len(log))
      BY <1>0 DEF StoreOK, Follows
    <3>3. Snapshot(f.gen).ended <=> Ended
      BY <3>1
    <3>4. Len(log) \in 0..Len(log) /\ stream.text \in 0..stream.text
      BY <1>0
    <3>5. QED
      BY <3>1, <3>2, <3>3, <3>4 DEF ReceiptOK
  <2> HIDE DEF Snapshot
  <2>3. /\ client'.at = client.at /\ client'.applied = client.applied
        /\ client'.shown = client.shown /\ client'.buffer = client.buffer
        /\ client'.reply = {Snapshot(f.gen)}
    BY <1>0 DEF Shaped
  <2>4. QED
    BY <1>0, <2>2, <2>3 DEF ReadsRight, ShowsText, BuffersLog
<1>6. CASE FetchFails
  <2>1. SameWindow(TryAgain(client), client) /\ client' = TryAgain(client)
    BY <1>0, <1>6 DEF FetchFails, TryAgain, Shaped, SameWindow
  <2>2. QED
    BY <1>0, <2>1, SameIsRight
<1>7. CASE TimerFires
  <2> DEFINE c == [client EXCEPT !.timer = "none"]
  <2>1. Shaped(c) /\ Timed(c) /\ SameWindow(c, client)
    BY <1>0 DEF Shaped, Timed, SameWindow
  <2>2. client' \in {StartFetch(c), Ask(c)}
    BY <1>7 DEF TimerFires
  <2> HIDE DEF c
  <2>3. SameWindow(StartFetch(c), c)
    BY <2>1 DEF StartFetch, Shaped, SameWindow
  <2>4. SameWindow(Ask(c), c)
    BY <2>1, AskKeepsWindow
  <2>5. ReadsRight(c)
    BY <1>0, <2>1, SameIsRight
  <2>6. QED
    BY <2>2, <2>3, <2>4, <2>5, SameIsRight
<1>8. CASE ReceiveReceipt
  BY <1>8, ReceiptReads
<1>9. QED
  BY <1>1, <1>2, <1>3, <1>4, <1>5, <1>6, <1>7, <1>8

-----------------------------------------------------------------------------
(* The operations of the store *)

(* Whatever a step does, the log and the text grow, and not after the end. *)
LEMMA StoreGrows ==
    ASSUME TextInv, [Next]_vars
    PROVE  /\ log \in Seq(Entry) /\ log' \in Seq(Entry) /\ Extends(log', log)
           /\ stream.text \in Nat /\ stream'.text \in Nat /\ stream.text <= stream'.text
           /\ Ended => Ended' /\ turn'.status = turn.status /\ stream'.text = stream.text
<1>1. LogInv /\ StreamInv' /\ FitsOK /\ Typed
  BY NextKeepsLog DEF TextInv, LogInv, StreamInv
<1>2. /\ log \in Seq(Entry) /\ log' \in Seq(Entry) /\ stream \in StreamRecord
      /\ stream' \in StreamRecord /\ exec \in Executor
  BY <1>1 DEF StreamInv, Typed
<1>3. stream.text \in Nat /\ stream'.text \in Nat
  BY <1>2, StreamAssumption DEF StreamRecord, Texts
<1>4. CASE StepStands
  BY <1>2, <1>3, <1>4 DEF StepStands, StoreStands, Extends, Ended
<1>5. CASE StepEnds
  <2>1. ~Ended /\ Ended' /\ Extends(log', log)
    BY <1>5 DEF StepEnds, StoreEnds
  <2>2. exec.pc = "finalize" => stream.text <= exec.text
    BY <1>1, <2>1 DEF FitsOK, Reach
  <2>3. stream'.text = stream.text \/ (exec.pc = "finalize" /\ stream'.text = exec.text)
    BY <1>5 DEF StepEnds
  <2>4. stream.text <= stream'.text
    BY <1>3, <2>2, <2>3
  <2>5. QED
    BY <1>2, <1>3, <2>1, <2>4
<1>6. CASE StepWrites
  <2>1. ~Ended /\ Extends(log', log)
    BY <1>6 DEF StepWrites
  <2>2. PICK op \in Write : Fresh(op, log, stream.text) /\ stream'.text = op.to
    BY <1>6 DEF StepWrites
  <2>3. stream.text <= stream'.text
    BY <1>3, <2>2 DEF Fresh, Write
  <2>4. QED
    BY <1>2, <1>3, <2>1, <2>3
<1>7. QED
  BY <1>1, <1>4, <1>5, <1>6, StoreSteps

(* The text stays ahead of the log. *)
LEMMA BoundKept ==
    ASSUME TextInv, BoundOK, [Next]_vars
    PROVE  BoundOK'
<1>1. /\ log \in Seq(Entry) /\ log' \in Seq(Entry) /\ Extends(log', log)
      /\ stream.text \in Nat /\ stream'.text \in Nat /\ stream.text <= stream'.text
  BY StoreGrows
<1>2. LogInv /\ StoreOK'
  BY NextKeepsLog DEF TextInv, LogInv
<1>3. CASE ~Ended'
  BY <1>2, <1>3 DEF StoreOK, Follows, IsTextAfter, BoundOK
<1>4. CASE StepStands
  BY <1>4 DEF StepStands, StoreStands, BoundOK
<1>5. CASE StepEnds
  <2>1. \A i \in (Len(log) + 1)..Len(log') : log'[i].kind # "text"
    BY <1>5 DEF StepEnds, StoreEnds
  <2>2. \A j \in 1..Len(log') :
          log'[j].kind = "text" => j \in 1..Len(log) /\ log'[j] = log[j]
    BY <1>1, <2>1 DEF Extends
  <2>3. Reached(log', Len(log')) \subseteq Reached(log, Len(log))
    BY <2>2 DEF Reached
  <2>4. \A b \in Reached(log', Len(log')) : b \in Nat /\ b <= stream.text
    BY <1>1, <2>3, ReachedTyped DEF BoundOK
  <2>5. QED
    BY <1>1, <2>4 DEF BoundOK
<1>6. CASE StepWrites /\ Ended'
  BY <1>6 DEF StepWrites, Ended
<1>7. QED
  BY <1>2, <1>3, <1>4, <1>5, <1>6, StoreSteps

(* What the window shows stays true while the store goes on. *)
LEMMA StoreStepReads ==
    ASSUME TextInv, ReadsRight(client), [Next]_vars, client' = client
    PROVE  ReadsRight(client)'
<1>1. /\ log \in Seq(Entry) /\ log' \in Seq(Entry) /\ Extends(log', log)
      /\ stream.text \in Nat /\ stream'.text \in Nat /\ stream.text <= stream'.text
      /\ Ended => Ended' /\ turn'.status = turn.status /\ stream'.text = stream.text
  BY StoreGrows
<1>2. /\ Len(log) \in Nat /\ Len(log') \in Nat /\ Len(log) <= Len(log')
      /\ 0..stream.text \subseteq 0..stream'.text
      /\ 0..Len(log) \subseteq 0..Len(log') /\ 1..Len(log) \subseteq 1..Len(log')
  BY <1>1 DEF Extends
<1>3. ASSUME NEW n \in 0..Len(log), NEW t, IsTextAfter(t, log, n)
      PROVE  IsTextAfter(t, log', n)
  <2>1. Reached(log', n) = Reached(log, n)
    BY <1>1, ReachedKept
  <2>2. QED
    BY <1>3, <2>1 DEF IsTextAfter
<1>4. ShowsText(client)'
  <2>1. PICK t \in 0..stream.text :
          /\ client.shown = Whole(t)
          /\ client.at = "tracking" =>
               client.applied \in 0..Len(log) /\ IsTextAfter(t, log, client.applied)
          /\ client.at = "released" =>
               Ended /\ (turn.status = "completed" => t = stream.text)
    BY DEF ReadsRight, ShowsText
  <2>2. /\ t \in 0..stream'.text /\ client'.shown = Whole(t)
        /\ client'.at = "tracking" =>
             client'.applied \in 0..Len(log') /\ IsTextAfter(t, log', client'.applied)
        /\ client'.at = "released" =>
             Ended' /\ (turn'.status = "completed" => t = stream'.text)
    BY <1>1, <1>2, <1>3, <2>1
  <2>3. Whole(t)' = Whole(t)
    BY DEF Whole
  <2>4. QED
    BY <2>2, <2>3 DEF ShowsText
<1>5. BuffersLog(client)'
  BY <1>2 DEF ReadsRight, BuffersLog
<1>6. \A r \in client'.reply : ReceiptOK(r)'
  <2> TAKE r \in client'.reply
  <2>1. ReceiptOK(r)
    BY DEF ReadsRight
  <2>2. /\ r.seq \in 0..Len(log') /\ r.text \in 0..stream'.text
        /\ ~r.ended => IsTextAfter(r.text, log', r.seq)
        /\ r.ended => Ended' /\ r.text = stream'.text
    BY <1>1, <1>2, <1>3, <2>1 DEF ReceiptOK
  <2>3. QED
    BY <2>2 DEF ReceiptOK
<1>7. QED
  BY <1>4, <1>5, <1>6 DEF ReadsRight

(* A step is the browser's or leaves the browser alone. *)
LEMMA BrowserOrStore ==
    ASSUME SentIsOfThisTurn, [Next]_vars
    PROVE  \/ UNCHANGED client
           \/ /\ UNCHANGED storeVars
              /\ \/ ChannelNotice \/ ServerAnswers \/ FetchFails
                 \/ TimerFires \/ ReceiveReceipt
                 \/ sent # {} /\ \E m \in Heard : ReceiveHint(m) \/ ReceiveEvent(m)
                 \/ \E gen : Adopt(gen)
<1>1. CASE ChannelDelivers
  <2> PICK m \in sent : IF m.hint THEN ReceiveHint([gen |-> m.gen, seq |-> m.seq])
                                  ELSE ReceiveEvent([gen |-> m.gen, seq |-> m.seq])
    BY <1>1 DEF ChannelDelivers
  <2> DEFINE e == [gen |-> m.gen, seq |-> m.seq]
  <2>1. e \in Heard
    BY DEF SentIsOfThisTurn, Heard
  <2>2. ReceiveHint(e) \/ ReceiveEvent(e)
    OBVIOUS
  <2>3. UNCHANGED storeVars
    BY <1>1 DEF ChannelDelivers
  <2> HIDE DEF e
  <2>4. QED
    BY <2>1, <2>2, <2>3
<1>2. CASE ChannelBreaks \/ Browser \/ BrowserFails \/ BrowserIsRefused
  BY <1>2 DEF ChannelBreaks, Browser, BrowserFails, BrowserIsRefused
<1>3. CASE \/ Provides \/ Controls \/ Concludes \/ (Writes /\ UNCHANGED <<client, exec, closing>>)
           \/ Crash \/ Sweep \/ SweepReads \/ SweepCloses \/ UserCancels \/ UNCHANGED vars
  BY <1>3
     DEF vars, Provides, Controls, Concludes, EmitText, EmitSemantic,
         FinishAnswer, Overload, Stop, Claim, Prepare, Begin, Recover, Finalize,
         FinalizeFails, DeliverNext, TerminalBroadcasts, TerminalBroadcastFails,
         TerminalIsAcknowledged, Settle, Crash, Sweep, SweepReads, SweepCloses, UserCancels
<1>4. QED
  BY <1>1, <1>2, <1>3 DEF Next

(* Every step keeps what the browser shows right. *)
LEMMA ReaderKept == ReaderInv /\ [Next]_vars => ReaderInv'
<1> SUFFICES ASSUME ReaderInv, [Next]_vars PROVE ReaderInv'
  OBVIOUS
<1>1. TextInv' /\ InboxInv' /\ BoundOK'
  BY TextKept, InboxKept, BoundKept DEF ReaderInv
<1>2. SentIsOfThisTurn
  BY DEF ReaderInv, TextInv, LogInv, StreamInv
<1>3. CASE UNCHANGED client
  BY <1>1, <1>3, StoreStepReads DEF ReaderInv
<1>4. ASSUME UNCHANGED storeVars, ReadsRight(client') PROVE ReadsRight(client)'
  BY <1>4 DEF storeVars, ReadsRight, ShowsText, BuffersLog, ReceiptOK, IsTextAfter,
     Reached, Ended, Whole
<1>5. QED
  BY <1>1, <1>2, <1>3, <1>4, BrowserOrStore, BrowserReads DEF ReaderInv

(* At first there is nothing to show. *)
LEMMA ReaderStarts == Init => ReaderInv
<1> SUFFICES ASSUME Init PROVE ReaderInv
  OBVIOUS
<1>1. TextInv
  BY TextStarts
<1>2. InboxInv
  BY FS_EmptySet, InboxAssumption
     DEF Init, ClientInit, Unknown, InboxInv, Shaped, Bounded, Tracking
<1>3. log = <<>> /\ stream.text = 0 /\ Len(log) = 0
  BY DEF Init, StoreInit, EmptyStream
<1>4. BoundOK
  BY <1>3 DEF BoundOK, Reached
<1>5. ReadsRight(client)
  <2>1. Whole(0) = <<>>
    BY DEF Whole
  <2>2. client.shown = <<>> /\ client.at = "away" /\ client.buffer = {} /\ client.reply = {}
    BY DEF Init, ClientInit, Unknown
  <2>3. QED
    BY <1>3, <2>1, <2>2 DEF ReadsRight, ShowsText, BuffersLog
<1>6. QED
  BY <1>1, <1>2, <1>4, <1>5 DEF ReaderInv

(***************************************************************************)
(* The inductive invariant of the reader: the window shows the text up to  *)
(* the last applied event, only what is durable is buffered, and an answer *)
(* of the server was true when it was given.                               *)
(***************************************************************************)
THEOREM ReaderInvariant == Spec => []ReaderInv
BY ReaderStarts, ReaderKept, PTL DEF Spec

(* What the window shows is the beginning of what is stored, and an end that *)
(* it knows of is one.                                                       *)
Seen ==
    /\ Len(client.shown) \in 0..stream.text
    /\ client.shown = Whole(Len(client.shown))
    /\ client.at = "released" =>
         Ended /\ (turn.status = "completed" => Len(client.shown) = stream.text)

(* This is what the invariant says of the window. *)
LEMMA ReaderSees == ReaderInv => Seen
<1> SUFFICES ASSUME ReaderInv PROVE Seen
  OBVIOUS
<1>1. PICK t \in 0..stream.text :
        /\ client.shown = Whole(t)
        /\ client.at = "released" => Ended /\ (turn.status = "completed" => t = stream.text)
  BY DEF ReaderInv, ReadsRight, ShowsText
<1>2. Len(Whole(t)) = t
  <2>1. t \in Nat
    BY ReaderKnows
  <2>2. QED
    BY <2>1 DEF Whole
<1>3. QED
  BY <1>1, <1>2 DEF Seen

(***************************************************************************)
(* The window shows a prefix of what is stored: no chunk twice, none left  *)
(* out, however events and answers are lost, repeated or reordered and     *)
(* whenever the live events take over from an answer of the server.        *)
(***************************************************************************)
THEOREM PrefixIsShown == Spec => []ShownIsPrefix
<1>1. ReaderInv => ShownIsPrefix
  BY ReaderSees, ReaderKnows DEF Seen, ShownIsPrefix
<1>2. QED
  BY <1>1, ReaderInvariant, PTL

(***************************************************************************)
(* Once the browser lets go of a completed turn it shows all of its text.  *)
(***************************************************************************)
THEOREM CompletedIsShownWhole == Spec => []CompletedIsWhole
<1>1. ReaderInv => CompletedIsWhole
  BY ReaderSees DEF Seen, CompletedIsWhole
<1>2. QED
  BY <1>1, ReaderInvariant, PTL

-----------------------------------------------------------------------------
(* The refinement *)

(* Nothing is shown, and nothing is known, at first. *)
LEMMA InitIsUnread == Init => T!Init
<1> SUFFICES ASSUME Init PROVE T!Init
  OBVIOUS
<1>1. stream.text = 0 /\ ~Ended /\ client.shown = <<>> /\ client.at = "away"
  BY DEF Init, StoreInit, EmptyStream, ClientInit, Unknown, Ended, Terminal
<1>2. Ended = FALSE /\ (client.at = "released") = FALSE /\ Len(client.shown) = 0
  BY <1>1 DEF Ended
<1>3. QED
  BY <1>1, <1>2 DEF T!Init

(* A step of the store is a growth of the text or the end of the turn. *)
LEMMA StoreIsTranscript ==
    ASSUME ReaderInv, [Next]_vars, client' = client
    PROVE  [T!Next]_T!transcriptVars
<1> DEFINE read == Len(client.shown)
           knows == client.at = "released"
<1>1. /\ stream.text \in Nat /\ stream'.text \in Nat /\ stream.text <= stream'.text
      /\ Ended => Ended' /\ turn'.status = turn.status /\ stream'.text = stream.text
  BY StoreGrows DEF ReaderInv
<1>2. stream'.text \in 0..MaxText /\ MaxText \in Nat
  <2>1. TextInv'
    BY TextKept DEF ReaderInv
  <2>2. QED
    BY <2>1, StreamAssumption DEF TextInv, LogInv, StreamInv, Typed, StreamRecord, Texts
<1>3. Ended \in BOOLEAN /\ Ended' \in BOOLEAN
  BY DEF Ended
<1>4. CASE ~Ended /\ Ended'
  <2>1. stream'.text \in stream.text..MaxText
    BY <1>1, <1>2
  <2>2. T!End
    BY <1>3, <1>4, <2>1 DEF T!End
  <2>3. QED
    BY <2>2 DEF T!Next
<1>5. CASE Ended' = Ended /\ stream'.text = stream.text
  BY <1>5 DEF T!transcriptVars
<1>6. CASE ~Ended /\ Ended' = Ended /\ stream'.text # stream.text
  <2>1. stream'.text \in (stream.text + 1)..MaxText
    BY <1>1, <1>2, <1>6
  <2>2. T!Grow
    BY <1>6, <2>1 DEF T!Grow
  <2>3. QED
    BY <2>2 DEF T!Next
<1>7. Ended /\ Ended' => Ended' = Ended /\ stream'.text = stream.text
  BY <1>1, <1>3
<1>8. QED
  BY <1>1, <1>3, <1>4, <1>5, <1>6, <1>7

(* A step of the browser reads, or learns of the end, and then it rests. *)
LEMMA BrowserIsTranscript ==
    ASSUME ReaderInv, Seen', UNCHANGED storeVars, client.at # "released"
    PROVE  [T!Next]_T!transcriptVars
<1>1. /\ Len(client'.shown) \in 0..stream'.text
      /\ client'.at = "released" => Ended'
  BY DEF Seen
<1>2. stream'.text = stream.text /\ Ended' = Ended
  BY DEF storeVars, Ended
<1>3. CASE client'.at = "released"
  <2>1. Ended
    BY <1>1, <1>2, <1>3
  <2>2. (client.at = "released") = FALSE /\ (client'.at = "released") = TRUE
    BY <1>3
  <2>3. T!Learn
    BY <1>1, <1>2, <2>1, <2>2 DEF T!Learn
  <2>4. QED
    BY <2>3 DEF T!Next
<1>4. CASE client'.at # "released"
  <2>1. (client'.at = "released") = (client.at = "released")
    BY <1>4
  <2>2. T!Read
    BY <1>1, <1>2, <2>1 DEF T!Read
  <2>3. QED
    BY <2>2 DEF T!Next
<1>5. QED
  BY <1>3, <1>4

(* Every step of the system is one of the transcript, or unseen. *)
LEMMA NextIsTranscript ==
    ReaderInv /\ Seen' /\ [Next]_vars => [T!Next]_T!transcriptVars
<1> SUFFICES ASSUME ReaderInv, Seen', [Next]_vars
             PROVE  [T!Next]_T!transcriptVars
  OBVIOUS
<1>1. SentIsOfThisTurn
  BY DEF ReaderInv, TextInv, LogInv, StreamInv
<1>2. CASE UNCHANGED client
  BY <1>2, StoreIsTranscript
<1>3. CASE /\ UNCHANGED storeVars
           /\ \/ ChannelNotice \/ ServerAnswers \/ FetchFails
              \/ TimerFires \/ ReceiveReceipt
              \/ \E m \in Heard : ReceiveHint(m) \/ ReceiveEvent(m)
              \/ \E gen : Adopt(gen)
  <2>1. client.at # "released"
    BY <1>3 DEF ChannelNotice, ServerAnswers, FetchFails, TimerFires, ReceiveReceipt,
       ReceiveHint, ReceiveEvent, Adopt, Tracking
  <2>2. QED
    BY <1>1, <1>3, <2>1, BrowserIsTranscript
<1>4. QED
  BY <1>1, <1>2, <1>3, BrowserOrStore

(***************************************************************************)
(* The store, the publisher, the executor and the browser together         *)
(* implement Transcript: the stored text only grows and not after the end, *)
(* the reader sees no more than is stored, and learns of the end once it   *)
(* has happened.                                                           *)
(***************************************************************************)
THEOREM TranscriptIsImplemented == Spec => ImplementsTranscript
BY InitIsUnread, NextIsTranscript, ReaderSees, ReaderInvariant, PTL
   DEF Spec, ImplementsTranscript, T!Spec

-----------------------------------------------------------------------------
(* What is sent and what is late *)

(* A message, but for its bounds *)
MessageOf == [hint : BOOLEAN, gen : Nat, seq : Nat]

(* The publisher sends messages of the turn. *)
LEMMA SentTyped ==
    ASSUME Typed, sent \subseteq MessageOf, [Next]_vars
    PROVE  sent' \subseteq MessageOf
<1> USE DEF storeVars, publisherVars, workerVars
<1>0. turn.gen \in Nat /\ io.ans.seq \in Nat /\ term.seq \in Nat /\ exec.next \in Nat
  BY StreamAssumption DEF Typed, TurnRecord, IOState, Answer, TermState, Executor
<1>1. ASSUME NEW n \in Nat, \/ sent' = sent \cup {Event(n)}
                            \/ sent' \in {sent, sent \cup {Event(n)}}
                            \/ MaybeHint(n)
      PROVE  sent' \subseteq MessageOf
  <2>1. Event(n) \in MessageOf /\ Hint(n) \in MessageOf
    BY <1>0 DEF Event, Hint, MessageOf
  <2>2. QED
    BY <1>1, <2>1 DEF MaybeHint
<1>2. CASE sent' = sent
  BY <1>2
<1>3. CASE Provides \/ Controls
  BY <1>2, <1>3 DEF Provides, EmitText, EmitSemantic, FinishAnswer, Overload, Stop, Controls,
     Claim, Prepare, Begin, Recover, Finalize, FinalizeFails
<1>4. CASE Concludes
  BY <1>0, <1>1, <1>2, <1>4 DEF Concludes, DeliverNext, TerminalBroadcasts,
     TerminalBroadcastFails, TerminalIsAcknowledged, Settle
<1>5. CASE Writes
  BY <1>0, <1>1, <1>2, <1>5 DEF Writes, Flush, RequestArrives, Broadcasts, RequestFails,
     ReplyIsLost, BroadcastFails, LateCallArrives, WriteIsAcknowledged, ReplyArrives, Receive
<1>6. CASE Crash \/ Sweep \/ SweepReads \/ SweepCloses \/ UserCancels
  BY <1>2, <1>6 DEF Crash, Sweep, SweepReads, SweepCloses, UserCancels
<1>7. CASE ChannelDelivers \/ ChannelBreaks \/ Browser \/ BrowserFails \/ BrowserIsRefused
           \/ UNCHANGED vars
  BY <1>2, <1>7
     DEF ChannelDelivers, ChannelBreaks, Browser, BrowserFails, BrowserIsRefused, vars
<1>8. QED
  BY <1>3, <1>4, <1>5, <1>6, <1>7 DEF Next

(* A call that was given up on is a write or an acknowledgement. *)
LEMMA LateTyped ==
    ASSUME Typed, late \subseteq LateCall, [Next]_vars
    PROVE  late' \subseteq LateCall
<1> USE DEF storeVars, publisherVars, workerVars
<1>0. io.op \in Write /\ io.ans.seq \in Nat /\ term.seq \in Nat
  BY DEF Typed, IOState, Answer, TermState
<1>1. /\ [call |-> "write", op |-> io.op] \in LateCall
      /\ [call |-> "ack", seq |-> io.ans.seq] \in LateCall
      /\ [call |-> "ack", seq |-> term.seq] \in LateCall
  BY <1>0 DEF LateCall
<1>2. ASSUME NEW c \in LateCall, GivenUp(c) PROVE late' \subseteq LateCall
  BY <1>2 DEF GivenUp
<1>3. ASSUME NEW seq, NEW p, AckStep(seq, p), [call |-> "ack", seq |-> seq] \in LateCall
      PROVE  late' \subseteq LateCall
  BY <1>2, <1>3 DEF AckStep, NoFault
<1>4. CASE Provides \/ Controls
  BY <1>4 DEF Provides, EmitText, EmitSemantic, FinishAnswer, Overload, Stop, Controls,
     Claim, Prepare, Begin, Recover, Finalize, FinalizeFails
<1>5. CASE Concludes
  BY <1>1, <1>3, <1>5 DEF Concludes, DeliverNext, TerminalBroadcasts,
     TerminalBroadcastFails, TerminalIsAcknowledged, Settle
<1>6. CASE Writes
  BY <1>1, <1>2, <1>3, <1>6 DEF Writes, Flush, RequestArrives, Broadcasts, RequestFails,
     ReplyIsLost, BroadcastFails, LateCallArrives, WriteIsAcknowledged, ReplyArrives
<1>7. CASE Crash \/ Sweep \/ SweepReads \/ SweepCloses \/ UserCancels
  BY <1>1, <1>7 DEF Crash, Sweep, SweepReads, SweepCloses, UserCancels
<1>8. CASE ChannelDelivers \/ ChannelBreaks \/ Browser \/ BrowserFails \/ BrowserIsRefused
           \/ UNCHANGED vars
  BY <1>8
     DEF ChannelDelivers, ChannelBreaks, Browser, BrowserFails, BrowserIsRefused, vars
<1>9. QED
  BY <1>4, <1>5, <1>6, <1>7, <1>8 DEF Next

(* Faults are counted up to their bound. *)
LEMMA FaultsTyped ==
    ASSUME faults \in 0..MaxFaults, [Next]_vars
    PROVE  faults' \in 0..MaxFaults
<1> USE DEF storeVars, publisherVars, workerVars
<1>1. CASE faults' = faults
  BY <1>1
<1>2. CASE Fails
  BY <1>2, StreamAssumption DEF Fails
<1>3. CASE Provides \/ Controls
  BY <1>1, <1>2, <1>3 DEF Provides, EmitText, EmitSemantic, FinishAnswer, Overload, Stop,
     Controls, Claim, Prepare, Begin, Recover, Finalize, FinalizeFails
<1>4. CASE Concludes
  BY <1>1, <1>2, <1>4 DEF Concludes, DeliverNext, TerminalBroadcasts,
     TerminalBroadcastFails, TerminalIsAcknowledged, Settle, AckStep, NoFault, GivenUp
<1>5. CASE Writes
  BY <1>1, <1>2, <1>5 DEF Writes, Flush, RequestArrives, Broadcasts, RequestFails,
     ReplyIsLost, BroadcastFails, LateCallArrives, WriteIsAcknowledged, ReplyArrives,
     AckStep, NoFault, GivenUp
<1>6. CASE Crash \/ Sweep \/ SweepReads \/ SweepCloses \/ UserCancels
  BY <1>1, <1>2, <1>6 DEF Crash, Sweep, SweepReads, SweepCloses, UserCancels
<1>7. CASE ChannelDelivers \/ ChannelBreaks \/ Browser \/ BrowserFails \/ BrowserIsRefused
           \/ UNCHANGED vars
  BY <1>1, <1>2, <1>7 DEF ChannelDelivers, ChannelBreaks, Browser, BrowserFails,
     BrowserIsRefused, ReceiveHint, ReceiveEvent, vars
<1>8. QED
  BY <1>3, <1>4, <1>5, <1>6, <1>7 DEF Next

-----------------------------------------------------------------------------
(* The type of the browser *)

(* A request is there or it is not. *)
AtMostOne(S) == \E x : S \subseteq {x}

(* The browser's state is of its type. *)
Fit(c) == c \in Client /\ AtMostOne(c.queued) /\ AtMostOne(c.flight)

(* An event the inbox may buffer *)
BufferedEvent == [gen : 1..MaxGenerations, seq : 1..MaxLog]

(* #queue keeps the coordinator's types, and one request of each kind. *)
LEMMA QueueFits ==
    ASSUME NEW c, Fit(c)
    PROVE  Fit(Queue(c))
<1>1. CursorOf(c) \in Cursor /\ {CursorOf(c)} \in SUBSET Cursor /\ {} \in SUBSET Cursor
  BY DEF CursorOf, Cursor, Fit, Client
<1> DEFINE q == [c EXCEPT !.queued = {CursorOf(c)}]
           r == [q EXCEPT !.timer = "none"]
<1>2. Fit(q) /\ Fit(r)
  BY <1>1 DEF Fit, Client, AtMostOne
<1> HIDE DEF q
<1>3. c.timer \in {"none", "watchdog", "retry", "throttle"}
  BY DEF Fit, Client
<1>4. Queue(c) \in {q, r, StartFetch(r)}
  BY <1>3 DEF Queue, q
<1> HIDE DEF r
<1>5. Fit(StartFetch(r))
  BY <1>1, <1>2 DEF StartFetch, Fit, Client, AtMostOne
<1>6. QED
  BY <1>2, <1>4, <1>5

(* So does #requestReconciliation. *)
LEMMA AskFits ==
    ASSUME NEW c, Fit(c)
    PROVE  Fit(Ask(c))
<1> DEFINE q == [c EXCEPT !.buffering = TRUE]
           r == [c EXCEPT !.buffering = TRUE, !.requested = TRUE]
<1>1. Fit(q) /\ Fit(r)
  BY DEF Fit, Client
<1>2. Ask(c) = q \/ Ask(c) = Queue(r)
  BY DEF Ask
<1> HIDE DEF q, r
<1>3. QED
  BY <1>1, <1>2, QueueFits

(* So does #bufferEvent. *)
LEMMA BufferedFits ==
    ASSUME NEW c, Fit(c), Bounded(c), NEW e \in BufferedEvent
    PROVE  Fit(Buffered(c, e))
<1>1. CASE e \in c.buffer
  BY <1>1 DEF Buffered
<1>2. CASE e \notin c.buffer /\ Cardinality(c.buffer) >= MaxBuffered
  <2> DEFINE d == [c EXCEPT !.overflow = TRUE]
  <2>1. Fit(d)
    BY DEF Fit, Client
  <2>2. Buffered(c, e) = Ask(d)
    <3>1. ~(Cardinality(c.buffer) < MaxBuffered)
      BY <1>2, FS_CardinalityType, InboxAssumption DEF Bounded
    <3>2. QED
      BY <1>2, <3>1 DEF Buffered
  <2> HIDE DEF d
  <2>3. QED
    BY <2>1, <2>2, AskFits
<1>3. CASE e \notin c.buffer /\ ~(Cardinality(c.buffer) >= MaxBuffered)
  <2> DEFINE d == [c EXCEPT !.buffer = c.buffer \cup {e}]
  <2>1. Buffered(c, e) = d
    <3>1. Cardinality(c.buffer) < MaxBuffered
      BY <1>3, FS_CardinalityType, InboxAssumption DEF Bounded
    <3>2. QED
      BY <1>3, <3>1 DEF Buffered
  <2>2. Fit(d)
    BY DEF Fit, Client, BufferedEvent
  <2>3. QED
    BY <2>1, <2>2
<1>4. QED
  BY <1>1, <1>2, <1>3

(* So does letting go of the turn. *)
LEMMA ReleaseFits ==
    ASSUME NEW c, c.shown \in Seq(1..MaxText)
    PROVE  Fit(Release(c))
<1>1. 0 \in 0..MaxGenerations /\ 0 \in 0..MaxLog
  BY StreamAssumption DEF MaxLog
<1> HIDE DEF MaxLog
<1>2. QED
  BY <1>1 DEF Release, Unknown, Fit, Client, AtMostOne

(* So do events applied live, as long as they are in the log. *)
LEMMA LiveFits ==
    ASSUME NEW c, Fit(c), NEW n, c.applied + n \in 0..MaxLog,
           ApplyLive(c, n).shown \in Seq(1..MaxText)
    PROVE  Fit(ApplyLive(c, n))
<1> DEFINE run == [i \in 1..n |-> c.applied + i]
           more == FlattenSeq([i \in 1..n |-> Chunks(run[i])])
           now == [c EXCEPT !.applied = c.applied + n, !.shown = c.shown \o more]
<1>1. ApplyLive(c, n) = IF \E i \in 1..n : log[run[i]].kind = "done" THEN Release(now) ELSE now
  BY DEF ApplyLive
<1> HIDE DEF more, run
<1>2. now.shown = c.shown \o more /\ Release(now).shown = now.shown
  BY DEF Fit, Client, Release, Unknown
<1>3. c.shown \o more \in Seq(1..MaxText)
  <2> HIDE DEF now
  <2>1. QED
    BY <1>1, <1>2
<1>4. Fit(now)
  BY <1>3 DEF Fit, Client
<1>5. Fit(Release(now))
  BY <1>2, <1>3, ReleaseFits
<1> HIDE DEF now
<1>6. QED
  BY <1>1, <1>4, <1>5

(* So does the rest of an answer. *)
LEMMA SettledFits ==
    ASSUME NEW c, NEW overflow, Fit(c)
    PROVE  Fit(Answered(Settled(c, overflow)))
<1> DEFINE rest == {e \in c.buffer : ~Stale(c, e)}
           kept == [c EXCEPT !.buffer = rest]
           open == [kept EXCEPT !.buffering = FALSE]
<1>1. rest \subseteq c.buffer
  OBVIOUS
<1> HIDE DEF rest
<1>2. Fit(kept) /\ Fit(open)
  BY <1>1 DEF Fit, Client
<1>3. Settled(c, overflow) \in {open, Ask(kept)}
  BY DEF Settled, rest
<1> HIDE DEF kept, open
<1>4. Fit(Settled(c, overflow))
  BY <1>2, <1>3, AskFits
<1>5. ASSUME NEW s, Fit(s) PROVE Fit(Answered(s))
  BY <1>5 DEF Answered, Fit, Client, AtMostOne
<1>6. QED
  BY <1>4, <1>5

(* So does a request that failed. *)
LEMMA TryAgainFits == ASSUME NEW c, Fit(c) PROVE Fit(TryAgain(c))
BY DEF TryAgain, Fit, Client, AtMostOne

(* What is right is of the type of a window. *)
LEMMA RightIsTyped ==
    ASSUME stream.text \in 0..MaxText, NEW c, ReadsRight(c)
    PROVE  c.shown \in Seq(1..MaxText)
<1>1. PICK t \in 0..stream.text : c.shown = Whole(t)
  BY DEF ReadsRight, ShowsText
<1>2. t \in 0..MaxText
  BY StreamAssumption
<1>3. Whole(t) \in Seq(1..MaxText)
  BY <1>2, StreamAssumption DEF Whole
<1>4. QED
  BY <1>1, <1>3

(* What the type invariant rests on *)
StreamTypeInv ==
    /\ ReaderInv /\ sent \subseteq MessageOf /\ late \subseteq LateCall
    /\ faults \in 0..MaxFaults /\ Fit(client)

(* The bounds of what the browser is told. *)
LEMMA StoreBounds ==
    ASSUME ReaderInv
    PROVE  /\ stream.text \in 0..MaxText /\ turn.gen \in 0..MaxGenerations
           /\ Len(log) \in Nat /\ Len(log) <= MaxLog /\ MaxLog \in Nat
           /\ \A n \in 0..Len(log) : n \in 0..MaxLog
<1>1. Typed /\ StoreOK
  BY DEF ReaderInv, TextInv, LogInv, StreamInv
<1>2. stream.text \in 0..MaxText /\ turn.gen \in 0..MaxGenerations
  BY <1>1, StreamAssumption DEF Typed, StreamRecord, TurnRecord, Texts
<1>3. Len(log) \in Nat /\ Len(log) <= MaxLog /\ MaxLog \in Nat
  BY <1>1, StreamAssumption DEF Typed, StoreOK, MaxLog
<1> HIDE DEF MaxLog
<1>4. QED
  BY <1>2, <1>3

(* An answer of the server is of the types of the window. *)
LEMMA ReceiptFits ==
    ASSUME ReaderInv, Fit(client), ReceiveReceipt
    PROVE  Fit(client')
<1>0. /\ Tracking /\ Shaped(client) /\ Bounded(client) /\ Waiting(client) /\ Timed(client)
      /\ ReadsRight(client) /\ log \in Seq(Entry) /\ StoreOK /\ BoundOK /\ WholeOK
      /\ stream \in StreamRecord /\ Len(log) \in Nat
  BY ReaderKnows DEF ReceiveReceipt
<1> PICK r \in client.reply :
         IF r.asked # client.gen
         THEN client' = TryAgain(client)
         ELSE \E taken \in {Taken(client, r)} :
              \E now \in {ApplyLive(taken, Following(taken))} :
                client' = CASE r.ended -> Release(taken)
                            [] ~r.ended /\ now.at = "released" -> now
                            [] ~r.ended /\ now.at = "tracking" ->
                                 Answered(Settled(now, client.overflow))
  BY DEF ReceiveReceipt
<1>1. CASE r.asked # client.gen
  BY <1>1, TryAgainFits
<1>2. CASE ~(r.asked # client.gen)
  <2> DEFINE taken == Taken(client, r)
             n == Following(taken)
             now == ApplyLive(taken, n)
  <2>1. client' = CASE r.ended -> Release(taken)
                    [] ~r.ended /\ now.at = "released" -> now
                    [] ~r.ended /\ now.at = "tracking" ->
                         Answered(Settled(now, client.overflow))
    BY <1>2
  <2>2. /\ Shaped(taken) /\ Bounded(taken) /\ Timed(taken) /\ taken.at = "tracking"
        /\ taken.applied = r.seq /\ taken.buffer = client.buffer /\ taken.shown = Whole(r.text)
    BY <1>0 DEF Taken, Shaped, Bounded, Timed, Tracking
  <2>3. /\ ~r.ended => ReadsRight(taken)
        /\ r.seq \in 0..Len(log) /\ BuffersLog(taken)
    BY <1>0, <2>2, TakenIsRight DEF Tracking, ReadsRight, ReceiptOK, BuffersLog
  <2>4. Fit(taken) /\ taken.shown \in Seq(1..MaxText)
    <3>1. r \in Receipt
      BY DEF Fit, Client
    <3>2. Whole(r.text) \in Seq(1..MaxText)
      <4>1. r.text \in 0..MaxText
        BY <3>1 DEF Receipt, Texts
      <4>2. QED
        BY <4>1, StreamAssumption DEF Whole
    <3>3. {} \in SUBSET Receipt /\ r.gen \in 0..MaxGenerations /\ r.seq \in 0..MaxLog
      BY <3>1 DEF Receipt
    <3>4. QED
      BY <2>2, <3>2, <3>3 DEF Taken, Fit, Client
  <2> HIDE DEF taken
  <2>5. n \in Nat /\ taken.applied + n <= Len(log)
    BY <1>0, <2>2, <2>3, FollowingFits
  <2> HIDE DEF n
  <2>6. CASE r.ended
    BY <2>1, <2>4, <2>6, ReleaseFits
  <2>7. CASE ~r.ended
    <3>1. ReadsRight(now) /\ now.at \in {"tracking", "released"}
      BY <1>0, <2>2, <2>3, <2>5, <2>7, LiveIsRight
    <3>2. now.shown \in Seq(1..MaxText)
      BY <3>1, RightIsTyped, StoreBounds
    <3>3. taken.applied + n \in 0..MaxLog
      BY <1>0, <2>2, <2>3, <2>5, StoreBounds
    <3>4. Fit(now)
      BY <2>4, <3>2, <3>3, LiveFits
    <3> HIDE DEF now
    <3>5. client' \in {now, Answered(Settled(now, client.overflow))}
      BY <2>1, <2>7, <3>1
    <3>6. QED
      BY <3>4, <3>5, SettledFits
  <2>8. QED
    BY <2>6, <2>7
<1>3. QED
  BY <1>1, <1>2

(* So is everything else the browser does. *)
LEMMA BrowserFits ==
    ASSUME ReaderInv, Fit(client),
           \/ UNCHANGED client \/ ChannelNotice \/ ServerAnswers \/ FetchFails
           \/ TimerFires \/ ReceiveReceipt
           \/ turn.gen # 0 /\ \E m \in Heard : ReceiveHint(m) \/ ReceiveEvent(m)
           \/ \E gen : Adopt(gen)
    PROVE  Fit(client')
<1>0. /\ Shaped(client) /\ Bounded(client) /\ ReadsRight(client) /\ log \in Seq(Entry)
      /\ StoreOK /\ BoundOK /\ WholeOK /\ stream \in StreamRecord /\ Len(log) \in Nat
  BY ReaderKnows
<1>1. CASE UNCHANGED client
  BY <1>1
<1>2. CASE ChannelNotice \/ \E m : ReceiveHint(m)
  BY <1>2, AskFits DEF ChannelNotice, ReceiveHint
<1>3. CASE turn.gen # 0 /\ \E m \in Heard : ReceiveEvent(m)
  <2> PICK m \in Heard : ReceiveEvent(m)
    BY <1>3
  <2>1. m \in BufferedEvent /\ m.seq \in 1..Len(log)
    <3>1. turn.gen \in 1..MaxGenerations /\ 1..Len(log) \subseteq 1..MaxLog
      BY <1>3, StoreBounds
    <3>2. QED
      BY <3>1 DEF Heard, BufferedEvent
  <2>2. /\ client.at = "tracking"
        /\ client' = IF InOrder(client, m) THEN ApplyLive(client, 1)
                                           ELSE Ask(Buffered(client, m))
    BY DEF ReceiveEvent, Tracking
  <2>3. CASE InOrder(client, m)
    <3>1. client.applied + 1 \in 0..Len(log)
      BY <1>0, <2>1, <2>3 DEF InOrder
    <3>2. client.applied + 1 <= Len(log) /\ 1 \in Nat /\ client.applied + 1 \in 0..MaxLog
      BY <1>0, <3>1, StoreBounds
    <3>3. ReadsRight(ApplyLive(client, 1))
      BY <1>0, <2>2, <3>2, LiveIsRight
    <3>4. ApplyLive(client, 1).shown \in Seq(1..MaxText)
      BY <3>3, RightIsTyped, StoreBounds
    <3>5. Fit(ApplyLive(client, 1))
      BY <3>2, <3>4, LiveFits
    <3>6. QED
      BY <2>2, <2>3, <3>5
  <2>4. CASE ~InOrder(client, m)
    BY <1>0, <2>1, <2>2, <2>4, BufferedFits, AskFits
  <2>5. QED
    BY <2>3, <2>4
<1>4. CASE \E gen : Adopt(gen)
  <2> PICK gen : Adopt(gen)
    BY <1>4
  <2> DEFINE u == [Unknown EXCEPT !.at = "tracking", !.gen = gen]
  <2>1. gen \in 0..MaxGenerations
    <3>1. turn.gen \in 0..MaxGenerations /\ 0 \in 0..MaxGenerations
      BY StoreBounds, StreamAssumption
    <3>2. gen = 0 \/ gen = turn.gen
      BY DEF Adopt
    <3>3. QED
      BY <3>1, <3>2
  <2>2. Fit(u)
    <3>1. 0 \in 0..MaxLog /\ <<>> \in Seq(1..MaxText)
      BY StoreBounds
    <3> HIDE DEF MaxLog
    <3>2. QED
      BY <2>1, <3>1 DEF Unknown, Fit, Client, AtMostOne
  <2>3. client' = Ask(u)
    BY DEF Adopt
  <2> HIDE DEF u
  <2>4. QED
    BY <2>2, <2>3, AskFits
<1>5. CASE ServerAnswers
  <2> PICK f \in client.flight : client' = [client EXCEPT !.reply = {Snapshot(f.gen)}]
    BY <1>5 DEF ServerAnswers
  <2>1. Snapshot(f.gen) \in Receipt
    <3>1. f.gen \in 0..MaxGenerations
      BY DEF Fit, Client, Cursor
    <3>2. /\ turn.gen \in 0..MaxGenerations /\ Len(log) \in 0..MaxLog /\ stream.text \in Texts
          /\ Ended \in BOOLEAN
      BY StoreBounds DEF Texts, Ended
    <3>3. QED
      BY <3>1, <3>2 DEF Snapshot, Receipt
  <2> HIDE DEF Snapshot
  <2>2. QED
    BY <2>1 DEF Fit, Client
<1>6. CASE FetchFails
  BY <1>6, TryAgainFits DEF FetchFails
<1>7. CASE TimerFires
  <2> DEFINE c == [client EXCEPT !.timer = "none"]
  <2>1. Fit(c)
    BY DEF Fit, Client
  <2>2. client' \in {StartFetch(c), Ask(c)}
    BY <1>7 DEF TimerFires
  <2> HIDE DEF c
  <2>3. Fit(StartFetch(c))
    BY <2>1 DEF StartFetch, Fit, Client, AtMostOne
  <2>4. QED
    BY <2>1, <2>2, <2>3, AskFits
<1>8. CASE ReceiveReceipt
  BY <1>8, ReceiptFits
<1>9. QED
  BY <1>1, <1>2, <1>3, <1>4, <1>5, <1>6, <1>7, <1>8

(* Every step keeps the types. *)
LEMMA StreamTypeKept == StreamTypeInv /\ [Next]_vars => StreamTypeInv'
<1> SUFFICES ASSUME StreamTypeInv, [Next]_vars PROVE StreamTypeInv'
  OBVIOUS
<1>1. ReaderInv /\ Typed /\ SentIsOfThisTurn /\ GenOK
  BY DEF StreamTypeInv, ReaderInv, TextInv, LogInv, StreamInv
<1>2. ReaderInv' /\ sent' \subseteq MessageOf /\ late' \subseteq LateCall
      /\ faults' \in 0..MaxFaults
  BY <1>1, ReaderKept, SentTyped, LateTyped, FaultsTyped DEF StreamTypeInv
<1>3. sent # {} => turn.gen # 0
  BY <1>1 DEF GenOK
<1>4. Fit(client')
  BY <1>1, <1>3, BrowserOrStore, BrowserFits DEF StreamTypeInv
<1>5. Fit(client)'
  BY <1>4 DEF Fit
<1>6. QED
  BY <1>2, <1>5 DEF StreamTypeInv

(* They hold at first. *)
LEMMA StreamTypeStarts == Init => StreamTypeInv
<1> SUFFICES ASSUME Init PROVE StreamTypeInv
  OBVIOUS
<1>1. ReaderInv
  BY ReaderStarts
<1>2. sent = {} /\ late = {} /\ faults = 0 /\ client = Unknown
  BY DEF Init, PublisherInit, ClientInit
<1>3. Fit(client)
  <2>1. 0 \in 0..MaxLog /\ <<>> \in Seq(1..MaxText) /\ 0 \in 0..MaxGenerations
    BY <1>1, StoreBounds, StreamAssumption
  <2> HIDE DEF MaxLog
  <2>2. QED
    BY <1>2, <2>1 DEF Unknown, Fit, Client, AtMostOne
<1>4. QED
  BY <1>1, <1>2, <1>3, StreamAssumption DEF StreamTypeInv

(* At most one is a cardinality of at most one. *)
LEMMA OneAtMost == ASSUME NEW S, AtMostOne(S) PROVE Cardinality(S) <= 1
<1> PICK x : S \subseteq {x}
  BY DEF AtMostOne
<1>1. S = {} \/ S = {x}
  OBVIOUS
<1>2. Cardinality({x}) = 1 /\ Cardinality({}) = 0
  BY FS_EmptySet, FS_Singleton
<1>3. QED
  BY <1>1, <1>2

(***************************************************************************)
(* Every variable of the stream has its type; in particular the buffer,    *)
(* the log and the requests of the coordinator keep to their limits.       *)
(***************************************************************************)
THEOREM StreamTypeCorrect == Spec => []TypeOK
<1>1. StreamTypeInv => TypeOK
  <2> SUFFICES ASSUME StreamTypeInv PROVE TypeOK
    OBVIOUS
  <2>1. /\ ReaderInv /\ Typed /\ SentIsOfThisTurn /\ GenOK
        /\ sent \subseteq MessageOf /\ late \subseteq LateCall
        /\ faults \in 0..MaxFaults /\ Fit(client) /\ Bounded(client)
    BY ReaderKnows DEF StreamTypeInv, ReaderInv, TextInv, LogInv, StreamInv
  <2>2. StoreTypeOK /\ exec \in Executor
    BY <2>1, StoreBounds DEF Typed, StoreTypeOK
  <2>3. sent \subseteq Message
    <3> SUFFICES ASSUME NEW m \in sent PROVE m \in Message
      OBVIOUS
    <3>1. m \in MessageOf /\ m.gen = turn.gen /\ m.seq \in 1..Len(log) /\ turn.gen # 0
      BY <2>1 DEF SentIsOfThisTurn, GenOK
    <3>2. m.gen \in 1..MaxGenerations /\ m.seq \in 1..MaxLog
      BY <2>1, <3>1, StoreBounds
    <3>3. QED
      BY <3>1, <3>2 DEF MessageOf, Message
  <2>4. PublisherTypeOK
    BY <2>1, <2>3 DEF Typed, PublisherTypeOK
  <2>5. ClientTypeOK
    BY <2>1, OneAtMost DEF ClientTypeOK, Fit, Bounded
  <2>6. closing \subseteq SweepCall
    BY DEF StreamTypeInv, ReaderInv, TextInv, LogInv, SweepsOK, SweepsTyped
  <2>7. QED
    BY <2>2, <2>4, <2>5, <2>6 DEF TypeOK
<1>2. QED
  BY <1>1, StreamTypeStarts, StreamTypeKept, PTL DEF Spec
===============================================================================
