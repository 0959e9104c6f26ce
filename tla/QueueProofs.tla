----------------------------- MODULE QueueProofs -----------------------------
(***************************************************************************)
(* Lemmas about a queue of messages, for the proofs about the monitors:    *)
(* what the last message of a kind says, when messages come in at the back *)
(* and leave at the front.                                                 *)
(***************************************************************************)
EXTENDS Integers, SequenceTheorems, TLAPS

(* No message of q is in B; the last one that is in B is in G.             *)
NoneIn(q, B) == \A i \in DOMAIN q : q[i] \notin B

LastIs(q, B, G) ==
  \A i \in DOMAIN q :
    q[i] \in B /\ (\A j \in DOMAIN q : j > i => q[j] \notin B) => q[i] \in G

-----------------------------------------------------------------------------
(* Sequences, by their indices.                                            *)

LEMMA SeqFacts ==
  ASSUME NEW M, NEW q \in Seq(M)
  PROVE  /\ Len(q) \in Nat /\ DOMAIN q = 1 .. Len(q)
         /\ \A i \in DOMAIN q : q[i] \in M
BY LenProperties, ElementOfSeq

LEMMA TailFacts ==
  ASSUME NEW M, NEW q \in Seq(M), q # <<>>
  PROVE  /\ Head(q) = q[1] /\ 1 \in DOMAIN q /\ Head(q) \in M
         /\ Tail(q) \in Seq(M) /\ Len(Tail(q)) = Len(q) - 1
         /\ DOMAIN Tail(q) = 1 .. Len(q) - 1
         /\ \A i \in DOMAIN Tail(q) : i + 1 \in DOMAIN q /\ Tail(q)[i] = q[i + 1]
<1>1. Len(q) \in Nat \ {0} /\ DOMAIN q = 1 .. Len(q)
  BY SeqFacts, EmptySeq
<1>2. /\ Head(q) \in M /\ Tail(q) \in Seq(M)
      /\ Len(Tail(q)) = Len(q) - 1
      /\ \A i \in 1 .. Len(Tail(q)) : Tail(q)[i] = q[i + 1]
  BY HeadTailProperties
<1>3. DOMAIN Tail(q) = 1 .. Len(q) - 1
  BY <1>2, LenProperties
<1>4. Head(q) = q[1]
  BY <1>1
<1> QED BY <1>1, <1>2, <1>3, <1>4

LEMMA AppendFacts ==
  ASSUME NEW M, NEW q \in Seq(M), NEW m \in M
  PROVE  /\ Append(q, m) \in Seq(M)
         /\ Len(Append(q, m)) = Len(q) + 1
         /\ DOMAIN Append(q, m) = 1 .. Len(q) + 1
         /\ \A i \in DOMAIN q : Append(q, m)[i] = q[i]
         /\ Append(q, m)[Len(q) + 1] = m
BY SeqFacts, AppendProperties, LenProperties

-----------------------------------------------------------------------------
(* An empty queue.                                                         *)
LEMMA EmptyQueue == \A B, G : NoneIn(<<>>, B) /\ LastIs(<<>>, B, G)
BY DEF NoneIn, LastIs

LEMMA NoneMonotonic ==
  ASSUME NEW q, NEW B, NEW C, C \subseteq B, NoneIn(q, B)
  PROVE  NoneIn(q, C)
BY DEF NoneIn

LEMMA NoneTail ==
  ASSUME NEW M, NEW q \in Seq(M), q # <<>>, NEW B, NoneIn(q, B)
  PROVE  NoneIn(Tail(q), B)
BY TailFacts DEF NoneIn

LEMMA NoneAppend ==
  ASSUME NEW M, NEW q \in Seq(M), NEW m \in M, NEW B, NoneIn(q, B), m \notin B
  PROVE  NoneIn(Append(q, m), B)
<1>1. \A i \in DOMAIN Append(q, m) : i \in DOMAIN q \/ i = Len(q) + 1
  BY AppendFacts, SeqFacts
<1> QED BY <1>1, AppendFacts DEF NoneIn

(* The first message leaves: if it was of the kind and none is left, it was*)
(* the last one.                                                           *)
LEMMA QueueTail ==
  ASSUME NEW M, NEW q \in Seq(M), q # <<>>, NEW B, NEW G, LastIs(q, B, G)
  PROVE  /\ LastIs(Tail(q), B, G)
         /\ NoneIn(Tail(q), B) => IF Head(q) \in B THEN Head(q) \in G ELSE NoneIn(q, B)
<1> DEFINE t == Tail(q)
<1>1. /\ Head(q) = q[1] /\ 1 \in DOMAIN q
      /\ DOMAIN t = 1 .. Len(q) - 1
      /\ \A i \in DOMAIN t : i + 1 \in DOMAIN q /\ t[i] = q[i + 1]
  BY TailFacts
<1>2. DOMAIN q = 1 .. Len(q) /\ Len(q) \in Nat
  BY SeqFacts
<1> HIDE DEF t
<1>3. \A i \in DOMAIN q : i > 1 => i - 1 \in DOMAIN t /\ t[i - 1] = q[i]
  BY <1>1, <1>2
<1>4. LastIs(t, B, G)
  <2> SUFFICES ASSUME NEW i \in DOMAIN t, t[i] \in B,
                      \A j \in DOMAIN t : j > i => t[j] \notin B
               PROVE  t[i] \in G
    BY DEF LastIs
  <2>1. i + 1 \in DOMAIN q /\ t[i] = q[i + 1]
    BY <1>1
  <2>2. \A j \in DOMAIN q : j > i + 1 => q[j] \notin B
    BY <1>1, <1>2, <1>3
  <2> QED BY <2>1, <2>2 DEF LastIs
<1>5. ASSUME NoneIn(t, B)
      PROVE  IF Head(q) \in B THEN Head(q) \in G ELSE NoneIn(q, B)
  <2>1. \A j \in DOMAIN q : j > 1 => q[j] \notin B
    BY <1>3, <1>5 DEF NoneIn
  <2>2. CASE Head(q) \in B
    BY <1>1, <2>1, <2>2 DEF LastIs
  <2>3. CASE Head(q) \notin B
    <3>1. \A j \in DOMAIN q : j = 1 \/ j > 1
      BY <1>2
    <3> QED BY <1>1, <2>1, <2>3, <3>1 DEF NoneIn
  <2> QED BY <2>2, <2>3
<1> QED BY <1>4, <1>5 DEF t

(* A message that comes in is the last of its kind.                        *)
LEMMA QueueAppend ==
  ASSUME NEW M, NEW q \in Seq(M), NEW m \in M, NEW B, NEW G,
         IF m \in B THEN m \in G ELSE LastIs(q, B, G)
  PROVE  /\ LastIs(Append(q, m), B, G)
         /\ NoneIn(Append(q, m), B) => NoneIn(q, B) /\ m \notin B
<1> DEFINE a == Append(q, m)
<1>1. /\ DOMAIN a = 1 .. Len(q) + 1
      /\ \A i \in DOMAIN q : a[i] = q[i]
      /\ a[Len(q) + 1] = m
  BY AppendFacts
<1>2. DOMAIN q = 1 .. Len(q) /\ Len(q) \in Nat
  BY SeqFacts
<1> HIDE DEF a
<1>3. /\ Len(q) + 1 \in DOMAIN a
      /\ \A i \in DOMAIN q : i \in DOMAIN a /\ i < Len(q) + 1
      /\ \A i \in DOMAIN a : i = Len(q) + 1 \/ i \in DOMAIN q
  BY <1>1, <1>2
<1>4. LastIs(a, B, G)
  <2> SUFFICES ASSUME NEW i \in DOMAIN a, a[i] \in B,
                      \A j \in DOMAIN a : j > i => a[j] \notin B
               PROVE  a[i] \in G
    BY DEF LastIs
  <2>1. CASE i = Len(q) + 1
    BY <1>1, <2>1
  <2>2. CASE i \in DOMAIN q
    <3>1. m \notin B
      BY <1>1, <1>2, <1>3, <2>2
    <3>2. \A j \in DOMAIN q : j > i => q[j] \notin B
      BY <1>1, <1>3
    <3> QED BY <1>1, <2>2, <3>1, <3>2 DEF LastIs
  <2> QED BY <1>3, <2>1, <2>2
<1>5. NoneIn(a, B) => NoneIn(q, B) /\ m \notin B
  BY <1>1, <1>3 DEF NoneIn
<1> QED BY <1>4, <1>5 DEF a
=============================================================================
