----------------------------- MODULE PipeLemmas -----------------------------
(***************************************************************************)
(* What the messages of a pipe are after one is written, read or dropped:  *)
(* facts about Append and Tail by position, for the proofs about the       *)
(* modules that keep the server's pipe as a sequence.                      *)
(***************************************************************************)
EXTENDS Integers, Sequences, FiniteSets, SequenceTheorems, FiniteSetTheorems, TLAPS

\* The positions of a pipe are numbers from 1 on.
LEMMA PipePositions ==
    ASSUME NEW T, NEW s \in Seq(T)
    PROVE  /\ DOMAIN s \subseteq Nat \ {0}
           /\ \A k \in DOMAIN s : s[k] \in T
           /\ s # <<>> <=> DOMAIN s # {}
           /\ \A k \in DOMAIN s : \A l \in 1 .. k : l \in DOMAIN s
<1>1. Len(s) \in Nat /\ DOMAIN s = 1 .. Len(s)
    BY LenProperties
<1>2. \A k \in 1 .. Len(s) : s[k] \in T
    BY ElementOfSeq
<1>3. s # <<>> <=> Len(s) # 0
    BY EmptySeq
<1>4. DOMAIN s \subseteq Nat \ {0} /\ \A k \in DOMAIN s : \A l \in 1 .. k : l \in DOMAIN s
    BY <1>1
<1>5. Len(s) # 0 <=> DOMAIN s # {}
    BY <1>1
<1> QED
    BY <1>1, <1>2, <1>3, <1>4, <1>5, Zenon

\* A written message comes last, and the others keep their places.
LEMMA Written ==
    ASSUME NEW T, NEW s \in Seq(T), NEW m \in T, NEW t, t = Append(s, m)
    PROVE  /\ t \in Seq(T)
           /\ \E n \in Nat \ {0} : /\ n \notin DOMAIN s /\ DOMAIN t = DOMAIN s \cup {n}
                                   /\ t[n] = m /\ \A k \in DOMAIN s : t[k] = s[k] /\ k < n
<1>1. Len(s) \in Nat /\ DOMAIN s = 1 .. Len(s)
    BY LenProperties
<1>2. t \in Seq(T) /\ Len(t) = Len(s) + 1 /\ t[Len(s) + 1] = m
      /\ \A k \in 1 .. Len(s) : t[k] = s[k]
    BY AppendProperties
<1>3. DOMAIN t = 1 .. Len(s) + 1
    BY <1>2, LenProperties
<1> QED
    BY <1>1, <1>2, <1>3

\* The first message is read, and the others move up.
LEMMA TakenFirst ==
    ASSUME NEW T, NEW s \in Seq(T), s # <<>>, NEW t, t = Tail(s)
    PROVE  /\ t \in Seq(T) /\ 1 \in DOMAIN s /\ Head(s) = s[1] /\ s[1] \in T
           /\ \A k \in DOMAIN t : k \in Nat \ {0} /\ k + 1 \in DOMAIN s /\ t[k] = s[k + 1]
           /\ \A k \in DOMAIN s : k = 1 \/ (k - 1 \in DOMAIN t /\ t[k - 1] = s[k])
<1>1. Len(s) \in Nat \ {0} /\ DOMAIN s = 1 .. Len(s)
    BY LenProperties, EmptySeq
<1>2. t \in Seq(T) /\ Len(t) = Len(s) - 1 /\ \A k \in 1 .. Len(t) : t[k] = s[k + 1]
    BY HeadTailProperties
<1>3. DOMAIN t = 1 .. Len(s) - 1
    BY <1>2, LenProperties
<1>4. Head(s) = s[1]
    OBVIOUS
<1>5. s[1] \in T
    BY <1>1, ElementOfSeq
<1> QED
    BY <1>1, <1>2, <1>3, <1>4, <1>5
=============================================================================
