------------------------ MODULE CmdCoreProofs ------------------------
(***************************************************************************)
(* Proofs about CmdCore for every set of sessions, every number of         *)
(* commands in each and every number of prompts.                           *)
(*                                                                         *)
(* The inductive invariant IInv has three parts besides the types: what    *)
(* the agent's queue and the sessions agree on (QueueInv), what the state  *)
(* of the service, the process and the sessions agree on (WorkerInv), and  *)
(* that a request to the server is a token of which there is at most one,  *)
(* in one of four places: the input pipe, the server, the output pipe or   *)
(* the read queue (TokenInv).                                              *)
(*                                                                         *)
(* Two more follow, which rest on IInv: the messages on their way to the   *)
(* worker are in the order it expects (FrameInv), and the place of the     *)
(* request says how the commands handed out, begun and succeeded compare   *)
(* (CountInv).  With them every step is one of CommandService or none.     *)
(***************************************************************************)
EXTENDS CmdCore, SequenceTheorems, FiniteSetTheorems, TLAPS

-----------------------------------------------------------------------------
(* Queues without duplicates                                               *)

\* Appending a new element keeps the head of a non-empty queue and adds the
\* element to the set (the agent's append in _enqueueSession).
LEMMA QueueAppend ==
    ASSUME NEW S, NEW q \in Seq(S), NEW e \in S, IsInjective(q), e \notin ToSet(q)
    PROVE  /\ Append(q, e) \in Seq(S)
           /\ Append(q, e) # <<>>
           /\ IsInjective(Append(q, e))
           /\ ToSet(Append(q, e)) = ToSet(q) \cup {e}
           /\ q # <<>> => Head(Append(q, e)) = Head(q)
           /\ q = <<>> => Head(Append(q, e)) = e
<1> DEFINE r == Append(q, e)
<1>1. /\ r \in Seq(S) /\ r # <<>> /\ Len(r) = Len(q) + 1
      /\ \A i \in 1..Len(q) : r[i] = q[i]
      /\ r[Len(q) + 1] = e
  BY AppendProperties
<1>2. DOMAIN q = 1..Len(q) /\ DOMAIN r = 1..(Len(q) + 1) /\ Len(q) \in Nat
  BY <1>1
<1>3. \A i \in 1..Len(q) : q[i] # e
  BY <1>2 DEF ToSet
<1>4. IsInjective(r)
  <2>1. \A a, b \in 1..(Len(q) + 1) : r[a] = r[b] => a = b
    BY <1>1, <1>2, <1>3 DEF IsInjective
  <2> QED BY <2>1, <1>2 DEF IsInjective
<1>5. ToSet(r) = ToSet(q) \cup {e}
  <2>1. ToSet(r) \subseteq ToSet(q) \cup {e}
    BY <1>1, <1>2 DEF ToSet
  <2>2. ToSet(q) \subseteq ToSet(r)
    BY <1>1, <1>2 DEF ToSet
  <2>3. e \in ToSet(r)
    BY <1>1, <1>2 DEF ToSet
  <2> QED BY <2>1, <2>2, <2>3
<1>6. q # <<>> => Head(r) = Head(q)
  BY <1>1, <1>2
<1>7. q = <<>> => Head(r) = e
  BY <1>1, <1>2
<1> QED BY <1>1, <1>4, <1>5, <1>6, <1>7

\* Dropping the head removes just the head from the set (_dequeueSession).
LEMMA QueueTail ==
    ASSUME NEW S, NEW q \in Seq(S), q # <<>>, IsInjective(q)
    PROVE  /\ Head(q) \in ToSet(q)
           /\ Head(q) \in S
           /\ Tail(q) \in Seq(S)
           /\ IsInjective(Tail(q))
           /\ ToSet(Tail(q)) = ToSet(q) \ {Head(q)}
<1>1. /\ Head(q) \in S /\ Tail(q) \in Seq(S) /\ Len(Tail(q)) = Len(q) - 1
      /\ \A i \in 1..Len(Tail(q)) : Tail(q)[i] = q[i + 1]
  BY HeadTailProperties
<1>2. /\ DOMAIN q = 1..Len(q) /\ DOMAIN Tail(q) = 1..(Len(q) - 1)
      /\ Len(q) \in Nat \ {0} /\ Head(q) = q[1]
  BY <1>1
<1>3. IsInjective(Tail(q))
  <2>1. \A a, b \in 1..(Len(q) - 1) : Tail(q)[a] = Tail(q)[b] => a = b
    BY <1>1, <1>2 DEF IsInjective
  <2> QED BY <2>1, <1>2 DEF IsInjective
<1>4. Head(q) \in ToSet(q)
  BY <1>2 DEF ToSet
<1>5. ToSet(Tail(q)) \subseteq ToSet(q) \ {Head(q)}
  <2>1. \A i \in 1..(Len(q) - 1) : q[i + 1] \in ToSet(q) /\ q[i + 1] # q[1]
    BY <1>2 DEF ToSet, IsInjective
  <2> QED BY <2>1, <1>1, <1>2 DEF ToSet
<1>6. ToSet(q) \ {Head(q)} \subseteq ToSet(Tail(q))
  <2> SUFFICES ASSUME NEW i \in 1..Len(q), q[i] # q[1]
               PROVE  q[i] \in ToSet(Tail(q))
    BY <1>2 DEF ToSet
  <2>1. i - 1 \in 1..(Len(q) - 1) /\ Tail(q)[i - 1] = q[i]
    BY <1>1, <1>2
  <2> QED BY <2>1, <1>2 DEF ToSet
<1> QED BY <1>1, <1>3, <1>4, <1>5, <1>6

\* Removing a later element keeps the head and removes just that element from
\* the set (_cleanupWaitingSession).
LEMMA QueueRemoveAt ==
    ASSUME NEW S, NEW q \in Seq(S), IsInjective(q), NEW k \in 2..Len(q)
    PROVE  /\ RemoveAt(q, k) \in Seq(S)
           /\ RemoveAt(q, k) # <<>>
           /\ Head(RemoveAt(q, k)) = Head(q)
           /\ IsInjective(RemoveAt(q, k))
           /\ ToSet(RemoveAt(q, k)) = ToSet(q) \ {q[k]}
<1> DEFINE r == RemoveAt(q, k)
           n == Len(q)
<1>1. n \in Nat /\ n >= 2 /\ DOMAIN q = 1..n /\ \A i \in 1..n : q[i] \in S
  OBVIOUS
<1>2. /\ SubSeq(q, 1, k - 1) \in Seq(S) /\ Len(SubSeq(q, 1, k - 1)) = k - 1
      /\ \A i \in 1..(k - 1) : SubSeq(q, 1, k - 1)[i] = q[i]
  BY <1>1, SubSeqProperties
<1>3. /\ SubSeq(q, k + 1, n) \in Seq(S) /\ Len(SubSeq(q, k + 1, n)) = n - k
      /\ \A i \in 1..(n - k) : SubSeq(q, k + 1, n)[i] = q[k + i]
  <2>1. k + 1 \in Int /\ n \in Int /\ \A i \in (k + 1)..n : q[i] \in S
    BY <1>1
  <2>2. /\ SubSeq(q, k + 1, n) \in Seq(S)
        /\ Len(SubSeq(q, k + 1, n)) = IF k + 1 <= n THEN n - (k + 1) + 1 ELSE 0
        /\ \A i \in 1..(n - (k + 1) + 1) :
              SubSeq(q, k + 1, n)[i] = q[(k + 1) + i - 1]
    BY <2>1, SubSeqProperties
  <2> DEFINE w == SubSeq(q, k + 1, n)
  <2> HIDE DEF w
  <2>3. w \in Seq(S) /\ Len(w) = n - k
    <3>1. Len(w) = IF k + 1 <= n THEN n - (k + 1) + 1 ELSE 0
      BY <2>2 DEF w
    <3>2. k \in Nat /\ k <= n
      OBVIOUS
    <3>3. Len(w) = n - k
      <4>1. CASE k + 1 <= n
        <5>1. Len(w) = n - (k + 1) + 1
          BY <3>1, <4>1
        <5> QED BY <5>1, <3>2, <1>1
      <4>2. CASE ~(k + 1 <= n)
        <5>1. Len(w) = 0
          BY <3>1, <4>2
        <5>2. \A a, b \in Nat : a <= b /\ ~(a + 1 <= b) => b - a = 0
          OBVIOUS
        <5>3. n - k = 0
          BY <5>2, <4>2, <3>2, <1>1
        <5> QED BY <5>1, <5>3
      <4> QED BY <4>1, <4>2
    <3> QED BY <3>3, <2>2 DEF w
  <2>4. ASSUME NEW i \in 1..(n - k) PROVE w[i] = q[k + i]
    <3>1. i \in 1..(n - (k + 1) + 1) /\ (k + 1) + i - 1 = k + i
      BY <1>1
    <3>2. w[i] = q[(k + 1) + i - 1]
      BY <2>2, <3>1 DEF w
    <3> QED BY <3>1, <3>2
  <2> QED BY <2>3, <2>4 DEF w
<1>4. /\ r \in Seq(S) /\ Len(r) = n - 1
      /\ \A i \in 1..(n - 1) : r[i] = IF i < k THEN q[i] ELSE q[i + 1]
  <2> DEFINE u == SubSeq(q, 1, k - 1)
             v == SubSeq(q, k + 1, n)
  <2>1. u \in Seq(S) /\ v \in Seq(S) /\ Len(u) = k - 1 /\ Len(v) = n - k
    BY <1>2, <1>3
  <2>2. r = u \o v
    BY DEF RemoveAt
  <2>3. /\ \A i \in 1..(k - 1) : u[i] = q[i]
        /\ \A i \in 1..(n - k) : v[i] = q[k + i]
    BY <1>2, <1>3
  <2> HIDE DEF u, v, r
  <2>4. /\ u \o v \in Seq(S)
        /\ Len(u \o v) = Len(u) + Len(v)
        /\ \A i \in 1..(Len(u) + Len(v)) :
              (u \o v)[i] = IF i <= Len(u) THEN u[i] ELSE v[i - Len(u)]
    BY <2>1, ConcatProperties
  <2>5. k \in 2..n
    OBVIOUS
  <2>6. Len(r) = n - 1
    BY <2>1, <2>2, <2>4, <2>5, <1>1
  <2>7. \A i \in 1..(n - 1) : r[i] = IF i < k THEN q[i] ELSE q[i + 1]
    <3> TAKE i \in 1..(n - 1)
    <3>1. CASE i < k
      BY <3>1, <2>1, <2>2, <2>3, <2>4, <2>5, <1>1
    <3>2. CASE ~(i < k)
      <4>1. r[i] = v[i - (k - 1)] /\ i - (k - 1) \in 1..(n - k)
        BY <3>2, <2>1, <2>2, <2>4, <2>5, <1>1
      <4>2. v[i - (k - 1)] = q[k + (i - (k - 1))]
        BY <4>1, <2>3, ZenonT(30)
      <4>3. k + (i - (k - 1)) = i + 1
        BY <2>5, <1>1
      <4> QED BY <4>1, <4>2, <4>3, <3>2
    <3> QED BY <3>1, <3>2
  <2> QED BY <2>2, <2>4, <2>6, <2>7
<1> HIDE DEF r, n
<1>5. DOMAIN r = 1..(n - 1)
  BY <1>4, <1>1
<1>6. IsInjective(r)
  <2> DEFINE back(a) == IF a < k THEN a ELSE a + 1
  <2>1. \A a \in 1..(n - 1) : back(a) \in 1..n /\ r[a] = q[back(a)]
    BY <1>1, <1>4, k \in 2..n DEF n
  <2>2. \A a, b \in 1..(n - 1) : back(a) = back(b) => a = b
    BY <1>1
  <2>3. \A a, b \in 1..n : q[a] = q[b] => a = b
    BY <1>1 DEF IsInjective
  <2> HIDE DEF back
  <2>4. \A a, b \in 1..(n - 1) : r[a] = r[b] => a = b
    BY <2>1, <2>2, <2>3
  <2> QED BY <2>4, <1>5 DEF IsInjective
<1>7. r # <<>> /\ Head(r) = Head(q)
  BY <1>1, <1>4, k \in 2..n DEF n
<1>8. ToSet(r) \subseteq ToSet(q) \ {q[k]}
  <2>1. \A i \in 1..(n - 1) : \E j \in 1..n : j # k /\ r[i] = q[j]
    <3> TAKE i \in 1..(n - 1)
    <3>1. CASE i < k
      BY <3>1, <1>1, <1>4
    <3>2. CASE ~(i < k)
      <4>1. i + 1 \in 1..n /\ i + 1 # k /\ r[i] = q[i + 1]
        BY <3>2, <1>1, <1>4 DEF n
      <4> QED BY <4>1
    <3> QED BY <3>1, <3>2
  <2>2. \A j \in 1..n : j # k => q[j] # q[k]
    BY <1>1 DEF IsInjective, n
  <2> QED BY <2>1, <2>2, <1>1, <1>5 DEF ToSet
<1>9. ToSet(q) \ {q[k]} \subseteq ToSet(r)
  <2> SUFFICES ASSUME NEW j \in 1..n, j # k
               PROVE  q[j] \in ToSet(r)
    BY <1>1 DEF ToSet
  <2>1. CASE j < k
    <3>1. j \in 1..(n - 1) /\ r[j] = q[j]
      BY <2>1, <1>1, <1>4 DEF n
    <3> QED BY <3>1, <1>5 DEF ToSet
  <2>2. CASE j > k
    <3>1. j - 1 \in 1..(n - 1) /\ r[j - 1] = q[j]
      BY <2>2, <1>1, <1>4 DEF n
    <3> QED BY <3>1, <1>5 DEF ToSet
  <2> QED BY <2>1, <2>2, <1>1
<1> QED BY <1>4, <1>6, <1>7, <1>8, <1>9 DEF r

-----------------------------------------------------------------------------

\* No element of q, respectively at most one, is in K.
NoneIn(q, K) == \A i \in DOMAIN q : q[i] \notin K
OneIn(q, K) == \A i, j \in DOMAIN q : q[i] \in K /\ q[j] \in K => i = j

\* What is written to the end of a pipe adds at most itself.
LEMMA MarksAppend ==
    ASSUME NEW S, NEW K, NEW q \in Seq(S), NEW e \in S
    PROVE  /\ NoneIn(q, K) => OneIn(Append(q, e), K)
           /\ OneIn(q, K) /\ e \notin K => OneIn(Append(q, e), K)
           /\ NoneIn(q, K) /\ e \notin K => NoneIn(Append(q, e), K)
<1> DEFINE r == Append(q, e)
<1>1. /\ Len(q) \in Nat /\ DOMAIN q = 1..Len(q) /\ DOMAIN r = 1..(Len(q) + 1)
      /\ \A i \in 1..Len(q) : r[i] = q[i]
      /\ r[Len(q) + 1] = e
  BY AppendProperties
<1> HIDE DEF r
<1>2. \A i \in DOMAIN r : i \in DOMAIN q \/ i = Len(q) + 1
  BY <1>1
<1>3. \A i \in DOMAIN q : r[i] = q[i]
  BY <1>1
<1>4. NoneIn(q, K) => OneIn(r, K)
  BY <1>1, <1>2, <1>3 DEF NoneIn, OneIn
<1>5. OneIn(q, K) /\ e \notin K => OneIn(r, K)
  BY <1>1, <1>2, <1>3 DEF OneIn
<1>6. NoneIn(q, K) /\ e \notin K => NoneIn(r, K)
  BY <1>1, <1>2, <1>3 DEF NoneIn
<1> QED BY <1>4, <1>5, <1>6 DEF r

\* What is read from the front of a pipe is not there any more.
LEMMA MarksTail ==
    ASSUME NEW S, NEW K, NEW q \in Seq(S), q # <<>>
    PROVE  /\ OneIn(q, K) => OneIn(Tail(q), K)
           /\ NoneIn(q, K) => NoneIn(Tail(q), K)
           /\ OneIn(q, K) /\ Head(q) \in K => NoneIn(Tail(q), K)
           /\ Head(q) \in K => ~NoneIn(q, K)
<1> DEFINE r == Tail(q)
<1>1. /\ Len(q) \in Nat \ {0} /\ DOMAIN q = 1..Len(q)
      /\ DOMAIN r = 1..(Len(q) - 1) /\ Head(q) = q[1]
      /\ \A i \in 1..(Len(q) - 1) : r[i] = q[i + 1]
  BY HeadTailProperties
<1> HIDE DEF r
<1>2. \A i \in DOMAIN r : i + 1 \in DOMAIN q /\ r[i] = q[i + 1] /\ i + 1 # 1
  BY <1>1
<1>3. 1 \in DOMAIN q
  BY <1>1
<1>4. OneIn(q, K) => OneIn(r, K)
  <2> SUFFICES ASSUME OneIn(q, K), NEW i \in DOMAIN r, NEW j \in DOMAIN r,
                      r[i] \in K, r[j] \in K
               PROVE  i = j
    BY DEF OneIn
  <2>1. i + 1 = j + 1
    BY <1>2 DEF OneIn
  <2> QED BY <2>1, <1>1
<1>5. NoneIn(q, K) => NoneIn(r, K)
  BY <1>2 DEF NoneIn
<1>6. OneIn(q, K) /\ q[1] \in K => NoneIn(r, K)
  BY <1>2, <1>3 DEF NoneIn, OneIn
<1> QED BY <1>1, <1>3, <1>4, <1>5, <1>6 DEF r, NoneIn

\* A queue that takes over the elements of another one has the marks of both.
LEMMA MarksConcat ==
    ASSUME NEW S, NEW K, NEW q \in Seq(S), NEW r \in Seq(S)
    PROVE  /\ OneIn(q, K) /\ NoneIn(r, K) => OneIn(q \o r, K)
           /\ NoneIn(q, K) /\ OneIn(r, K) => OneIn(q \o r, K)
           /\ NoneIn(q, K) /\ NoneIn(r, K) => NoneIn(q \o r, K)
<1> DEFINE c == q \o r
<1>1. /\ Len(q) \in Nat /\ Len(r) \in Nat
      /\ DOMAIN q = 1..Len(q) /\ DOMAIN r = 1..Len(r)
  OBVIOUS
<1>2. /\ DOMAIN c = 1..(Len(q) + Len(r))
      /\ \A i \in 1..(Len(q) + Len(r)) :
            c[i] = IF i <= Len(q) THEN q[i] ELSE r[i - Len(q)]
  BY ConcatProperties
<1> HIDE DEF c
<1>3. ASSUME NEW i \in DOMAIN c
      PROVE  \/ i \in DOMAIN q /\ c[i] = q[i]
             \/ i - Len(q) \in DOMAIN r /\ c[i] = r[i - Len(q)]
  BY <1>1, <1>2
<1>4. ASSUME NEW i \in DOMAIN c, NEW j \in DOMAIN c, i - Len(q) = j - Len(q)
      PROVE  i = j
  BY <1>1, <1>2, <1>4
<1>5. OneIn(q, K) /\ NoneIn(r, K) => OneIn(c, K)
  <2> SUFFICES ASSUME OneIn(q, K), NoneIn(r, K),
                      NEW i \in DOMAIN c, NEW j \in DOMAIN c, c[i] \in K, c[j] \in K
               PROVE  i = j
    BY DEF OneIn
  <2> QED BY <1>3 DEF OneIn, NoneIn
<1>6. NoneIn(q, K) /\ OneIn(r, K) => OneIn(c, K)
  <2> SUFFICES ASSUME NoneIn(q, K), OneIn(r, K),
                      NEW i \in DOMAIN c, NEW j \in DOMAIN c, c[i] \in K, c[j] \in K
               PROVE  i = j
    BY DEF OneIn
  <2>1. i - Len(q) = j - Len(q)
    BY <1>3 DEF OneIn, NoneIn
  <2> QED BY <2>1, <1>4
<1>7. NoneIn(q, K) /\ NoneIn(r, K) => NoneIn(c, K)
  BY <1>3 DEF NoneIn
<1> QED BY <1>5, <1>6, <1>7 DEF c

\* Reading part of a pipe leaves every element on one side of the cut.
LEMMA MarksCut ==
    ASSUME NEW S, NEW K, NEW q \in Seq(S), NEW n \in 0..(Len(q) - 1)
    PROVE  LET u == SubSeq(q, 1, n)
               v == SubSeq(q, n + 1, Len(q))
           IN  /\ u \in Seq(S) /\ v \in Seq(S)
               /\ OneIn(q, K) => /\ OneIn(u, K) /\ OneIn(v, K)
                                 /\ NoneIn(u, K) \/ NoneIn(v, K)
               /\ NoneIn(q, K) => NoneIn(u, K) /\ NoneIn(v, K)
<1> DEFINE u == SubSeq(q, 1, n)
           v == SubSeq(q, n + 1, Len(q))
<1>1. /\ Len(q) \in Nat /\ DOMAIN q = 1..Len(q) /\ n \in Nat /\ n < Len(q)
      /\ \A i \in 1..Len(q) : q[i] \in S
  OBVIOUS
<1>2. u \in Seq(S) /\ DOMAIN u = 1..n /\ \A i \in 1..n : u[i] = q[i]
  <2>1. 1 \in Int /\ n \in Int /\ \A i \in 1..n : q[i] \in S
    BY <1>1
  <2>2. /\ u \in Seq(S)
        /\ Len(u) = IF 1 <= n THEN n - 1 + 1 ELSE 0
        /\ \A i \in 1..(n - 1 + 1) : u[i] = q[1 + i - 1]
    BY <2>1, SubSeqProperties
  <2>3. Len(u) = n
    BY <1>1, <2>2
  <2> QED BY <1>1, <2>2, <2>3
<1>3. /\ v \in Seq(S) /\ DOMAIN v = 1..(Len(q) - n)
      /\ \A i \in 1..(Len(q) - n) : v[i] = q[n + i]
  <2>1. n + 1 \in Int /\ Len(q) \in Int /\ \A i \in (n + 1)..Len(q) : q[i] \in S
    BY <1>1
  <2>2. /\ v \in Seq(S)
        /\ Len(v) = IF n + 1 <= Len(q) THEN Len(q) - (n + 1) + 1 ELSE 0
        /\ \A i \in 1..(Len(q) - (n + 1) + 1) : v[i] = q[(n + 1) + i - 1]
    BY <2>1, SubSeqProperties
  <2>3. n + 1 <= Len(q)
    BY <1>1
  <2> HIDE DEF v
  <2>4. Len(v) = Len(q) - n
    BY <1>1, <2>2, <2>3
  <2>5. ASSUME NEW i \in 1..(Len(q) - n) PROVE v[i] = q[n + i]
    <3>1. i \in 1..(Len(q) - (n + 1) + 1) /\ (n + 1) + i - 1 = n + i
      BY <1>1
    <3> QED BY <2>2, <3>1
  <2> QED BY <2>2, <2>4, <2>5
<1> HIDE DEF u, v
<1>4. \A i \in DOMAIN u : i \in DOMAIN q /\ u[i] = q[i] /\ i <= n
  BY <1>1, <1>2
<1>5. \A i \in DOMAIN v : n + i \in DOMAIN q /\ v[i] = q[n + i] /\ ~(n + i <= n)
  BY <1>1, <1>3
<1>6. NoneIn(q, K) => NoneIn(u, K) /\ NoneIn(v, K)
  BY <1>4, <1>5 DEF NoneIn
<1>7. OneIn(q, K) => OneIn(u, K)
  BY <1>4 DEF OneIn
<1>8. OneIn(q, K) => OneIn(v, K)
  <2> SUFFICES ASSUME OneIn(q, K), NEW i \in DOMAIN v, NEW j \in DOMAIN v,
                      v[i] \in K, v[j] \in K
               PROVE  i = j
    BY DEF OneIn
  <2>1. n + i = n + j
    BY <1>5 DEF OneIn
  <2> QED BY <2>1, <1>1, <1>3
<1>9. OneIn(q, K) => NoneIn(u, K) \/ NoneIn(v, K)
  BY <1>4, <1>5 DEF OneIn, NoneIn
<1> QED BY <1>2, <1>3, <1>6, <1>7, <1>8, <1>9 DEF u, v

-----------------------------------------------------------------------------
(* The inductive invariant                                                 *)

Waiting == ToSet(sessqueue)

QueueInv ==
    /\ IsInjective(sessqueue)
    /\ Waiting \subseteq created
    /\ \A s \in Waiting : emitted[s] = 0 /\ (s \notin attached => qnextp[s] = 0)
    /\ \A s \in created \ Waiting : emitted[s] = 1 /\ qnextp[s] = NCmd[s]
    /\ \A s \in Sess \ created : emitted[s] = 0 /\ qnextp[s] = 0
    /\ \A s \in attached : sessqueue # <<>> /\ s = Head(sessqueue)
    /\ runlater => sessqueue # <<>> /\ Head(sessqueue) \notin attached
    /\ sessqueue # <<>> => runlater \/ Head(sessqueue) \in attached

WorkerInv ==
    /\ (svc = "NotRunning") = (proc = "none")
    /\ (proc \in {"run", "ask"}) = (cur # NoSess)
    /\ svc = "NotRunning" => /\ attached = {} /\ chtable = "idle"
                             /\ stdout = <<>> /\ readq = <<>>
    /\ chtable = "run" => /\ uihandler \in attached
                          /\ \A s \in attached : qnextp[s] > 0
    /\ chtable = "hello" => svc # "Ready" /\ \A s \in attached : qnextp[s] = 0
    /\ svc = "Restarting" => \A s \in attached : qnextp[s] = 0
    /\ svc = "Ready" => \A s \in attached : qnextp[s] > 0

Requests == {b \in Block : b.kind = "cmd"}

TokenInv ==
    /\ OneIn(stdout, Result)
    /\ OneIn(readq, Result)
    /\ NoneIn(stdout, Result) \/ NoneIn(readq, Result)
    /\ cur # NoSess => NoneIn(stdout, Result) /\ NoneIn(readq, Result)
    /\ proc \in Alive => OneIn(stdin, Requests)
    /\ proc \in Alive /\ ~NoneIn(stdin, Requests) =>
          cur = NoSess /\ NoneIn(stdout, Result) /\ NoneIn(readq, Result)
    /\ chtable # "run" =>
          /\ cur = NoSess /\ NoneIn(stdout, Result) /\ NoneIn(readq, Result)
          /\ proc \in Alive => NoneIn(stdin, Requests)
    /\ cur # NoSess => cur \in attached
    /\ proc \in Alive =>
          \A i \in DOMAIN stdin : stdin[i] \in Requests => stdin[i].sess \in attached

IInv == TypeOK /\ QueueInv /\ WorkerInv /\ TokenInv

-----------------------------------------------------------------------------
(* The agent's queue and the sessions                                      *)

QueueTypes ==
    /\ sessqueue \in Seq(Sess)
    /\ runlater \in BOOLEAN
    /\ attached \in SUBSET Sess
    /\ qnextp \in [Sess -> Nat]
    /\ \A s \in Sess : qnextp[s] <= NCmd[s]
    /\ exitcode \in [Sess -> {-1, 0, 255}]
    /\ emitted \in [Sess -> Nat]

\* The head of a queue is one of its elements, and a session listening to the
\* worker is that head.
LEMMA HeadIsWaiting ==
    ASSUME QueueTypes, QueueInv
    PROVE  /\ sessqueue # <<>> => Head(sessqueue) \in Waiting
           /\ Waiting \subseteq Sess
           /\ \A s \in attached : s \in Waiting /\ attached = {s}
<1>1. sessqueue # <<>> => Head(sessqueue) \in Waiting
  BY QueueTail DEF QueueTypes, QueueInv, Waiting
<1>2. Waiting \subseteq Sess
  BY DEF QueueTypes, Waiting, ToSet
<1> QED BY <1>1, <1>2 DEF QueueInv

\* The end of a waiting session keeps the queue and the sessions in step.
LEMMA FinishInv ==
    ASSUME QueueTypes, QueueInv, created \in SUBSET Sess,
           NEW s \in Waiting, NEW ret \in {-1, 0, 255},
           Finish(s, ret), created' = created
    PROVE  QueueTypes' /\ QueueInv' /\ attached' = attached \ {s}
<1> USE NCmdAssumption
<1>1. s \in Sess /\ sessqueue # <<>> /\ sessqueue \in Seq(Sess)
  BY HeadIsWaiting DEF QueueTypes, Waiting, ToSet
<1>2. /\ qnextp' = [qnextp EXCEPT ![s] = NCmd[s]]
      /\ attached' = attached \ {s}
      /\ exitcode' = [exitcode EXCEPT ![s] = ret]
      /\ emitted' = [emitted EXCEPT ![s] = @ + 1]
  BY DEF Finish
<1>3. /\ qnextp' \in [Sess -> Nat] /\ \A t \in Sess : qnextp'[t] <= NCmd[t]
      /\ exitcode' \in [Sess -> {-1, 0, 255}]
      /\ emitted' \in [Sess -> Nat]
      /\ attached' \in SUBSET Sess
  BY <1>1, <1>2 DEF QueueTypes
<1>4. /\ emitted'[s] = 1 /\ qnextp'[s] = NCmd[s]
      /\ \A t \in Sess \ {s} : emitted'[t] = emitted[t] /\ qnextp'[t] = qnextp[t]
  BY <1>1, <1>2 DEF QueueTypes, QueueInv
<1>5. /\ sessqueue' \in Seq(Sess) /\ runlater' \in BOOLEAN
      /\ IsInjective(sessqueue')
      /\ ToSet(sessqueue') = Waiting \ {s}
      /\ \A t \in attached' : sessqueue' # <<>> /\ t = Head(sessqueue')
      /\ runlater' => sessqueue' # <<>> /\ Head(sessqueue') \notin attached'
      /\ sessqueue' # <<>> => runlater' \/ Head(sessqueue') \in attached'
  <2>1. CASE s = Head(sessqueue)
    <3>1. sessqueue' = Tail(sessqueue) /\ runlater' = (Tail(sessqueue) # <<>>)
      BY <2>1 DEF Finish, AgentOnCommandFinished
    <3>2. attached' = {}
      BY <1>2, <2>1 DEF QueueInv
    <3>3. /\ Tail(sessqueue) \in Seq(Sess) /\ IsInjective(Tail(sessqueue))
          /\ ToSet(Tail(sessqueue)) = Waiting \ {s}
      BY <1>1, <2>1, QueueTail DEF QueueInv, Waiting
    <3> QED BY <3>1, <3>2, <3>3
  <2>2. CASE s # Head(sessqueue)
    <3>1. PICK i \in 2..Len(sessqueue) :
             sessqueue[i] = s /\ sessqueue' = RemoveAt(sessqueue, i)
      BY <2>2 DEF Finish, AgentOnCommandFinished
    <3>2. runlater' = runlater
      BY <2>2 DEF Finish, AgentOnCommandFinished
    <3>3. attached' = attached
      BY <1>2, <2>2 DEF QueueInv
    <3>4. /\ sessqueue' \in Seq(Sess) /\ sessqueue' # <<>>
          /\ Head(sessqueue') = Head(sessqueue)
          /\ IsInjective(sessqueue') /\ ToSet(sessqueue') = Waiting \ {s}
      BY <1>1, <3>1, QueueRemoveAt DEF QueueInv, Waiting
    <3> QED BY <1>1, <3>2, <3>3, <3>4 DEF QueueInv, QueueTypes
  <2> QED BY <2>1, <2>2
<1>6. QueueTypes'
  BY <1>3, <1>5 DEF QueueTypes
<1>7. Waiting' = Waiting \ {s} /\ s \in created /\ Waiting \subseteq Sess
  BY <1>5, HeadIsWaiting DEF Waiting, QueueInv
<1>8. /\ \A t \in Waiting' : emitted'[t] = 0 /\ (t \notin attached' => qnextp'[t] = 0)
      /\ \A t \in created' \ Waiting' : emitted'[t] = 1 /\ qnextp'[t] = NCmd[t]
      /\ \A t \in Sess \ created' : emitted'[t] = 0 /\ qnextp'[t] = 0
  BY <1>2, <1>4, <1>7 DEF QueueInv
<1>9. QueueInv'
  BY <1>5, <1>7, <1>8 DEF QueueInv
<1> QED BY <1>2, <1>6, <1>9

\* Starting the next command of the head of the queue keeps them in step, too,
\* whichever way startCommand goes.
LEMMA RunNextInv ==
    ASSUME QueueTypes, QueueInv, created \in SUBSET Sess,
           NEW s, sessqueue # <<>>, s = Head(sessqueue), qnextp[s] < NCmd[s],
           NEW st, NEW later, later = FALSE, RunNext(s, st, later),
           created' = created
    PROVE  /\ QueueTypes' /\ QueueInv'
           /\ \/ /\ st = "Ready" /\ StartCommand(s)
                 /\ attached' = {s} /\ qnextp'[s] > 0
              \/ /\ st # "Ready" /\ CommandIdle /\ stdin' = stdin
                 /\ attached' = {s} /\ qnextp'[s] > 0
              \/ CommandIdle /\ stdin' = stdin /\ attached' = {}
<1> USE NCmdAssumption
<1>1. s \in Waiting /\ s \in Sess /\ attached \subseteq {s}
  BY HeadIsWaiting DEF QueueInv
<1>2. CASE Finish(s, -1) /\ CommandIdle /\ stdin' = stdin
  <2>1. QueueTypes' /\ QueueInv' /\ attached' = attached \ {s}
    BY <1>1, <1>2, FinishInv
  <2> QED BY <1>1, <1>2, <2>1
<1>3. CASE /\ \/ st = "Ready" /\ StartCommand(s)
              \/ st # "Ready" /\ CommandIdle /\ stdin' = stdin
           /\ qnextp' = [qnextp EXCEPT ![s] = @ + 1]
           /\ attached' = attached \cup {s}
           /\ runlater' = later
           /\ UNCHANGED <<sessqueue, exitcode, emitted>>
  <2>1. /\ attached' = {s} /\ qnextp'[s] = qnextp[s] + 1
        /\ qnextp' \in [Sess -> Nat]
        /\ \A t \in Sess \ {s} : qnextp'[t] = qnextp[t]
    BY <1>1, <1>3 DEF QueueTypes
  <2>2. qnextp'[s] > 0 /\ qnextp'[s] <= NCmd[s]
    BY <1>1, <2>1 DEF QueueTypes
  <2>3. QueueTypes'
    BY <1>1, <1>3, <2>1, <2>2 DEF QueueTypes
  <2>4. Waiting' = Waiting /\ sessqueue' = sessqueue /\ emitted' = emitted
    BY <1>3 DEF Waiting
  <2>5. /\ \A t \in Waiting' : emitted'[t] = 0 /\ (t \notin attached' => qnextp'[t] = 0)
        /\ \A t \in created' \ Waiting' : emitted'[t] = 1 /\ qnextp'[t] = NCmd[t]
        /\ \A t \in Sess \ created' : emitted'[t] = 0 /\ qnextp'[t] = 0
    BY <1>1, <2>1, <2>4, HeadIsWaiting DEF QueueInv
  <2>6. QueueInv'
    BY <1>3, <2>1, <2>4, <2>5 DEF QueueInv
  <2> QED BY <1>3, <2>1, <2>2, <2>3, <2>6
<1> QED BY <1>2, <1>3 DEF RunNext

-----------------------------------------------------------------------------
(* Steps of the server                                                     *)

\* A step of the server leaves the GUI alone: only the process types, the part
\* of WorkerInv about the process and the tokens have to be looked at.
LEMMA ServerFrame ==
    ASSUME IInv, UNCHANGED guiVars, ProcTypeOK', TokenInv',
           proc # "none", proc' # "none",
           (proc' \in {"run", "ask"}) = (cur' # NoSess)
    PROVE  IInv'
<1> USE DEF guiVars, agentVars, sessVars, workerVars
<1>1. TypeOK'
  BY DEF IInv, TypeOK
<1>2. QueueInv'
  BY DEF IInv, QueueInv, Waiting
<1>3. WorkerInv'
  BY DEF IInv, WorkerInv
<1> QED BY <1>1, <1>2, <1>3 DEF IInv

\* Every step of the server preserves the invariant.
LEMMA ServerInv ==
    ASSUME IInv, Server
    PROVE  IInv'
<1> USE SessAssumption, NCmdAssumption, MaxPromptsAssumption DEF Alive
<1>1. UNCHANGED guiVars /\ ProcTypeOK /\ TokenInv /\ WorkerInv
  BY DEF Server, IInv, TypeOK
<1>2. UNCHANGED <<attached, chtable, readq>>
  BY <1>1 DEF guiVars, sessVars, workerVars
<1>3. /\ stdin \in Seq(Block) /\ stdout \in Seq(Frame) /\ proc \in ProcState
      /\ stdin # <<>> => Head(stdin) \in Block /\ Tail(stdin) \in Seq(Block)
  BY <1>1, HeadTailProperties DEF ProcTypeOK
<1>4. ASSUME stdin # <<>>
      PROVE  /\ OneIn(stdin, Requests) => OneIn(Tail(stdin), Requests)
             /\ NoneIn(stdin, Requests) => NoneIn(Tail(stdin), Requests)
             /\ OneIn(stdin, Requests) /\ Head(stdin) \in Requests =>
                   NoneIn(Tail(stdin), Requests)
             /\ Head(stdin) \in Requests => ~NoneIn(stdin, Requests)
  BY <1>3, <1>4, MarksTail
<1>5. ASSUME stdin # <<>>, NEW P,
             \A i \in DOMAIN stdin : stdin[i] \in Requests => stdin[i].sess \in P
      PROVE  /\ Head(stdin) \in Requests => Head(stdin).sess \in P
             /\ \A i \in DOMAIN Tail(stdin) :
                   Tail(stdin)[i] \in Requests => Tail(stdin)[i].sess \in P
  BY <1>3, <1>5, HeadTailProperties
<1>6. ASSUME NEW f \in Frame
      PROVE  /\ Append(stdout, f) \in Seq(Frame)
             /\ NoneIn(stdout, Result) => OneIn(Append(stdout, f), Result)
             /\ OneIn(stdout, Result) /\ f \notin Result =>
                   OneIn(Append(stdout, f), Result)
             /\ NoneIn(stdout, Result) /\ f \notin Result =>
                   NoneIn(Append(stdout, f), Result)
  BY <1>3, MarksAppend, AppendProperties
<1>7. CASE SrvHello
  <2>1. PICK f \in Hello : stdout' = Append(stdout, f)
    BY <1>7 DEF SrvHello
  <2>2. f \in Frame /\ f \notin Result
    BY <2>1 DEF Hello, Frame, Result
  <2>3. ProcTypeOK'
    BY <1>1, <1>6, <1>7, <2>1, <2>2 DEF SrvHello, ProcTypeOK, ProcState
  <2>4. TokenInv'
    BY <1>1, <1>2, <1>6, <1>7, <2>1, <2>2 DEF SrvHello, TokenInv
  <2> QED BY <1>1, <1>7, <2>3, <2>4, ServerFrame DEF SrvHello, WorkerInv
<1>8. CASE SrvReadRequest
  <2>1. /\ proc = "idle" /\ stdin # <<>> /\ Head(stdin).kind = "cmd"
        /\ stdin' = Tail(stdin) /\ proc' = "run" /\ cur' = Head(stdin).sess
        /\ UNCHANGED <<inc, wclosed, stdout, sigint, asked, succeeded>>
        /\ begun' = [begun EXCEPT ![Head(stdin).sess] = @ + 1]
    BY <1>8 DEF SrvReadRequest
  <2>2. Head(stdin) \in Requests /\ cur' \in Sess
    BY <1>3, <2>1 DEF Requests, Block
  <2>3. ProcTypeOK'
    BY <1>1, <1>3, <2>1, <2>2 DEF ProcTypeOK, ProcState
  <2>4. chtable = "run" /\ cur = NoSess /\ NoneIn(stdout, Result) /\ NoneIn(readq, Result)
    BY <1>1, <1>4, <2>1, <2>2 DEF TokenInv
  <2>5. cur' \in attached
    BY <1>1, <1>5, <2>1, <2>2 DEF TokenInv
  <2>6. NoneIn(stdin', Requests)
    BY <1>1, <1>4, <2>1, <2>2 DEF TokenInv
  <2>7. TokenInv'
    BY <1>2, <1>1, <2>1, <2>4, <2>5, <2>6 DEF TokenInv, NoneIn, OneIn
  <2> QED BY <1>1, <2>1, <2>2, <2>3, <2>7, ServerFrame
<1>9. CASE SrvUnknownRequest \/ SrvEOF \/ SrvCrash
  <2>1. /\ proc' = "dead" /\ sigint' = FALSE /\ cur' = NoSess /\ asked' = 0
        /\ UNCHANGED <<inc, wclosed, stdout, begun, succeeded>>
        /\ proc # "none"
        /\ \/ stdin' = stdin
           \/ stdin # <<>> /\ stdin' = Tail(stdin)
    <3>1. CASE SrvUnknownRequest
      BY <3>1 DEF SrvUnknownRequest, Exit
    <3>2. CASE SrvEOF
      BY <3>2 DEF SrvEOF, Exit
    <3>3. CASE SrvCrash
      BY <3>3 DEF SrvCrash, Exit
    <3> QED BY <1>9, <3>1, <3>2, <3>3
  <2>2. ProcTypeOK'
    <3>1. sigint' \in BOOLEAN
      BY <2>1
    <3>2. asked' \in 0..MaxPrompts
      BY <2>1
    <3>3. stdin' \in Seq(Block)
      BY <1>3, <2>1
    <3>4. UNCHANGED <<inc, wclosed, stdout, begun, succeeded>> /\ proc' = "dead"
          /\ cur' = NoSess
      BY <2>1
    <3> QED BY <1>1, <3>1, <3>2, <3>3, <3>4 DEF ProcTypeOK, ProcState
  <2>3. TokenInv'
    BY <1>1, <1>2, <2>1 DEF TokenInv
  <2> QED BY <1>1, <2>1, <2>2, <2>3, ServerFrame
<1>10. CASE SrvAsk
  <2>1. "line" \in Frame /\ "line" \notin Result
    BY DEF Frame, Result
  <2>2. ProcTypeOK'
    BY <1>1, <1>6, <1>10, <2>1 DEF SrvAsk, ProcTypeOK, ProcState
  <2>3. cur # NoSess
    BY <1>1, <1>10 DEF SrvAsk, WorkerInv
  <2>4. TokenInv'
    BY <1>1, <1>2, <1>6, <1>10, <2>1, <2>3 DEF SrvAsk, TokenInv
  <2> QED BY <1>1, <1>10, <2>2, <2>3, <2>4, ServerFrame DEF SrvAsk
<1>11. CASE SrvReadReply
  <2>1. ProcTypeOK'
    BY <1>1, <1>3, <1>11 DEF SrvReadReply, ProcTypeOK, ProcState
  <2>2. cur # NoSess
    BY <1>1, <1>11 DEF SrvReadReply, WorkerInv
  <2>3. TokenInv'
    BY <1>1, <1>2, <1>4, <1>5, <1>11, <2>2 DEF SrvReadReply, TokenInv
  <2> QED BY <1>1, <1>11, <2>1, <2>2, <2>3, ServerFrame DEF SrvReadReply
<1>12. ASSUME NEW f \in Result, proc \in {"run", "ask"}, Return(f),
              UNCHANGED <<inc, stdin, wclosed, begun>>,
              sigint' \in BOOLEAN, succeeded' \in [Sess -> Nat]
       PROVE  IInv'
  <2>1. f \in Frame
    BY DEF Frame
  <2>2. ProcTypeOK'
    BY <1>1, <1>6, <1>12, <2>1 DEF Return, ProcTypeOK, ProcState
  <2>3. cur # NoSess
    BY <1>1, <1>12 DEF WorkerInv
  <2>4. /\ chtable = "run" /\ NoneIn(stdout, Result) /\ NoneIn(readq, Result)
        /\ NoneIn(stdin, Requests)
    BY <1>1, <1>12, <2>3 DEF TokenInv
  <2>5. OneIn(stdout', Result)
    BY <1>6, <1>12, <2>1, <2>4 DEF Return
  <2>6. TokenInv'
    BY <1>1, <1>2, <1>12, <2>4, <2>5 DEF Return, TokenInv
  <2> QED BY <1>1, <1>12, <2>2, <2>6, ServerFrame DEF Return
<1>13. CASE SrvReturn
  <2>1. cur \in Sess
    BY <1>1, <1>13 DEF SrvReturn, WorkerInv, ProcTypeOK
  <2>2. succeeded' \in [Sess -> Nat] /\ sigint' \in BOOLEAN
    BY <1>1, <1>13, <2>1 DEF SrvReturn, ProcTypeOK
  <2> QED BY <1>12, <1>13, <2>2 DEF SrvReturn, Result
<1>14. CASE SrvInterrupt
  <2>1. CASE proc \in {"run", "ask"} /\ Return("ret255") /\ sigint' = FALSE
    BY <1>1, <1>12, <1>14, <2>1 DEF SrvInterrupt, Result, ProcTypeOK
  <2>2. CASE proc \in {"boot", "idle"} /\ Exit /\ UNCHANGED stdout
    <3>1. ProcTypeOK'
      <4>1. sigint' \in BOOLEAN
        BY <2>2 DEF Exit
      <4>2. asked' \in 0..MaxPrompts
        BY <2>2 DEF Exit
      <4>3. /\ UNCHANGED <<inc, stdin, wclosed, stdout, begun, succeeded>>
            /\ proc' = "dead" /\ cur' = NoSess
        BY <1>14, <2>2 DEF SrvInterrupt, Exit
      <4> QED BY <1>1, <4>1, <4>2, <4>3 DEF ProcTypeOK, ProcState
    <3>2. TokenInv'
      BY <1>1, <1>2, <1>14, <2>2 DEF SrvInterrupt, Exit, TokenInv
    <3> QED BY <1>1, <2>2, <3>1, <3>2, ServerFrame DEF Exit
  <2> QED BY <1>14, <2>1, <2>2 DEF SrvInterrupt
<1> QED BY <1>7, <1>8, <1>9, <1>10, <1>11, <1>13, <1>14 DEF Server, ProcNext

-----------------------------------------------------------------------------
(* Steps of the clients                                                    *)

\* The types of the worker and of what only clients change.
RestTypes ==
    /\ created \in SUBSET Sess
    /\ abortbyuser \in [Sess -> BOOLEAN]
    /\ svc \in ServiceState
    /\ chtable \in {"idle", "hello", "run"}
    /\ uihandler \in Sess \cup {NoSess}
    /\ readq \in Seq(Frame)
    /\ readtimer \in BOOLEAN
    /\ asking \in Seq(Prompt)

\* The type invariant in parts.
LEMMA TypeParts == TypeOK <=> ProcTypeOK /\ QueueTypes /\ RestTypes
BY DEF TypeOK, QueueTypes, RestTypes

\* The same of the next state.
LEMMA TypeNext ==
    ASSUME ProcTypeOK', QueueTypes', RestTypes'
    PROVE  TypeOK'
BY DEF TypeOK, QueueTypes, RestTypes

\* Facts about the state before a step that most steps need.
LEMMA Before ==
    ASSUME IInv
    PROVE  /\ ProcTypeOK /\ QueueTypes /\ RestTypes
           /\ QueueInv /\ WorkerInv /\ TokenInv
           /\ Waiting \subseteq Sess
           /\ sessqueue # <<>> => Head(sessqueue) \in Waiting
           /\ \A s \in attached : s \in Waiting /\ attached = {s}
           /\ runlater => /\ sessqueue # <<>> /\ attached = {}
                          /\ Head(sessqueue) \in Sess
                          /\ qnextp[Head(sessqueue)] = 0
                          /\ chtable # "run"
           /\ \A s \in attached : ~runlater
<1>1. /\ ProcTypeOK /\ QueueTypes /\ RestTypes
      /\ QueueInv /\ WorkerInv /\ TokenInv
  BY TypeParts DEF IInv
<1>2. /\ Waiting \subseteq Sess
      /\ sessqueue # <<>> => Head(sessqueue) \in Waiting
      /\ \A s \in attached : s \in Waiting /\ attached = {s}
  BY <1>1, HeadIsWaiting
<1>3. ASSUME runlater
      PROVE  /\ sessqueue # <<>> /\ attached = {}
             /\ Head(sessqueue) \in Waiting
             /\ qnextp[Head(sessqueue)] = 0
             /\ chtable # "run"
  <2>1. sessqueue # <<>> /\ Head(sessqueue) \notin attached
    BY <1>1, <1>3 DEF QueueInv
  <2>2. attached = {}
    BY <1>1, <2>1 DEF QueueInv
  <2> QED BY <1>1, <1>2, <2>1, <2>2 DEF QueueInv, WorkerInv
<1> QED BY <1>1, <1>2, <1>3

\* A new session is appended to the queue.
LEMMA SubmitInv ==
    ASSUME IInv, NEW s \in Sess, Submit(s)
    PROVE  IInv'
<1>1. /\ s \notin created /\ created' = created \cup {s}
      /\ sessqueue' = Append(sessqueue, s)
      /\ runlater' = (runlater \/ sessqueue = <<>>)
      /\ UNCHANGED <<procVars, sessVars, workerVars>>
  BY DEF Submit
<1>2. s \notin Waiting
  BY <1>1, Before DEF QueueInv
<1>3. /\ sessqueue' \in Seq(Sess) /\ sessqueue' # <<>> /\ IsInjective(sessqueue')
      /\ Waiting' = Waiting \cup {s}
      /\ sessqueue # <<>> => Head(sessqueue') = Head(sessqueue)
      /\ sessqueue = <<>> => Head(sessqueue') = s
  BY <1>1, <1>2, Before, QueueAppend DEF QueueTypes, QueueInv, Waiting
<1>4. UNCHANGED <<attached, qnextp, abortbyuser, exitcode, emitted>>
  BY <1>1 DEF sessVars
<1>5. runlater' \in BOOLEAN
  BY <1>1
<1>6. QueueTypes' /\ ProcTypeOK' /\ RestTypes'
  <2>1. QueueTypes'
    BY <1>3, <1>4, <1>5, Before DEF QueueTypes
  <2>2. ProcTypeOK'
    BY <1>1, Before DEF ProcTypeOK, procVars
  <2>3. RestTypes'
    BY <1>1, <1>4, Before DEF RestTypes, workerVars
  <2> QED BY <2>1, <2>2, <2>3
<1>7. QueueInv'
  <2>1. s \notin attached
    BY <1>2, Before
  <2>2. \A t \in attached' : sessqueue' # <<>> /\ t = Head(sessqueue')
    BY <1>3, <1>4, Before DEF QueueInv
  <2>3. runlater' => sessqueue' # <<>> /\ Head(sessqueue') \notin attached'
    BY <1>1, <1>3, <1>4, <2>1, Before DEF QueueInv
  <2>4. sessqueue' # <<>> => runlater' \/ Head(sessqueue') \in attached'
    BY <1>1, <1>3, <1>4, Before DEF QueueInv
  <2>5. /\ Waiting' \subseteq created'
        /\ \A t \in Waiting' : emitted'[t] = 0 /\ (t \notin attached' => qnextp'[t] = 0)
        /\ \A t \in created' \ Waiting' : emitted'[t] = 1 /\ qnextp'[t] = NCmd[t]
        /\ \A t \in Sess \ created' : emitted'[t] = 0 /\ qnextp'[t] = 0
    BY <1>1, <1>3, <1>4, Before DEF QueueInv
  <2> QED BY <1>3, <2>2, <2>3, <2>4, <2>5 DEF QueueInv
<1>8. WorkerInv' /\ TokenInv'
  BY <1>1, <1>4, Before DEF WorkerInv, TokenInv, procVars, workerVars
<1> QED BY <1>6, <1>7, <1>8, TypeNext DEF IInv

\* A running session is aborted.
LEMMA AbortRunningInv ==
    ASSUME IInv, NEW s \in Sess, AbortRunning(s)
    PROVE  IInv'
<1> USE NCmdAssumption
<1>1. /\ s \in attached /\ qnextp[s] > 0
      /\ qnextp' = [qnextp EXCEPT ![s] = NCmd[s]]
      /\ abortbyuser' = [abortbyuser EXCEPT ![s] = TRUE]
      /\ UNCHANGED <<proc, inc, stdin, wclosed, stdout, cur, asked, begun,
                     succeeded, sessqueue, runlater, created, attached,
                     exitcode, emitted, svc, chtable, uihandler, readq,
                     readtimer, asking>>
  BY DEF AbortRunning, IsRunning, agentVars, workerVars
<1>2. sigint' \in BOOLEAN
  BY Before DEF AbortRunning, Interrupt, ProcTypeOK
<1>3. /\ qnextp' \in [Sess -> Nat] /\ \A t \in Sess : qnextp'[t] <= NCmd[t]
      /\ qnextp'[s] = NCmd[s] /\ NCmd[s] > 0
      /\ \A t \in Sess \ {s} : qnextp'[t] = qnextp[t]
  BY <1>1, Before DEF QueueTypes
<1>4. abortbyuser' \in [Sess -> BOOLEAN]
  BY <1>1, Before DEF RestTypes
<1>5. ProcTypeOK' /\ QueueTypes' /\ RestTypes'
  <2>1. ProcTypeOK'
    BY <1>1, <1>2, Before DEF ProcTypeOK
  <2>2. QueueTypes'
    BY <1>1, <1>3, Before DEF QueueTypes
  <2>3. RestTypes'
    BY <1>1, <1>4, Before DEF RestTypes
  <2> QED BY <2>1, <2>2, <2>3
<1>6. Waiting' = Waiting /\ s \in Waiting
  BY <1>1, Before DEF Waiting
<1>7. QueueInv'
  BY <1>1, <1>3, <1>6, Before DEF QueueInv
<1>8. WorkerInv'
  BY <1>1, <1>3, Before DEF WorkerInv
<1>9. TokenInv'
  BY <1>1, Before DEF TokenInv
<1> QED BY <1>5, <1>7, <1>8, <1>9, TypeNext DEF IInv

\* A session that has not started is aborted.
LEMMA AbortPendingInv ==
    ASSUME IInv, NEW s \in Sess, AbortPending(s)
    PROVE  IInv'
<1> USE NCmdAssumption
<1>1. /\ s \in created /\ ~IsRunning(s) /\ ~IsFinished(s)
      /\ abortbyuser' = [abortbyuser EXCEPT ![s] = TRUE]
      /\ Finish(s, -1)
      /\ created' = created
      /\ UNCHANGED <<proc, inc, stdin, wclosed, stdout, sigint, cur, asked,
                     begun, succeeded, svc, chtable, uihandler, readq,
                     readtimer, asking>>
  BY DEF AbortPending, procVars, workerVars
<1>2. s \in Waiting
  BY <1>1, Before DEF IsFinished, QueueInv, QueueTypes
<1>3. QueueTypes' /\ QueueInv' /\ attached' = attached \ {s}
  BY <1>1, <1>2, Before, FinishInv DEF RestTypes
<1>4. abortbyuser' \in [Sess -> BOOLEAN]
  BY <1>1, Before DEF RestTypes
<1>5. ProcTypeOK' /\ RestTypes'
  BY <1>1, <1>4, Before DEF ProcTypeOK, RestTypes
<1>6. s \in attached => chtable # "run"
  BY <1>1, Before DEF IsRunning, WorkerInv
<1>7. \A t \in attached' : t \in attached /\ qnextp'[t] = qnextp[t]
  BY <1>1, <1>3, Before DEF Finish, QueueTypes
<1>8. WorkerInv'
  BY <1>1, <1>3, <1>6, <1>7, Before DEF WorkerInv
<1>9. TokenInv'
  <2>1. CASE s \in attached
    <3>1. /\ chtable # "run" /\ cur = NoSess
          /\ proc \in Alive => NoneIn(stdin, Requests)
      BY <1>6, <2>1, Before DEF TokenInv
    <3> QED BY <1>1, <3>1, Before DEF TokenInv, NoneIn
  <2>2. CASE s \notin attached
    BY <1>1, <1>3, <2>2, Before DEF TokenInv
  <2> QED BY <2>1, <2>2
<1> QED BY <1>3, <1>5, <1>8, <1>9, TypeNext DEF IInv

\* Stopping the service, with or without dropping a frame from the read queue.
LEMMA StopInv ==
    ASSUME IInv, StopService, readtimer' \in BOOLEAN,
           \/ readq' = readq
           \/ readq # <<>> /\ readq' = Tail(readq),
           UNCHANGED <<proc, inc, stdin, stdout, cur, asked, begun, succeeded,
                       agentVars, sessVars, chtable, uihandler, asking>>
    PROVE  IInv'
<1>1. UNCHANGED <<proc, inc, stdin, stdout, cur, asked, begun, succeeded,
                  sessqueue, runlater, created, attached, qnextp, abortbyuser,
                  exitcode, emitted, chtable, uihandler, asking>>
  BY DEF agentVars, sessVars
<1>2. sigint' \in BOOLEAN /\ wclosed' \in BOOLEAN
  <2>1. sigint' \in BOOLEAN
    BY Before DEF StopService, Interrupt, ProcTypeOK
  <2>2. wclosed' \in BOOLEAN
    BY Before DEF StopService, ProcTypeOK
  <2> QED BY <2>1, <2>2
<1>3. /\ svc' \in ServiceState /\ svc' \notin {"Ready", "Restarting"}
      /\ (svc' = "NotRunning") = (svc = "NotRunning")
  BY Before DEF StopService, ServiceState, RestTypes
<1>4. /\ readq' \in Seq(Frame)
      /\ readq = <<>> => readq' = <<>>
      /\ OneIn(readq, Result) => OneIn(readq', Result)
      /\ NoneIn(readq, Result) => NoneIn(readq', Result)
  <2>1. readq \in Seq(Frame)
    BY Before DEF RestTypes
  <2>2. CASE readq' = readq
    BY <2>1, <2>2
  <2>3. CASE readq # <<>> /\ readq' = Tail(readq)
    <3>1. Tail(readq) \in Seq(Frame)
      BY <2>1, <2>3, HeadTailProperties
    <3>2. /\ OneIn(readq, Result) => OneIn(Tail(readq), Result)
          /\ NoneIn(readq, Result) => NoneIn(Tail(readq), Result)
      BY <2>1, <2>3, MarksTail
    <3> QED BY <2>3, <3>1, <3>2
  <2> QED BY <2>2, <2>3
<1>5. ProcTypeOK'
  BY <1>1, <1>2, Before DEF ProcTypeOK
<1>6. QueueTypes' /\ RestTypes'
  BY <1>1, <1>3, <1>4, Before DEF QueueTypes, RestTypes
<1>7. QueueInv'
  BY <1>1, Before DEF QueueInv, Waiting
<1>8. WorkerInv'
  BY <1>1, <1>3, <1>4, Before DEF WorkerInv
<1>9. TokenInv'
  BY <1>1, <1>4, Before DEF TokenInv
<1> QED BY <1>5, <1>6, <1>7, <1>8, <1>9, TypeNext DEF IInv

\* Every step of a client preserves the invariant.
LEMMA ClientInv ==
    ASSUME IInv, Client
    PROVE  IInv'
<1>1. CASE ClientStop
  <2>1. readtimer' \in BOOLEAN /\ readq' = readq
    BY <1>1, Before DEF ClientStop, RestTypes
  <2> QED BY <1>1, <2>1, StopInv DEF ClientStop
<1> QED BY <1>1, SubmitInv, AbortRunningInv, AbortPendingInv DEF Client

-----------------------------------------------------------------------------
(* Steps of the GUI thread                                                 *)

\* Reading the head of the read queue while the other queues stay as they are:
\* of two results there is still at most one.
LEMMA ReadHead ==
    ASSUME IInv, readq # <<>>
    PROVE  /\ Head(readq) \in Frame
           /\ Tail(readq) \in Seq(Frame)
           /\ OneIn(Tail(readq), Result)
           /\ NoneIn(readq, Result) => NoneIn(Tail(readq), Result)
           /\ Head(readq) \in Result =>
                 /\ NoneIn(Tail(readq), Result) /\ NoneIn(stdout, Result)
                 /\ cur = NoSess
                 /\ proc \in Alive => NoneIn(stdin, Requests)
           /\ proc # "none" /\ svc # "NotRunning"
<1>1. readq \in Seq(Frame) /\ OneIn(readq, Result)
  BY Before DEF RestTypes, TokenInv
<1>2. Head(readq) \in Frame /\ Tail(readq) \in Seq(Frame)
  BY <1>1, HeadTailProperties
<1>3. /\ OneIn(Tail(readq), Result)
      /\ NoneIn(readq, Result) => NoneIn(Tail(readq), Result)
      /\ Head(readq) \in Result =>
            NoneIn(Tail(readq), Result) /\ ~NoneIn(readq, Result)
  BY <1>1, MarksTail
<1>4. proc # "none" /\ svc # "NotRunning"
  BY Before DEF WorkerInv
<1> QED BY <1>2, <1>3, <1>4, Before DEF TokenInv

\* What a slot writes to the process is typed, and is a request only if it is
\* meant to be one.
LEMMA WriteTypes ==
    ASSUME IInv, NEW b \in Block, Write(b)
    PROVE  /\ stdin' \in Seq(Block)
           /\ NoneIn(stdin, Requests) => OneIn(stdin', Requests)
           /\ OneIn(stdin, Requests) /\ b \notin Requests => OneIn(stdin', Requests)
           /\ NoneIn(stdin, Requests) /\ b \notin Requests => NoneIn(stdin', Requests)
           /\ \A i \in DOMAIN stdin' :
                 stdin'[i] = b \/ (i \in DOMAIN stdin /\ stdin'[i] = stdin[i])
<1>1. stdin \in Seq(Block)
  BY Before DEF ProcTypeOK
<1>2. CASE wclosed
  BY <1>1, <1>2 DEF Write, NoneIn, OneIn
<1>3. CASE ~wclosed
  <2>1. stdin' = Append(stdin, b)
    BY <1>3 DEF Write
  <2>2. /\ Append(stdin, b) \in Seq(Block)
        /\ \A i \in DOMAIN Append(stdin, b) :
              \/ Append(stdin, b)[i] = b
              \/ i \in DOMAIN stdin /\ Append(stdin, b)[i] = stdin[i]
    BY <1>1, AppendProperties
  <2> QED BY <1>1, <2>1, <2>2, MarksAppend
<1> QED BY <1>2, <1>3

\* The head of the queue sends its next command while no request is under way.
LEMMA AfterRunNext ==
    ASSUME IInv, NEW s, sessqueue # <<>>, s = Head(sessqueue),
           qnextp[s] < NCmd[s],
           NEW st \in ServiceState \ {"NotRunning", "Restarting"}, svc' = st,
           NEW later, later = FALSE, RunNext(s, st, later),
           proc # "none", cur = NoSess,
           proc \in Alive => NoneIn(stdin, Requests),
           NoneIn(stdout, Result), NoneIn(readq', Result), readq' \in Seq(Frame),
           UNCHANGED <<proc, inc, wclosed, stdout, sigint, cur, asked, begun,
                       succeeded, created, abortbyuser, readtimer, asking>>
    PROVE  IInv'
<1>1. s \in Sess
  BY Before
<1>2. /\ QueueTypes' /\ QueueInv'
      /\ \/ /\ st = "Ready" /\ StartCommand(s)
            /\ attached' = {s} /\ qnextp'[s] > 0
         \/ /\ st # "Ready" /\ CommandIdle /\ stdin' = stdin
            /\ attached' = {s} /\ qnextp'[s] > 0
         \/ CommandIdle /\ stdin' = stdin /\ attached' = {}
  BY Before, RunNextInv DEF RestTypes
<1>3. NoneIn(stdout', Result) /\ OneIn(stdout', Result) /\ OneIn(readq', Result)
  BY DEF NoneIn, OneIn
<1>4. CASE StartCommand(s) /\ attached' = {s} /\ qnextp'[s] > 0
  <2> DEFINE b == [kind |-> "cmd", sess |-> s, inc |-> inc]
  <2>1. b \in Block
    BY <1>1, Before DEF Block, ProcTypeOK
  <2>2. chtable' = "run" /\ uihandler' = s /\ Write(b)
    BY <1>4 DEF StartCommand
  <2>3. /\ stdin' \in Seq(Block)
        /\ proc \in Alive => OneIn(stdin', Requests)
        /\ \A i \in DOMAIN stdin' :
              stdin'[i] = b \/ (i \in DOMAIN stdin /\ stdin'[i] = stdin[i])
    BY <2>1, <2>2, WriteTypes
  <2>4. proc \in Alive => \A i \in DOMAIN stdin' :
                              stdin'[i] \in Requests => stdin'[i].sess \in attached'
    BY <1>4, <2>3 DEF NoneIn
  <2>5. ProcTypeOK'
    BY <2>3, Before DEF ProcTypeOK
  <2>6. RestTypes'
    BY <1>1, <2>2, Before DEF RestTypes
  <2>7. WorkerInv'
    BY <1>4, <2>2, Before DEF WorkerInv
  <2>8. TokenInv'
    BY <1>3, <2>2, <2>3, <2>4 DEF TokenInv
  <2> QED BY <1>2, <2>5, <2>6, <2>7, <2>8, TypeNext DEF IInv
<1>5. CASE /\ CommandIdle /\ stdin' = stdin
           /\ \A t \in attached' : st # "Ready" /\ qnextp'[t] > 0
  <2>1. chtable' = "idle" /\ uihandler' = NoSess
    BY <1>5 DEF CommandIdle
  <2>2. ProcTypeOK'
    BY <1>5, Before DEF ProcTypeOK
  <2>3. RestTypes'
    BY <2>1, Before DEF RestTypes
  <2>4. WorkerInv'
    BY <1>5, <2>1, Before DEF WorkerInv
  <2>5. TokenInv'
    BY <1>3, <1>5, <2>1 DEF TokenInv, NoneIn, OneIn
  <2> QED BY <1>2, <2>2, <2>3, <2>4, <2>5, TypeNext DEF IInv
<1> QED BY <1>2, <1>4, <1>5

\* The listening session is over while no request is under way.
LEMMA AfterFinish ==
    ASSUME IInv, NEW s \in attached, NEW ret \in {-1, 0, 255},
           Finish(s, ret), CommandIdle, stdin' = stdin, cur' = NoSess,
           svc' \in ServiceState, proc' \in ProcState,
           (svc' = "NotRunning") = (proc' = "none"), proc' \notin {"run", "ask"},
           svc' = "NotRunning" => stdout' = <<>> /\ readq' = <<>>,
           proc' \in Alive => NoneIn(stdin, Requests),
           stdout' \in Seq(Frame), readq' \in Seq(Frame),
           NoneIn(stdout', Result), NoneIn(readq', Result),
           readtimer' \in BOOLEAN,
           UNCHANGED <<inc, wclosed, sigint, asked, begun, succeeded, created,
                       abortbyuser, asking>>
    PROVE  IInv'
<1>1. s \in Waiting /\ attached = {s}
  BY Before
<1>2. QueueTypes' /\ QueueInv' /\ attached' = {}
  BY <1>1, Before, FinishInv DEF RestTypes
<1>3. chtable' = "idle" /\ uihandler' = NoSess
  BY DEF CommandIdle
<1>4. ProcTypeOK'
  BY Before DEF ProcTypeOK
<1>5. RestTypes'
  BY <1>3, Before DEF RestTypes
<1>6. WorkerInv'
  BY <1>2, <1>3 DEF WorkerInv
<1>7. OneIn(stdout', Result) /\ OneIn(readq', Result)
  BY DEF OneIn, NoneIn
<1>8. TokenInv'
  BY <1>3, <1>7 DEF TokenInv, NoneIn, OneIn
<1> QED BY <1>2, <1>4, <1>5, <1>6, <1>8, TypeNext DEF IInv

\* CmdAgent._runNextSession on a ready service.
LEMMA RunNextSessionInv ==
    ASSUME IInv, RunNextSession
    PROVE  IInv'
<1> USE NCmdAssumption
<1>1. /\ sessqueue # <<>> /\ Head(sessqueue) \in Sess
      /\ qnextp[Head(sessqueue)] = 0 /\ chtable # "run"
  BY Before DEF RunNextSession
<1>2. qnextp[Head(sessqueue)] < NCmd[Head(sessqueue)]
  BY <1>1
<1>3. /\ svc = "Ready" /\ RunNext(Head(sessqueue), svc, FALSE)
      /\ UNCHANGED <<proc, inc, wclosed, stdout, sigint, cur, asked, begun,
                     succeeded, created, abortbyuser, svc, readq, readtimer,
                     asking>>
  BY DEF RunNextSession
<1>4. proc # "none"
  BY <1>3, Before DEF WorkerInv
<1>5. /\ cur = NoSess /\ NoneIn(stdout, Result) /\ NoneIn(readq, Result)
      /\ proc \in Alive => NoneIn(stdin, Requests)
  BY <1>1, Before DEF TokenInv
<1>6. readq' \in Seq(Frame)
  BY <1>3, Before DEF RestTypes
<1>7. svc \in ServiceState \ {"NotRunning", "Restarting"}
  BY <1>3 DEF ServiceState
<1> QED BY <1>1, <1>2, <1>3, <1>4, <1>5, <1>6, <1>7, AfterRunNext

\* A new server process starts with empty pipes.
LEMMA StartServiceInv ==
    ASSUME IInv, StartService, cur = NoSess,
           QueueTypes', QueueInv', \A s \in attached' : qnextp'[s] = 0,
           readq' \in Seq(Frame), NoneIn(readq', Result),
           uihandler' \in Sess \cup {NoSess},
           UNCHANGED <<created, abortbyuser, asking>>
    PROVE  IInv'
<1>1. /\ proc' = "boot" /\ inc' = inc + 1 /\ wclosed' = FALSE /\ stdout' = <<>>
      /\ sigint' = FALSE /\ stdin' = <<>> /\ chtable' = "hello"
      /\ readtimer' = TRUE /\ svc' = "Starting"
      /\ UNCHANGED <<cur, asked, begun, succeeded>>
  BY DEF StartService, Spawn
<1>2. sigint' \in BOOLEAN /\ wclosed' \in BOOLEAN
  BY <1>1
<1>3. ProcTypeOK'
  BY <1>1, <1>2, Before DEF ProcTypeOK, ProcState
<1>4. readtimer' \in BOOLEAN
  BY <1>1
<1>5. RestTypes'
  BY <1>1, <1>4, Before DEF RestTypes, ServiceState
<1>6. WorkerInv'
  BY <1>1, <1>3 DEF WorkerInv
<1>7. TokenInv'
  BY <1>1 DEF TokenInv, NoneIn, OneIn
<1> QED BY <1>3, <1>5, <1>6, <1>7, TypeNext DEF IInv

\* CmdAgent._runNextSession on a service that is not ready.
LEMMA RunNextSessionLaterInv ==
    ASSUME IInv, RunNextSessionLater
    PROVE  IInv'
<1> DEFINE h == Head(sessqueue)
<1>1. /\ sessqueue # <<>> /\ h \in Sess /\ qnextp[h] = 0 /\ chtable # "run"
      /\ attached = {}
  BY Before DEF RunNextSessionLater
<1>2. /\ svc # "Ready" /\ attached' = {h} /\ runlater' = FALSE
      /\ UNCHANGED <<sessqueue, created, qnextp, abortbyuser, exitcode, emitted,
                     uihandler, readq, asking>>
  BY <1>1 DEF RunNextSessionLater
<1>3. runlater' \in BOOLEAN
  BY <1>2
<1>4. QueueTypes'
  BY <1>1, <1>2, <1>3, Before DEF QueueTypes
<1>5. QueueInv'
  BY <1>1, <1>2, Before DEF QueueInv, Waiting
<1>6. /\ cur = NoSess /\ NoneIn(stdout, Result) /\ NoneIn(readq, Result)
      /\ proc \in Alive => NoneIn(stdin, Requests)
  BY <1>1, Before DEF TokenInv
<1>7. \A s \in attached' : qnextp'[s] = 0
  BY <1>1, <1>2
<1>8. CASE StartService
  <2>1. readq' \in Seq(Frame) /\ NoneIn(readq', Result)
    BY <1>2, <1>6, Before DEF RestTypes
  <2>2. uihandler' \in Sess \cup {NoSess}
    BY <1>2, Before DEF RestTypes
  <2> QED BY <1>2, <1>4, <1>5, <1>6, <1>7, <1>8, <2>1, <2>2, StartServiceInv
<1>9. CASE /\ \/ svc = "Stopping" /\ svc' = "Restarting"
              \/ svc \in {"Starting", "Restarting"} /\ svc' = svc
           /\ UNCHANGED <<procVars, chtable, readtimer>>
  <2>1. ProcTypeOK'
    BY <1>9, Before DEF ProcTypeOK, procVars
  <2>2. RestTypes'
    BY <1>2, <1>9, Before DEF RestTypes, ServiceState
  <2>3. WorkerInv'
    BY <1>1, <1>2, <1>7, <1>9, Before DEF WorkerInv, procVars
  <2>4. TokenInv'
    BY <1>1, <1>2, <1>6, <1>9, Before DEF TokenInv, procVars, NoneIn
  <2> QED BY <1>4, <1>5, <2>1, <2>2, <2>3, <2>4, TypeNext DEF IInv
<1> QED BY <1>8, <1>9 DEF RunNextSessionLater

\* CmdServer._onReadyRead: a result moves from the pipe to the read queue, or
\* stays in the part of the pipe not yet complete.
LEMMA ReadyReadInv ==
    ASSUME IInv, ReadyRead
    PROVE  IInv'
<1>1. UNCHANGED <<proc, inc, stdin, wclosed, sigint, cur, asked, begun,
                  succeeded, sessqueue, runlater, created, attached, qnextp,
                  abortbyuser, exitcode, emitted, svc, chtable, uihandler,
                  asking>>
  BY DEF ReadyRead, agentVars, sessVars
<1>2. stdout \in Seq(Frame) /\ readq \in Seq(Frame) /\ stdout # <<>>
  BY Before DEF ReadyRead, ProcTypeOK, RestTypes
<1>3. /\ OneIn(stdout, Result) /\ OneIn(readq, Result)
      /\ NoneIn(stdout, Result) \/ NoneIn(readq, Result)
  BY Before DEF TokenInv
<1>4. PICK u \in Seq(Frame), v \in Seq(Frame) :
         /\ readq' = readq \o u /\ stdout' = v
         /\ OneIn(u, Result) /\ OneIn(v, Result)
         /\ NoneIn(u, Result) \/ NoneIn(v, Result)
         /\ NoneIn(stdout, Result) => NoneIn(u, Result) /\ NoneIn(v, Result)
         /\ readtimer' \in BOOLEAN
  <2>1. CASE readq' = readq \o stdout /\ stdout' = <<>> /\ readtimer' = FALSE
    <3>1. NoneIn(<<>>, Result) /\ OneIn(<<>>, Result) /\ <<>> \in Seq(Frame)
      BY DEF NoneIn, OneIn
    <3>2. readtimer' \in BOOLEAN
      BY <2>1
    <3> QED BY <1>2, <1>3, <2>1, <3>1, <3>2
  <2>2. ASSUME NEW n \in 0..(Len(stdout) - 1),
               readq' = readq \o SubSeq(stdout, 1, n),
               stdout' = SubSeq(stdout, n + 1, Len(stdout)),
               readtimer' = TRUE
        PROVE  \E u \in Seq(Frame), v \in Seq(Frame) :
                 /\ readq' = readq \o u /\ stdout' = v
                 /\ OneIn(u, Result) /\ OneIn(v, Result)
                 /\ NoneIn(u, Result) \/ NoneIn(v, Result)
                 /\ NoneIn(stdout, Result) => NoneIn(u, Result) /\ NoneIn(v, Result)
                 /\ readtimer' \in BOOLEAN
    <3> DEFINE u == SubSeq(stdout, 1, n)
               v == SubSeq(stdout, n + 1, Len(stdout))
    <3>1. /\ u \in Seq(Frame) /\ v \in Seq(Frame)
          /\ OneIn(u, Result) /\ OneIn(v, Result)
          /\ NoneIn(u, Result) \/ NoneIn(v, Result)
          /\ NoneIn(stdout, Result) => NoneIn(u, Result) /\ NoneIn(v, Result)
      BY <1>2, <1>3, MarksCut
    <3>2. readtimer' \in BOOLEAN
      BY <2>2
    <3>3. readq' = readq \o u /\ stdout' = v
      BY <2>2
    <3> HIDE DEF u, v
    <3> QED BY <3>1, <3>2, <3>3
  <2> QED BY <2>1, <2>2 DEF ReadyRead
<1>5. /\ readq' \in Seq(Frame) /\ OneIn(readq', Result)
      /\ NoneIn(readq', Result) \/ NoneIn(stdout', Result)
      /\ NoneIn(readq, Result) /\ NoneIn(stdout, Result) =>
            NoneIn(readq', Result) /\ NoneIn(stdout', Result)
  <2>1. readq \o u \in Seq(Frame)
    BY <1>2, <1>4, ConcatProperties
  <2>2. /\ OneIn(readq, Result) /\ NoneIn(u, Result) => OneIn(readq \o u, Result)
        /\ NoneIn(readq, Result) /\ OneIn(u, Result) => OneIn(readq \o u, Result)
        /\ NoneIn(readq, Result) /\ NoneIn(u, Result) => NoneIn(readq \o u, Result)
    BY <1>2, <1>4, MarksConcat
  <2> QED BY <1>3, <1>4, <2>1, <2>2
<1>6. ProcTypeOK'
  BY <1>1, <1>4, Before DEF ProcTypeOK
<1>7. QueueTypes' /\ RestTypes'
  BY <1>1, <1>4, <1>5, Before DEF QueueTypes, RestTypes
<1>8. QueueInv'
  BY <1>1, Before DEF QueueInv, Waiting
<1>9. svc # "NotRunning"
  BY <1>2, Before DEF WorkerInv
<1>10. WorkerInv'
  BY <1>1, <1>9, Before DEF WorkerInv
<1>11. TokenInv'
  BY <1>1, <1>4, <1>5, Before DEF TokenInv
<1> QED BY <1>6, <1>7, <1>8, <1>10, <1>11, TypeNext DEF IInv

\* CmdServer._onReadTimeout and an invalid hello message stop the service.
LEMMA StoppingSlotsInv ==
    ASSUME IInv, ReadTimeout \/ DispatchBadHello
    PROVE  IInv'
<1>1. readtimer' \in BOOLEAN
  <2>1. CASE ReadTimeout
    <3>1. readtimer' = FALSE
      BY <2>1 DEF ReadTimeout
    <3> QED BY <3>1
  <2>2. CASE DispatchBadHello
    BY <2>2, Before DEF DispatchBadHello, RestTypes
  <2> QED BY <2>1, <2>2
<1>2. /\ StopService
      /\ \/ readq' = readq
         \/ readq # <<>> /\ readq' = Tail(readq)
      /\ UNCHANGED <<proc, inc, stdin, stdout, cur, asked, begun, succeeded,
                     agentVars, sessVars, chtable, uihandler, asking>>
  BY DEF ReadTimeout, DispatchBadHello
<1> QED BY <1>1, <1>2, StopInv

\* CmdServer._processHello: the waiting session, if any, sends its first
\* command.
LEMMA DispatchHelloInv ==
    ASSUME IInv, DispatchHello
    PROVE  IInv'
<1> USE NCmdAssumption
<1>1. /\ readq # <<>> /\ chtable = "hello" /\ readq' = Tail(readq) /\ svc' = "Ready"
      /\ UNCHANGED <<proc, inc, wclosed, stdout, sigint, cur, asked, begun,
                     succeeded, created, abortbyuser, readtimer, asking>>
  BY DEF DispatchHello
<1>2. /\ cur = NoSess /\ NoneIn(stdout, Result) /\ NoneIn(readq, Result)
      /\ proc \in Alive => NoneIn(stdin, Requests)
  BY <1>1, Before DEF TokenInv
<1>3. readq' \in Seq(Frame) /\ NoneIn(readq', Result) /\ proc # "none"
  BY <1>1, <1>2, ReadHead
<1>4. CASE attached = {}
  <2>1. /\ chtable' = "idle"
        /\ UNCHANGED <<stdin, uihandler, sessqueue, runlater, attached, qnextp,
                       exitcode, emitted>>
    BY <1>4 DEF DispatchHello
  <2>2. ProcTypeOK'
    BY <1>1, <2>1, Before DEF ProcTypeOK
  <2>3. QueueTypes' /\ RestTypes'
    BY <1>1, <1>3, <2>1, Before DEF QueueTypes, RestTypes, ServiceState
  <2>4. QueueInv'
    BY <1>1, <2>1, Before DEF QueueInv, Waiting
  <2>5. WorkerInv'
    BY <1>1, <1>3, <1>4, <2>1, Before DEF WorkerInv
  <2>6. TokenInv'
    BY <1>1, <1>2, <1>3, <2>1 DEF TokenInv, NoneIn, OneIn
  <2> QED BY <2>2, <2>3, <2>4, <2>5, <2>6, TypeNext DEF IInv
<1>5. CASE attached # {}
  <2>1. PICK s \in attached : RunNext(s, "Ready", runlater)
    BY <1>5 DEF DispatchHello
  <2>2. runlater = FALSE
    BY <2>1, Before DEF QueueTypes
  <2>3. sessqueue # <<>> /\ s = Head(sessqueue) /\ s \in Sess /\ qnextp[s] = 0
    BY <1>1, Before DEF QueueInv, WorkerInv
  <2>4. qnextp[s] < NCmd[s]
    BY <2>3
  <2>5. "Ready" \in ServiceState \ {"NotRunning", "Restarting"}
    BY DEF ServiceState
  <2> QED BY <1>1, <1>2, <1>3, <2>1, <2>2, <2>3, <2>4, <2>5, AfterRunNext
<1> QED BY <1>4, <1>5

\* CmdServer._processCommandResult: the listening session sends its next
\* command or is over.
LEMMA DispatchResultInv ==
    ASSUME IInv, DispatchResult
    PROVE  IInv'
<1> USE NCmdAssumption
<1>1. /\ readq # <<>> /\ Head(readq) \in Result /\ chtable = "run"
      /\ readq' = Tail(readq)
      /\ UNCHANGED <<proc, inc, wclosed, stdout, sigint, cur, asked, begun,
                     succeeded, created, abortbyuser, svc, readtimer, asking>>
  BY DEF DispatchResult
<1>2. /\ cur = NoSess /\ NoneIn(stdout, Result) /\ NoneIn(readq', Result)
      /\ proc \in Alive => NoneIn(stdin, Requests)
      /\ readq' \in Seq(Frame) /\ proc # "none" /\ svc # "NotRunning"
  BY <1>1, ReadHead
<1>3. PICK s \in attached :
         SessionOnCommandFinished(s, IF Head(readq) = "ret0" THEN 0 ELSE 255)
  BY DEF DispatchResult
<1> DEFINE ret == IF Head(readq) = "ret0" THEN 0 ELSE 255
<1>4. /\ sessqueue # <<>> /\ s = Head(sessqueue) /\ s \in Sess /\ qnextp[s] > 0
      /\ runlater = FALSE
  BY <1>1, Before DEF QueueInv, QueueTypes, WorkerInv
<1>5. svc \in ServiceState \ {"NotRunning", "Restarting"}
  BY <1>2, <1>4, Before DEF WorkerInv, RestTypes
<1>6. CASE Finish(s, ret) /\ CommandIdle /\ UNCHANGED stdin
  <2>1. ret \in {-1, 0, 255}
    OBVIOUS
  <2>2. proc \in ProcState /\ stdout \in Seq(Frame) /\ readtimer \in BOOLEAN
    BY Before DEF ProcTypeOK, RestTypes
  <2>3. proc' \notin {"run", "ask"} /\ proc' # "none" /\ svc' # "NotRunning"
    BY <1>1, <1>2, Before DEF WorkerInv
  <2>4. svc' \in ServiceState
    BY <1>1, <1>5
  <2> HIDE DEF ret
  <2> QED BY <1>1, <1>2, <1>6, <2>1, <2>2, <2>3, <2>4, AfterFinish
<1>7. CASE ~(ret # 0 \/ qnextp[s] >= NCmd[s]) /\ RunNext(s, svc, runlater)
  <2>1. qnextp[s] < NCmd[s]
    BY <1>4, <1>7, Before DEF QueueTypes
  <2> QED BY <1>1, <1>2, <1>4, <1>5, <1>7, <2>1, AfterRunNext
<1> QED BY <1>3, <1>6, <1>7 DEF SessionOnCommandFinished

\* A slot that writes at most the answer to a prompt, and reads at most a
\* request for one.
LEMMA PromptFrame ==
    ASSUME IInv, NEW b \in Block, b \notin Requests,
           stdin' = stdin \/ Write(b),
           \/ readq' = readq
           \/ readq # <<>> /\ readq' = Tail(readq),
           sigint' \in BOOLEAN, asking' \in Seq(Prompt),
           UNCHANGED <<proc, inc, wclosed, stdout, cur, asked, begun, succeeded,
                       agentVars, sessVars, svc, chtable, uihandler, readtimer>>
    PROVE  IInv'
<1>1. UNCHANGED <<proc, inc, wclosed, stdout, cur, asked, begun, succeeded,
                  sessqueue, runlater, created, attached, qnextp, abortbyuser,
                  exitcode, emitted, svc, chtable, uihandler, readtimer>>
  BY DEF agentVars, sessVars
<1>2. /\ stdin' \in Seq(Block)
      /\ OneIn(stdin, Requests) => OneIn(stdin', Requests)
      /\ NoneIn(stdin, Requests) => NoneIn(stdin', Requests)
      /\ \A i \in DOMAIN stdin' : stdin'[i] \in Requests =>
            \E j \in DOMAIN stdin : stdin'[i] = stdin[j]
  <2>1. CASE stdin' = stdin
    BY <2>1, Before DEF ProcTypeOK
  <2>2. CASE Write(b)
    BY <2>2, WriteTypes
  <2> QED BY <2>1, <2>2
<1>3. ~NoneIn(stdin', Requests) => ~NoneIn(stdin, Requests)
  BY <1>2
<1>4. /\ readq' \in Seq(Frame)
      /\ readq = <<>> => readq' = <<>>
      /\ OneIn(readq, Result) => OneIn(readq', Result)
      /\ NoneIn(readq, Result) => NoneIn(readq', Result)
  <2>1. CASE readq' = readq
    BY <2>1, Before DEF RestTypes
  <2>2. CASE readq # <<>> /\ readq' = Tail(readq)
    BY <2>2, ReadHead
  <2> QED BY <2>1, <2>2
<1>5. ProcTypeOK'
  BY <1>1, <1>2, Before DEF ProcTypeOK
<1>6. QueueTypes' /\ RestTypes'
  BY <1>1, <1>4, Before DEF QueueTypes, RestTypes
<1>7. QueueInv'
  BY <1>1, Before DEF QueueInv, Waiting
<1>8. WorkerInv'
  BY <1>1, <1>4, Before DEF WorkerInv
<1>9. TokenInv'
  <2>1. proc \in Alive => \A i \in DOMAIN stdin' :
                            stdin'[i] \in Requests => stdin'[i].sess \in attached
    BY <1>2, Before DEF TokenInv
  <2> QED BY <1>1, <1>2, <1>3, <1>4, <2>1, Before DEF TokenInv
<1> QED BY <1>5, <1>6, <1>7, <1>8, <1>9, TypeNext DEF IInv

\* CmdServer._processLineRequest, with and without a prompt.
LEMMA PromptInv ==
    ASSUME IInv, DispatchLineRequest \/ OpenPrompt \/ AnswerPrompt
    PROVE  IInv'
<1>1. /\ inc \in Nat /\ sigint \in BOOLEAN /\ asking \in Seq(Prompt)
      /\ chtable = "run" => uihandler \in Sess
  BY Before DEF ProcTypeOK, RestTypes, QueueTypes, WorkerInv
<1>2. CASE DispatchLineRequest
  <2> DEFINE b == [kind |-> "text", sess |-> uihandler, inc |-> inc]
  <2>1. b \in Block /\ b \notin Requests
    BY <1>1, <1>2 DEF DispatchLineRequest, Block, Requests
  <2>2. Write(b) /\ readq # <<>> /\ readq' = Tail(readq)
    BY <1>2 DEF DispatchLineRequest
  <2>3. /\ sigint' = sigint /\ asking' = asking
        /\ UNCHANGED <<proc, inc, wclosed, stdout, cur, asked, begun, succeeded,
                       agentVars, sessVars, svc, chtable, uihandler, readtimer>>
    BY <1>2 DEF DispatchLineRequest
  <2> HIDE DEF b
  <2> QED BY <1>1, <2>1, <2>2, <2>3, PromptFrame
<1>3. CASE OpenPrompt
  <2> DEFINE b == [kind |-> "text", sess |-> uihandler, inc |-> inc]
  <2>1. b \in Block /\ b \notin Requests
    BY <1>1, <1>3 DEF OpenPrompt, Block, Requests
  <2>2. /\ readq # <<>> /\ readq' = Tail(readq) /\ stdin' = stdin
        /\ sigint' = sigint
        /\ UNCHANGED <<proc, inc, wclosed, stdout, cur, asked, begun, succeeded,
                       agentVars, sessVars, svc, chtable, uihandler, readtimer>>
    BY <1>3 DEF OpenPrompt, procVars
  <2>3. asking' \in Seq(Prompt)
    <3>1. [sess |-> uihandler, inc |-> inc] \in Prompt
      BY <1>1, <1>3 DEF OpenPrompt, Prompt
    <3> QED BY <1>1, <1>3, <3>1, AppendProperties DEF OpenPrompt
  <2> HIDE DEF b
  <2> QED BY <1>1, <2>1, <2>2, <2>3, PromptFrame
<1>4. CASE AnswerPrompt
  <2>1. /\ Last(asking) \in Prompt /\ Front(asking) \in Seq(Prompt)
        /\ asking' = Front(asking)
    <3>1. asking # <<>> /\ asking' = Front(asking)
      BY <1>4 DEF AnswerPrompt
    <3>2. Len(asking) \in Nat \ {0} /\ asking \in [1..Len(asking) -> Prompt]
      BY <1>1, <3>1
    <3>3. Last(asking) \in Prompt
      BY <3>2 DEF Last
    <3>4. Front(asking) \in Seq(Prompt)
      <4>1. Front(asking) = SubSeq(asking, 1, Len(asking) - 1)
        BY DEF Front
      <4>2. /\ 1 \in Int /\ Len(asking) - 1 \in Int
            /\ \A i \in 1..(Len(asking) - 1) : asking[i] \in Prompt
        BY <3>2
      <4> QED BY <4>1, <4>2, SubSeqProperties
    <3> QED BY <3>1, <3>3, <3>4
  <2>2. PICK kind \in {"text", "cancel"} :
           \/ stdin' = stdin
           \/ Write([kind |-> kind, sess |-> Last(asking).sess,
                     inc |-> Last(asking).inc])
    BY <1>4 DEF AnswerPrompt
  <2> DEFINE b == [kind |-> kind, sess |-> Last(asking).sess,
                   inc |-> Last(asking).inc]
  <2>3. b \in Block /\ b \notin Requests
    BY <2>1 DEF Block, Requests, Prompt
  <2>4. sigint' \in BOOLEAN
    BY <1>1, <1>4 DEF AnswerPrompt, Interrupt
  <2>5. /\ readq' = readq
        /\ UNCHANGED <<proc, inc, wclosed, stdout, cur, asked, begun, succeeded,
                       agentVars, sessVars, svc, chtable, uihandler, readtimer>>
    BY <1>4 DEF AnswerPrompt
  <2>6. stdin' = stdin \/ Write(b)
    BY <2>2
  <2> HIDE DEF b
  <2> QED BY <2>1, <2>3, <2>4, <2>5, <2>6, PromptFrame
<1> QED BY <1>2, <1>3, <1>4

\* CmdServer._onServiceFinished, when a restart is due and when not.
LEMMA ServiceFinishedInv ==
    ASSUME IInv, ServiceRestarted \/ ServiceFinished
    PROVE  IInv'
<1>1. proc = "dead" /\ cur = NoSess
  BY Before DEF ServiceRestarted, ServiceFinished, WorkerInv
<1>2. CASE ServiceRestarted
  <2>1. /\ svc = "Restarting" /\ StartService /\ readq' = <<>>
        /\ uihandler' = NoSess
        /\ UNCHANGED <<sessqueue, runlater, created, attached, qnextp,
                       abortbyuser, exitcode, emitted, asking>>
    BY <1>2 DEF ServiceRestarted, agentVars, sessVars
  <2>2. QueueTypes'
    BY <2>1, Before DEF QueueTypes
  <2>3. QueueInv'
    BY <2>1, Before DEF QueueInv, Waiting
  <2>4. \A s \in attached' : qnextp'[s] = 0
    BY <2>1, Before DEF WorkerInv
  <2>5. readq' \in Seq(Frame) /\ NoneIn(readq', Result)
    BY <2>1 DEF NoneIn
  <2> QED BY <1>1, <2>1, <2>2, <2>3, <2>4, <2>5, StartServiceInv
<1>3. CASE ServiceFinished
  <2>1. /\ proc' = "none" /\ svc' = "NotRunning" /\ stdout' = <<>> /\ readq' = <<>>
        /\ CommandIdle
        /\ UNCHANGED <<inc, stdin, wclosed, sigint, cur, asked, begun, succeeded,
                       created, asking>>
    BY <1>3 DEF ServiceFinished
  <2>2. readtimer' \in BOOLEAN
    <3>1. readtimer' = FALSE
      BY <1>3 DEF ServiceFinished
    <3> QED BY <3>1
  <2>3. /\ stdout' \in Seq(Frame) /\ NoneIn(stdout', Result)
        /\ readq' \in Seq(Frame) /\ NoneIn(readq', Result)
    BY <2>1 DEF NoneIn
  <2>4. chtable' = "idle" /\ uihandler' = NoSess
    BY <2>1 DEF CommandIdle
  <2>5. CASE attached = {}
    <3>1. UNCHANGED <<sessqueue, runlater, attached, qnextp, abortbyuser,
                      exitcode, emitted>>
      BY <1>3, <2>5 DEF ServiceFinished, sessVars
    <3>2. ProcTypeOK'
      BY <2>1, <2>3, Before DEF ProcTypeOK, ProcState
    <3>3. QueueTypes' /\ RestTypes'
      BY <2>1, <2>2, <2>3, <2>4, <3>1, Before DEF QueueTypes, RestTypes, ServiceState
    <3>4. QueueInv'
      BY <2>1, <3>1, Before DEF QueueInv, Waiting
    <3>5. WorkerInv'
      BY <1>1, <2>1, <2>4, <2>5, <3>1 DEF WorkerInv
    <3>6. TokenInv'
      BY <1>1, <2>1, <2>3, <2>4 DEF TokenInv, NoneIn, OneIn, Alive
    <3> QED BY <3>2, <3>3, <3>4, <3>5, <3>6, TypeNext DEF IInv
  <2>6. CASE attached # {}
    <3>1. PICK s \in attached : Finish(s, -1)
      BY <1>3, <2>6 DEF ServiceFinished
    <3>2. abortbyuser' = abortbyuser
      BY <1>3, <2>6 DEF ServiceFinished
    <3>3. /\ svc' \in ServiceState /\ proc' \in ProcState /\ proc' \notin Alive
          /\ proc' \notin {"run", "ask"} /\ cur' = NoSess
      BY <1>1, <2>1 DEF ServiceState, ProcState, Alive
    <3> QED BY <2>1, <2>2, <2>3, <3>1, <3>2, <3>3, AfterFinish
  <2> QED BY <2>5, <2>6
<1> QED BY <1>2, <1>3

\* Every slot of the GUI thread preserves the invariant.
LEMMA GuiInv ==
    ASSUME IInv, Gui
    PROVE  IInv'
BY RunNextSessionInv, RunNextSessionLaterInv, ReadyReadInv, StoppingSlotsInv,
   DispatchHelloInv, DispatchResultInv, PromptInv, ServiceFinishedInv DEF Gui

-----------------------------------------------------------------------------
(* The invariant, and what follows from it                                 *)

\* Nothing is queued or running when the program starts.
LEMMA InitInv == Init => IInv
<1> SUFFICES ASSUME Init PROVE IInv
  OBVIOUS
<1> USE NCmdAssumption, MaxPromptsAssumption DEF Init, ProcInit
<1>1. TypeOK
  <2>1. wclosed \in BOOLEAN
    OBVIOUS
  <2>2. sigint \in BOOLEAN
    OBVIOUS
  <2>3. runlater \in BOOLEAN
    OBVIOUS
  <2>4. readtimer \in BOOLEAN
    OBVIOUS
  <2>5. abortbyuser \in [Sess -> BOOLEAN]
    OBVIOUS
  <2>6. ProcTypeOK
    BY <2>1, <2>2 DEF ProcTypeOK, ProcState
  <2>7. QueueTypes
    BY <2>3 DEF QueueTypes
  <2>8. RestTypes
    BY <2>4, <2>5 DEF RestTypes, ServiceState
  <2> QED BY <2>6, <2>7, <2>8, TypeParts
<1>2. QueueInv
  BY DEF QueueInv, Waiting, ToSet, IsInjective
<1>3. WorkerInv
  BY DEF WorkerInv
<1>4. TokenInv
  BY DEF TokenInv, NoneIn, OneIn, Alive
<1> QED BY <1>1, <1>2, <1>3, <1>4 DEF IInv

\* Every step preserves the invariant.
LEMMA NextInv == IInv /\ [Next]_vars => IInv'
<1> SUFFICES ASSUME IInv, [Next]_vars PROVE IInv'
  OBVIOUS
<1>1. CASE UNCHANGED vars
  <2> USE <1>1 DEF vars, procVars, guiVars, agentVars, sessVars, workerVars
  <2>1. TypeOK' = TypeOK
    BY DEF TypeOK, ProcTypeOK
  <2>2. QueueInv' = QueueInv
    BY DEF QueueInv, Waiting
  <2>3. WorkerInv' = WorkerInv
    BY DEF WorkerInv
  <2>4. TokenInv' = TokenInv
    BY DEF TokenInv
  <2> QED BY <2>1, <2>2, <2>3, <2>4 DEF IInv
<1> QED BY <1>1, ClientInv, GuiInv, ServerInv DEF Next

-----------------------------------------------------------------------------
(* The order of the messages                                               *)

\* What may be on its way to the worker, oldest first: nothing between
\* commands, one hello message before the first command, and during a command
\* requests for input, then its result.
InOrder(f, ch) ==
    /\ ch = "idle" => f = <<>>
    /\ ch = "hello" => Len(f) <= 1 /\ \A i \in DOMAIN f : f[i] \in Hello
    /\ ch = "run" => \A i \in DOMAIN f : /\ f[i] \in Result \cup {"line"}
                                         /\ f[i] \in Result => i = Len(f)

\* The messages written and read ahead are in order; a process that boots has
\* written nothing yet.
FrameInv ==
    /\ InOrder(readq \o stdout, chtable)
    /\ proc = "boot" => chtable = "hello" /\ readq = <<>> /\ stdout = <<>>

\* What writing and reading a message does to the order.
LEMMA OrderFacts ==
    ASSUME NEW f \in Seq(Frame), NEW ch \in {"idle", "hello", "run"}
    PROVE  /\ InOrder(<<>>, ch)
           /\ f # <<>> /\ InOrder(f, ch) =>
                 /\ ch # "idle" /\ InOrder(Tail(f), ch)
                 /\ ch = "hello" => Head(f) \in Hello /\ Tail(f) = <<>>
                 /\ ch = "run" => Head(f) \in Result \cup {"line"}
                 /\ ch = "run" /\ Head(f) \in Result => Tail(f) = <<>>
           /\ \A e \in Result \cup {"line"} :
                 ch = "run" /\ InOrder(f, ch) /\ NoneIn(f, Result) => InOrder(Append(f, e), ch)
           /\ \A e \in Hello : ch = "hello" => InOrder(Append(<<>>, e), ch)
<1>1. InOrder(<<>>, ch)
  BY DEF InOrder
<1>2. ASSUME f # <<>>, InOrder(f, ch)
      PROVE  /\ ch # "idle" /\ InOrder(Tail(f), ch)
             /\ ch = "hello" => Head(f) \in Hello /\ Tail(f) = <<>>
             /\ ch = "run" => Head(f) \in Result \cup {"line"}
             /\ ch = "run" /\ Head(f) \in Result => Tail(f) = <<>>
  <2> DEFINE t == Tail(f)
  <2>1. /\ t \in Seq(Frame) /\ Len(f) \in Nat \ {0} /\ Len(t) = Len(f) - 1
        /\ DOMAIN f = 1..Len(f) /\ DOMAIN t = 1..Len(t)
        /\ Head(f) = f[1] /\ \A i \in 1..Len(t) : t[i] = f[i + 1]
    BY <1>2, HeadTailProperties
  <2>2. Len(f) = 1 => t = <<>>
    <3>1. Len(f) = 1 => ~(Len(t) \in Nat \ {0})
      BY <2>1
    <3> QED BY <2>1, <3>1, EmptySeq
  <2> HIDE DEF t
  <2>3. 1 \in DOMAIN f
    BY <2>1
  <2>4. \A i \in DOMAIN t : i + 1 \in DOMAIN f /\ t[i] = f[i + 1] /\ (i + 1 = Len(f) => i = Len(t))
    BY <2>1
  <2>5. ch # "idle"
    BY <1>2 DEF InOrder
  <2>6. CASE ch = "hello"
    <3>1. Len(f) = 1
      BY <1>2, <2>1, <2>6 DEF InOrder
    <3> QED BY <1>1, <1>2, <2>1, <2>2, <2>3, <2>6, <3>1 DEF InOrder, t
  <2>7. CASE ch = "run"
    <3>1. InOrder(t, ch)
      BY <1>2, <2>4, <2>7 DEF InOrder
    <3>2. Head(f) \in Result \cup {"line"} /\ (Head(f) \in Result => Len(f) = 1)
      BY <1>2, <2>1, <2>3, <2>7 DEF InOrder
    <3> QED BY <2>2, <2>7, <3>1, <3>2 DEF t
  <2> QED BY <2>5, <2>6, <2>7
<1>3. ASSUME NEW e \in Result \cup {"line"}, ch = "run", InOrder(f, ch), NoneIn(f, Result)
      PROVE  InOrder(Append(f, e), ch)
  <2> DEFINE a == Append(f, e)
  <2>1. /\ Len(f) \in Nat /\ Len(a) = Len(f) + 1 /\ DOMAIN f = 1..Len(f) /\ DOMAIN a = 1..Len(a)
        /\ \A i \in 1..Len(f) : a[i] = f[i]
        /\ a[Len(f) + 1] = e
    <3>1. e \in Frame
      BY DEF Frame
    <3> QED BY <3>1, AppendProperties
  <2> HIDE DEF a
  <2>2. \A i \in DOMAIN a : \/ i \in DOMAIN f /\ a[i] = f[i]
                            \/ i = Len(a) /\ a[i] = e
    BY <2>1
  <2> QED BY <1>3, <2>2 DEF InOrder, NoneIn, a
<1>4. ASSUME NEW e \in Hello, ch = "hello" PROVE InOrder(Append(<<>>, e), ch)
  BY <1>4 DEF InOrder
<1> QED BY <1>1, <1>2, <1>3, <1>4

\* Two queues, one behind the other: what reading the first, writing to the
\* second, and moving the front of the second over to the first do.
LEMMA Joined ==
    ASSUME NEW S, NEW q \in Seq(S), NEW r \in Seq(S)
    PROVE  /\ q \o r \in Seq(S)
           /\ q # <<>> => /\ q \o r # <<>> /\ Head(q \o r) = Head(q)
                          /\ Tail(q \o r) = Tail(q) \o r
           /\ \A e \in S : q \o Append(r, e) = Append(q \o r, e)
           /\ \A n \in 0..(Len(r) - 1) :
                 (q \o SubSeq(r, 1, n)) \o SubSeq(r, n + 1, Len(r)) = q \o r
           /\ (q \o r) \o <<>> = q \o r
           /\ q \o r = <<>> => q = <<>> /\ r = <<>>
<1>1. q \o r \in Seq(S) /\ (q \o r) \o <<>> = q \o r
  OBVIOUS
<1>2. ASSUME q # <<>>
      PROVE  q \o r # <<>> /\ Head(q \o r) = Head(q) /\ Tail(q \o r) = Tail(q) \o r
  BY <1>2
<1>3. ASSUME NEW e \in S PROVE q \o Append(r, e) = Append(q \o r, e)
  OBVIOUS
<1>4. ASSUME NEW n \in 0..(Len(r) - 1)
      PROVE  (q \o SubSeq(r, 1, n)) \o SubSeq(r, n + 1, Len(r)) = q \o r
  <2> DEFINE u == SubSeq(r, 1, n)
             v == SubSeq(r, n + 1, Len(r))
  <2>1. u \in Seq(S) /\ v \in Seq(S)
    BY MarksCut
  <2>2. u \o v = r
    <3>1. 1 \in 1..(Len(r) + 1) /\ n \in 0..Len(r) /\ Len(r) \in n..Len(r)
      OBVIOUS
    <3>2. u \o v = SubSeq(r, 1, Len(r))
      BY <3>1, ConcatAdjacentSubSeq
    <3> QED BY <3>2, SubSeqFull
  <2> HIDE DEF u, v
  <2>3. (q \o u) \o v = q \o (u \o v)
    BY <2>1, ConcatAssociative
  <2> QED BY <2>2, <2>3 DEF u, v
<1>5. q \o r = <<>> => q = <<>> /\ r = <<>>
  OBVIOUS
<1> QED BY <1>1, <1>2, <1>3, <1>4, <1>5

\* What FrameInv says of the next message, and what reading it leaves.
LEMMA NextMessage ==
    ASSUME IInv, FrameInv
    PROVE  /\ readq \in Seq(Frame) /\ stdout \in Seq(Frame) /\ readq \o stdout \in Seq(Frame)
           /\ readq # <<>> =>
                 /\ proc # "boot" /\ chtable # "idle"
                 /\ InOrder(Tail(readq) \o stdout, chtable)
                 /\ chtable = "hello" => Head(readq) \in Hello
                 /\ chtable = "run" => Head(readq) \in Result \cup {"line"}
                 /\ chtable = "hello" \/ Head(readq) \in Result =>
                       Tail(readq) \o stdout = <<>>
<1> DEFINE f == readq \o stdout
<1>1. readq \in Seq(Frame) /\ stdout \in Seq(Frame) /\ chtable \in {"idle", "hello", "run"}
  BY Before DEF ProcTypeOK, RestTypes
<1>2. f \in Seq(Frame)
  BY <1>1, Joined
<1>3. ASSUME readq # <<>>
      PROVE  /\ proc # "boot" /\ chtable # "idle"
             /\ InOrder(Tail(readq) \o stdout, chtable)
             /\ chtable = "hello" => Head(readq) \in Hello
             /\ chtable = "run" => Head(readq) \in Result \cup {"line"}
             /\ chtable = "hello" \/ Head(readq) \in Result => Tail(readq) \o stdout = <<>>
  <2>1. f # <<>> /\ Head(f) = Head(readq) /\ Tail(f) = Tail(readq) \o stdout
    BY <1>1, <1>3, Joined
  <2>2. InOrder(f, chtable) /\ proc # "boot"
    BY <1>3 DEF FrameInv
  <2> HIDE DEF f
  <2>3. /\ chtable # "idle" /\ InOrder(Tail(f), chtable)
        /\ chtable = "hello" => Head(f) \in Hello /\ Tail(f) = <<>>
        /\ chtable = "run" => Head(f) \in Result \cup {"line"}
        /\ chtable = "run" /\ Head(f) \in Result => Tail(f) = <<>>
    BY <1>1, <1>2, <2>1, <2>2, OrderFacts
  <2> QED BY <1>1, <2>1, <2>2, <2>3
<1> QED BY <1>1, <1>2, <1>3

\* Nothing is on its way any more.
LEMMA NoFrames ==
    ASSUME IInv', readq' \o stdout' = <<>>,
           proc' = "boot" => chtable' = "hello" /\ readq' = <<>> /\ stdout' = <<>>
    PROVE  FrameInv'
<1>1. chtable' \in {"idle", "hello", "run"}
  BY DEF IInv, TypeOK
<1>2. InOrder(<<>>, chtable')
  BY <1>1 DEF InOrder
<1> QED BY <1>2 DEF FrameInv

\* The steps that read a message or make way for others.
LEMMA GuiFrames ==
    ASSUME IInv, IInv', FrameInv, Gui
    PROVE  FrameInv'
<1>1. CASE RunNextSession
  <2>1. chtable = "idle"
    BY <1>1, Before DEF RunNextSession, WorkerInv, RestTypes
  <2>2. /\ readq' = readq /\ stdout' = stdout /\ proc' = proc /\ proc # "boot"
        /\ readq \o stdout = <<>>
    BY <1>1, <2>1 DEF RunNextSession, FrameInv, InOrder
  <2> QED BY <2>2, NoFrames
<1>2. ASSUME StartService, readq' = <<>> PROVE FrameInv'
  <2>1. proc' = "boot" /\ chtable' = "hello" /\ stdout' = <<>>
    BY <1>2 DEF StartService, Spawn
  <2> QED BY <1>2, <2>1, NoFrames
<1>3. CASE RunNextSessionLater
  <2>1. CASE svc = "NotRunning" /\ StartService
    BY <1>2, <1>3, <2>1, Before DEF RunNextSessionLater, WorkerInv
  <2>2. CASE UNCHANGED <<procVars, chtable, readtimer>>
    BY <1>3, <2>2 DEF RunNextSessionLater, FrameInv, procVars
  <2> QED BY <1>3, <2>1, <2>2 DEF RunNextSessionLater
<1>4. CASE ReadyRead
  <2>1. readq \in Seq(Frame) /\ stdout \in Seq(Frame) /\ proc # "boot"
    BY <1>4, Before DEF ProcTypeOK, RestTypes, ReadyRead, FrameInv
  <2>2. readq' \o stdout' = readq \o stdout
    <3>1. CASE readq' = readq \o stdout /\ stdout' = <<>>
      BY <2>1, <3>1, Joined
    <3>2. ASSUME NEW n \in 0..(Len(stdout) - 1),
                 readq' = readq \o SubSeq(stdout, 1, n),
                 stdout' = SubSeq(stdout, n + 1, Len(stdout))
          PROVE  readq' \o stdout' = readq \o stdout
      <4>1. (readq \o SubSeq(stdout, 1, n)) \o SubSeq(stdout, n + 1, Len(stdout)) = readq \o stdout
        <5>1. \A k \in 0..(Len(stdout) - 1) :
                 (readq \o SubSeq(stdout, 1, k)) \o SubSeq(stdout, k + 1, Len(stdout)) = readq \o stdout
          BY <2>1, Joined
        <5> QED BY <5>1
      <4> QED BY <3>2, <4>1, Zenon
    <3> QED BY <1>4, <3>1, <3>2 DEF ReadyRead
  <2> QED BY <1>4, <2>1, <2>2 DEF ReadyRead, FrameInv
<1>5. CASE ReadTimeout \/ AnswerPrompt
  BY <1>5 DEF ReadTimeout, AnswerPrompt, FrameInv
<1>6. CASE DispatchHello \/ DispatchResult
  <2>1. /\ readq # <<>> /\ readq' = Tail(readq) /\ stdout' = stdout /\ proc' = proc
        /\ chtable = "hello" \/ Head(readq) \in Result
    BY <1>6 DEF DispatchHello, DispatchResult
  <2>2. proc' # "boot" /\ readq' \o stdout' = <<>>
    BY <2>1, NextMessage
  <2> QED BY <2>2, NoFrames
<1>7. CASE DispatchBadHello \/ DispatchLineRequest \/ OpenPrompt
  <2>1. /\ readq # <<>> /\ readq' = Tail(readq) /\ chtable' = chtable
        /\ stdout' = stdout /\ proc' = proc
    BY <1>7 DEF DispatchBadHello, DispatchLineRequest, OpenPrompt, procVars
  <2> QED BY <2>1, NextMessage DEF FrameInv
<1>8. CASE ServiceRestarted
  BY <1>2, <1>8 DEF ServiceRestarted
<1>9. CASE ServiceFinished
  <2>1. proc' = "none" /\ readq' = <<>> /\ stdout' = <<>>
    BY <1>9 DEF ServiceFinished
  <2> QED BY <2>1, NoFrames
<1> QED BY <1>1, <1>3, <1>4, <1>5, <1>6, <1>7, <1>8, <1>9 DEF Gui

\* The steps of the server, which writes the messages.
LEMMA ServerFrames ==
    ASSUME IInv, FrameInv, Server
    PROVE  FrameInv'
<1>1. readq' = readq /\ chtable' = chtable
  BY DEF Server, guiVars, workerVars
<1>2. CASE SrvHello
  <2>1. PICK e \in Hello : stdout' = Append(stdout, e)
    BY <1>2 DEF SrvHello
  <2>2. proc' = "idle" /\ chtable = "hello" /\ readq = <<>> /\ stdout = <<>>
    BY <1>2 DEF SrvHello, FrameInv
  <2>3. readq' \o stdout' = Append(<<>>, e)
    BY <1>1, <2>1, <2>2
  <2>4. InOrder(Append(<<>>, e), "hello")
    <3>1. <<>> \in Seq(Frame)
      OBVIOUS
    <3> QED BY <3>1, OrderFacts
  <2>5. InOrder(readq' \o stdout', chtable')
    BY <1>1, <2>2, <2>3, <2>4
  <2> QED BY <2>2, <2>5 DEF FrameInv
<1>3. ASSUME NEW e \in Result \cup {"line"}, stdout' = Append(stdout, e),
             proc \in {"run", "ask"}, proc' # "boot"
      PROVE  FrameInv'
  <2>1. chtable = "run" /\ NoneIn(stdout, Result) /\ NoneIn(readq, Result)
    BY <1>3, Before DEF WorkerInv, TokenInv
  <2>2. /\ readq \in Seq(Frame) /\ stdout \in Seq(Frame) /\ readq \o stdout \in Seq(Frame)
        /\ e \in Frame
    BY NextMessage DEF Frame
  <2>3. readq' \o stdout' = Append(readq \o stdout, e)
    BY <1>1, <1>3, <2>2, Joined
  <2>4. NoneIn(readq \o stdout, Result)
    BY <2>1, <2>2, MarksConcat
  <2>5. InOrder(readq \o stdout, "run")
    BY <2>1 DEF FrameInv
  <2>6. InOrder(Append(readq \o stdout, e), "run")
    BY <2>2, <2>4, <2>5, OrderFacts
  <2> QED BY <1>1, <1>3, <2>1, <2>3, <2>6 DEF FrameInv
<1>4. ASSUME stdout' = stdout, proc' # "boot" PROVE FrameInv'
  BY <1>1, <1>4 DEF FrameInv
<1>5. CASE SrvAsk
  BY <1>3, <1>5 DEF SrvAsk
<1>6. CASE SrvReturn
  BY <1>3, <1>6 DEF SrvReturn, Return, Result
<1>7. CASE SrvInterrupt
  BY <1>3, <1>4, <1>7 DEF SrvInterrupt, Return, Exit, Result
<1>8. CASE SrvReadRequest \/ SrvUnknownRequest \/ SrvEOF \/ SrvReadReply \/ SrvCrash
  BY <1>4, <1>8 DEF SrvReadRequest, SrvUnknownRequest, SrvEOF, SrvReadReply, SrvCrash, Exit
<1> QED BY <1>2, <1>5, <1>6, <1>7, <1>8 DEF Server, ProcNext

LEMMA FramesKeep == IInv /\ IInv' /\ FrameInv /\ [Next]_vars => FrameInv'
<1> SUFFICES ASSUME IInv, IInv', FrameInv, [Next]_vars PROVE FrameInv'
  OBVIOUS
<1>1. CASE Client \/ UNCHANGED vars
  BY <1>1 DEF Client, Submit, AbortRunning, AbortPending, ClientStop, FrameInv,
     vars, procVars, guiVars, workerVars
<1> QED BY <1>1, GuiFrames, ServerFrames DEF Next

-----------------------------------------------------------------------------
(* CommandService is implemented                                           *)

\* The commands of s that have been handed out; the rest of an aborted session
\* is never handed out.
Handed(s) == begun[s] <= qnextp[s] /\ (abortbyuser[s] \/ begun[s] = qnextp[s])

\* The last command handed out is to be begun, is being executed, succeeded.
Due(s) == /\ begun[s] = succeeded[s] /\ begun[s] < qnextp[s]
          /\ abortbyuser[s] \/ begun[s] + 1 = qnextp[s]
Doing(s) == begun[s] = succeeded[s] + 1 /\ Handed(s)
Did(s) == begun[s] = succeeded[s] /\ begun[s] > 0 /\ Handed(s)

\* A request, and a success, that are on their way
Requested == proc \in Alive /\ ~NoneIn(stdin, Requests)
Reported == ~(NoneIn(stdout, {"ret0"}) /\ NoneIn(readq, {"ret0"}))

Fresh(s) == /\ qnextp[s] = 0 => begun[s] = 0 /\ succeeded[s] = 0
            /\ abortbyuser[s] => qnextp[s] = NCmd[s]

\* Where the request of the listening session is says how its counts compare.
CountInv ==
    /\ \A s \in Sess : Fresh(s)
    /\ \A s \in attached : /\ Requested => Due(s)
                           /\ cur # NoSess => Doing(s)
                           /\ Reported => Did(s)

\* Without a command nothing is on its way.
LEMMA NothingSent ==
    ASSUME IInv, chtable # "run"
    PROVE  ~Requested /\ cur = NoSess /\ ~Reported
<1>1. /\ cur = NoSess /\ NoneIn(stdout, Result) /\ NoneIn(readq, Result)
      /\ proc \in Alive => NoneIn(stdin, Requests)
  BY Before DEF TokenInv
<1>2. NoneIn(stdout, {"ret0"}) /\ NoneIn(readq, {"ret0"})
  BY <1>1 DEF NoneIn, Result
<1> QED BY <1>1, <1>2 DEF Requested, Reported

LEMMA OnlyFresh ==
    ASSUME IInv', chtable' # "run", \A s \in Sess : Fresh(s)'
    PROVE  CountInv'
<1>1. ~Requested' /\ cur' = NoSess /\ ~Reported'
  <2>1. /\ cur' = NoSess /\ NoneIn(stdout', Result) /\ NoneIn(readq', Result)
        /\ proc' \in Alive => NoneIn(stdin', Requests)
    BY DEF IInv, TokenInv
  <2>2. NoneIn(stdout', {"ret0"}) /\ NoneIn(readq', {"ret0"})
    BY <2>1 DEF NoneIn, Result
  <2> QED BY <2>1, <2>2 DEF Requested, Reported
<1> QED BY <1>1 DEF CountInv

\* The counts do not change, and nothing is sent.
LEMMA CountFrame ==
    ASSUME IInv, IInv', CountInv,
           UNCHANGED <<begun, succeeded, qnextp, abortbyuser>>,
           attached' \subseteq attached,
           Requested' => Requested, cur' # NoSess => cur # NoSess, Reported' => Reported
    PROVE  CountInv'
BY DEF CountInv, Fresh, Due, Doing, Did, Handed

\* Steps of CommandService
Stutter == UNCHANGED <<sessqueue, cur, begun, succeeded, abortbyuser, exitcode, emitted>>
ServiceStep == Stutter \/ \E s \in Sess :
    \/ Service!Submit(s) \/ Service!Begin(s) \/ Service!Succeed(s)
    \/ Service!Fail(s) \/ Service!Abort(s) \/ Service!End(s)

\* Taking the first element of a queue off is removing it.
LEMMA TailIsRemoval ==
    ASSUME NEW S, NEW q \in Seq(S), q # <<>>
    PROVE  1 \in DOMAIN q /\ Head(q) = q[1] /\ Tail(q) = RemoveAt(q, 1)
<1>1. 1 \in DOMAIN q /\ Head(q) = q[1]
  OBVIOUS
<1>2. SubSeq(q, 1, 1 - 1) = <<>>
  BY SubSeqEmpty
<1>3. SubSeq(q, 1 + 1, Len(q)) = Tail(q)
  BY TailIsSubSeq
<1>4. <<>> \o Tail(q) = Tail(q)
  BY HeadTailProperties, ConcatEmptySeq
<1> QED BY <1>1, <1>2, <1>3, <1>4 DEF RemoveAt

\* The end of a session is the end it may have.
LEMMA FinishEnds ==
    ASSUME IInv, NEW s \in Waiting, NEW ret \in {-1, 0, 255}, Finish(s, ret),
           cur # s, UNCHANGED <<cur, begun, succeeded>>,
           abortbyuser' \in {abortbyuser, [abortbyuser EXCEPT ![s] = TRUE]},
           ret = 0 => /\ begun[s] > 0 /\ begun[s] = succeeded[s]
                      /\ succeeded[s] = NCmd[s] \/ abortbyuser[s]
    PROVE  /\ Service!End(s)
           /\ CountInv => \A t \in Sess : Fresh(t)'
<1>1. /\ s \in Sess /\ sessqueue \in Seq(Sess) /\ sessqueue # <<>>
      /\ exitcode \in [Sess -> {-1, 0, 255}] /\ qnextp \in [Sess -> Nat]
      /\ abortbyuser \in [Sess -> BOOLEAN]
  BY Before DEF QueueTypes, RestTypes, Waiting, ToSet
<1>2. /\ qnextp' = [qnextp EXCEPT ![s] = NCmd[s]]
      /\ exitcode' = [exitcode EXCEPT ![s] = ret]
      /\ emitted' = [emitted EXCEPT ![s] = @ + 1]
  BY DEF Finish
<1>3. \E i \in DOMAIN sessqueue : sessqueue[i] = s /\ sessqueue' = RemoveAt(sessqueue, i)
  <2>1. CASE s = Head(sessqueue)
    <3>1. sessqueue' = Tail(sessqueue)
      BY <2>1 DEF Finish, AgentOnCommandFinished
    <3> QED BY <1>1, <2>1, <3>1, TailIsRemoval
  <2>2. CASE s # Head(sessqueue)
    <3>1. PICK i \in 2..Len(sessqueue) :
             sessqueue[i] = s /\ sessqueue' = RemoveAt(sessqueue, i)
      BY <2>2 DEF Finish, AgentOnCommandFinished
    <3>2. i \in DOMAIN sessqueue
      BY <1>1
    <3> QED BY <3>1, <3>2
  <2> QED BY <2>1, <2>2
<1>4. exitcode'[s] = ret
  BY <1>1, <1>2
<1>5. LET ab == {t \in Sess : abortbyuser[t]}
          ab2 == {t \in Sess : abortbyuser'[t]}
      IN  ab2 \in {ab, ab \cup {s}} /\ (s \in ab <=> abortbyuser[s])
  BY <1>1
<1>6. Service!End(s)
  <2>1. \E i \in DOMAIN sessqueue : /\ sessqueue[i] = s
                                    /\ sessqueue' = Service!RemoveAt(sessqueue, i)
    BY <1>3 DEF RemoveAt, Service!RemoveAt
  <2>2. exitcode' \in {[exitcode EXCEPT ![s] = r] : r \in {-1, 0, 255}}
    BY <1>2
  <2>3. exitcode'[s] = 0 => /\ begun[s] > 0 /\ begun[s] = succeeded[s]
                            /\ succeeded[s] = NCmd[s] \/ s \in {t \in Sess : abortbyuser[t]}
    BY <1>4, <1>5
  <2> QED BY <1>2, <1>5, <2>1, <2>2, <2>3 DEF Service!End
<1>7. ASSUME CountInv, NEW t \in Sess PROVE Fresh(t)'
  <2>1. qnextp'[s] = NCmd[s] /\ NCmd[s] > 0
    <3>1. qnextp'[s] = NCmd[s]
      BY <1>1, <1>2
    <3> QED BY <1>1, <3>1, NCmdAssumption
  <2>2. t # s => qnextp'[t] = qnextp[t] /\ abortbyuser'[t] = abortbyuser[t]
    BY <1>1, <1>2
  <2> QED BY <1>7, <2>1, <2>2 DEF CountInv, Fresh
<1> QED BY <1>6, <1>7

\* The head of the queue sends its next command, or is over.
LEMMA RunNextCounts ==
    ASSUME IInv, IInv', CountInv, sessqueue # <<>>, NEW s, s = Head(sessqueue),
           NEW st, NEW later, RunNext(s, st, later),
           qnextp[s] < NCmd[s], begun[s] = qnextp[s], succeeded[s] = qnextp[s],
           cur = NoSess, UNCHANGED <<cur, begun, succeeded, abortbyuser>>,
           ~Reported'
    PROVE  CountInv' /\ ServiceStep
<1>1. s \in Waiting /\ s \in Sess /\ attached \subseteq {s} /\ cur # s
  BY Before, SessAssumption DEF QueueInv
<1>2. CASE Finish(s, -1) /\ CommandIdle
  <2>1. Service!End(s) /\ \A t \in Sess : Fresh(t)'
    BY <1>1, <1>2, FinishEnds
  <2> QED BY <1>1, <1>2, <2>1, OnlyFresh DEF CommandIdle, ServiceStep
<1>3. CASE /\ qnextp' = [qnextp EXCEPT ![s] = @ + 1]
           /\ attached' = attached \cup {s}
           /\ UNCHANGED <<sessqueue, exitcode, emitted>>
  <2>1. /\ qnextp'[s] = qnextp[s] + 1 /\ qnextp[s] \in Nat /\ attached' = {s}
        /\ \A t \in Sess \ {s} : qnextp'[t] = qnextp[t]
    BY <1>1, <1>3, Before DEF QueueTypes
  <2>2. ~abortbyuser[s] /\ qnextp'[s] > 0
    <3>1. NCmd[s] \in Nat
      BY <1>1, NCmdAssumption
    <3> QED BY <1>1, <2>1, <3>1 DEF CountInv, Fresh
  <2>3. ASSUME NEW t \in Sess PROVE Fresh(t)'
    BY <2>1, <2>2 DEF CountInv, Fresh
  <2>4. Due(s)'
    BY <2>1 DEF Due
  <2> QED BY <1>3, <2>1, <2>3, <2>4 DEF CountInv, ServiceStep, Stutter
<1> QED BY <1>2, <1>3 DEF RunNext

\* Steps of the server: what it begins, what succeeds, and what fails.
LEMMA ServerService ==
    ASSUME IInv, IInv', CountInv, Server
    PROVE  CountInv' /\ ServiceStep
<1>1. /\ UNCHANGED <<sessqueue, attached, qnextp, abortbyuser, exitcode, emitted, chtable, readq>>
      /\ begun \in [Sess -> Nat] /\ succeeded \in [Sess -> Nat] /\ cur \in Sess \cup {NoSess}
      /\ stdin \in Seq(Block) /\ stdout \in Seq(Frame)
  BY Before DEF Server, guiVars, agentVars, sessVars, workerVars, ProcTypeOK
<1>2. cur # NoSess => /\ cur \in attached /\ attached = {cur}
                      /\ ~Requested /\ ~Reported /\ proc \in Alive
  <2>1. ASSUME cur # NoSess
        PROVE  /\ cur \in attached /\ attached = {cur} /\ NoneIn(stdout, Result)
               /\ NoneIn(readq, Result) /\ proc \in {"run", "ask"}
               /\ proc \in Alive => NoneIn(stdin, Requests)
    BY <2>1, Before DEF TokenInv, WorkerInv
  <2>2. ASSUME cur # NoSess PROVE NoneIn(stdout, {"ret0"}) /\ NoneIn(readq, {"ret0"})
    BY <2>1, <2>2 DEF NoneIn, Result
  <2> QED BY <2>1, <2>2 DEF Requested, Reported, Alive
<1>3. ASSUME stdin # <<>>, NoneIn(stdin, Requests) PROVE NoneIn(Tail(stdin), Requests)
  BY <1>1, <1>3, MarksTail
<1>4. ASSUME NEW e \in Frame \ {"ret0"}, NoneIn(stdout, {"ret0"})
      PROVE  NoneIn(Append(stdout, e), {"ret0"})
  BY <1>1, <1>4, MarksAppend
<1>5. ASSUME UNCHANGED <<begun, succeeded>>, Requested' => Requested,
             cur' \in {cur, NoSess}, Reported' => Reported
      PROVE  CountInv' /\ ServiceStep
  <2>1. CountInv'
    BY <1>1, <1>5, CountFrame
  <2>2. cur' = cur => Stutter
    BY <1>1, <1>5 DEF Stutter
  <2>3. cur' # cur => cur \in Sess /\ Service!Fail(cur)
    BY <1>1, <1>5 DEF Service!Fail
  <2> QED BY <2>1, <2>2, <2>3 DEF ServiceStep
<1>6. CASE SrvHello
  <2>1. PICK e \in Hello : stdout' = Append(stdout, e)
    BY <1>6 DEF SrvHello
  <2>2. e \in Frame \ {"ret0"}
    BY <2>1 DEF Hello, Frame
  <2>3. Reported' => Reported
    BY <1>1, <1>4, <2>1, <2>2 DEF Reported
  <2>4. Requested' => Requested
    BY <1>6 DEF SrvHello, Requested, Alive
  <2> QED BY <1>5, <1>6, <2>3, <2>4 DEF SrvHello
<1>7. CASE SrvReadRequest
  <2>0. /\ proc = "idle" /\ stdin # <<>> /\ Head(stdin).kind = "cmd"
        /\ Head(stdin) \in Requests /\ Head(stdin).sess \in Sess
        /\ Head(stdin) = stdin[1] /\ 1 \in DOMAIN stdin
    <3>1. proc = "idle" /\ stdin # <<>> /\ Head(stdin).kind = "cmd"
      BY <1>7 DEF SrvReadRequest
    <3>2. Head(stdin) \in Block
      BY <1>1, <3>1, HeadTailProperties
    <3>3. Head(stdin) = stdin[1] /\ 1 \in DOMAIN stdin
      BY <1>1, <3>1, TailIsRemoval
    <3>4. Head(stdin).sess \in Sess
      BY <3>2 DEF Block
    <3>5. Head(stdin) \in Requests
      BY <3>1, <3>2 DEF Requests
    <3> QED BY <3>1, <3>3, <3>4, <3>5
  <2>1. PICK s \in Sess : s = Head(stdin).sess
    BY <2>0
  <2>2. /\ cur' = s /\ begun' = [begun EXCEPT ![s] = @ + 1]
        /\ UNCHANGED <<succeeded, stdout>>
    BY <1>7, <2>1 DEF SrvReadRequest
  <2>3. s \in attached /\ Requested /\ cur = NoSess
    <3>1. proc \in Alive
      BY <2>0 DEF Alive
    <3>2. ~NoneIn(stdin, Requests)
      BY <2>0 DEF NoneIn
    <3> QED BY <2>0, <2>1, <3>1, <3>2, Before DEF TokenInv, Requested
  <2>4. attached = {s} /\ sessqueue # <<>> /\ s = Head(sessqueue)
    BY <2>3, Before DEF QueueInv
  <2>5. Due(s)
    BY <2>3 DEF CountInv
  <2>6. /\ begun[s] \in Nat /\ begun'[s] = begun[s] + 1 /\ qnextp[s] \in Nat
        /\ \A t \in Sess \ {s} : begun'[t] = begun[t]
        /\ qnextp[s] <= NCmd[s] /\ NCmd[s] \in Nat
    <3>1. NCmd[s] \in Nat
      BY NCmdAssumption
    <3>2. qnextp[s] \in Nat /\ qnextp[s] <= NCmd[s]
      BY Before DEF QueueTypes
    <3>3. begun[s] \in Nat /\ begun'[s] = begun[s] + 1
      BY <1>1, <2>2
    <3>4. \A t \in Sess \ {s} : begun'[t] = begun[t]
      BY <1>1, <2>2
    <3> QED BY <3>1, <3>2, <3>3, <3>4
  <2>7. Doing(s)'
    <3>1. /\ begun'[s] = succeeded'[s] + 1 /\ begun'[s] <= qnextp'[s]
          /\ begun[s] + 1 = qnextp[s] => begun'[s] = qnextp'[s]
      BY <1>1, <2>2, <2>5, <2>6 DEF Due
    <3>2. abortbyuser'[s] \/ begun'[s] = qnextp'[s]
      <4>1. CASE abortbyuser[s]
        BY <1>1, <4>1
      <4>2. CASE begun[s] + 1 = qnextp[s]
        BY <3>1, <4>2
      <4> QED BY <2>5, <4>1, <4>2 DEF Due
    <3> QED BY <3>1, <3>2 DEF Doing, Handed
  <2>8. \A t \in Sess : Fresh(t)'
    <3>1. qnextp[s] # 0
      BY <2>5, <2>6 DEF Due
    <3> QED BY <1>1, <2>2, <2>6, <3>1 DEF CountInv, Fresh
  <2>9. ~Requested' /\ ~Reported'
    <3>1. cur' # NoSess
      BY <2>2, SessAssumption
    <3>2. /\ NoneIn(stdout', Result) /\ NoneIn(readq', Result)
          /\ proc' \in Alive => NoneIn(stdin', Requests)
      BY <3>1 DEF IInv, TokenInv
    <3>3. NoneIn(stdout', {"ret0"}) /\ NoneIn(readq', {"ret0"})
      BY <3>2 DEF NoneIn, Result
    <3> QED BY <3>2, <3>3 DEF Requested, Reported
  <2>10. CountInv'
    <3>1. \A t \in attached' : Doing(t)'
      BY <1>1, <2>4, <2>7
    <3> QED BY <2>8, <2>9, <3>1 DEF CountInv
  <2>11. Service!Begin(s)
    BY <1>1, <2>2, <2>3, <2>4, <2>5, <2>6 DEF Service!Begin, Due
  <2> QED BY <2>10, <2>11 DEF ServiceStep
<1>8. CASE SrvUnknownRequest \/ SrvEOF \/ SrvCrash
  <2>1. /\ proc' = "dead" /\ cur' = NoSess /\ UNCHANGED <<stdout, begun, succeeded>>
    BY <1>8 DEF SrvUnknownRequest, SrvEOF, SrvCrash, Exit
  <2>2. ~Requested' /\ (Reported' => Reported)
    BY <1>1, <2>1 DEF Requested, Reported, Alive
  <2> QED BY <1>5, <2>1, <2>2
<1>9. CASE SrvAsk
  <2>1. "line" \in Frame \ {"ret0"}
    BY DEF Frame
  <2>2. Reported' => Reported
    BY <1>1, <1>4, <1>9, <2>1 DEF SrvAsk, Reported
  <2>3. Requested' => Requested
    BY <1>9 DEF SrvAsk, Requested, Alive
  <2> QED BY <1>5, <1>9, <2>2, <2>3 DEF SrvAsk
<1>10. CASE SrvReadReply
  <2>1. Requested' => Requested
    BY <1>3, <1>10 DEF SrvReadReply, Requested, Alive
  <2>2. Reported' => Reported
    BY <1>1, <1>10 DEF SrvReadReply, Reported
  <2> QED BY <1>5, <1>10, <2>1, <2>2 DEF SrvReadReply
<1>11. ASSUME Return("ret255"), proc \in {"run", "ask"}, UNCHANGED <<stdin, begun, succeeded>>
       PROVE  CountInv' /\ ServiceStep
  <2>1. "ret255" \in Frame \ {"ret0"}
    BY DEF Frame, Result
  <2>2. Reported' => Reported
    BY <1>1, <1>4, <1>11, <2>1 DEF Return, Reported
  <2>3. Requested' => Requested
    BY <1>11 DEF Requested, Alive
  <2> QED BY <1>5, <1>11, <2>2, <2>3 DEF Return
<1>12. CASE SrvReturn /\ Return("ret0") /\ succeeded' = [succeeded EXCEPT ![cur] = @ + 1]
  <2>1. /\ cur # NoSess /\ cur \in Sess /\ attached = {cur} /\ ~Requested
    BY <1>1, <1>2, <1>12, Before DEF SrvReturn, WorkerInv
  <2>2. cur' = NoSess /\ UNCHANGED <<stdin, begun>> /\ proc \in Alive
    BY <1>12 DEF SrvReturn, Return, Alive
  <2>3. ~Requested'
    BY <2>1, <2>2 DEF Requested
  <2>4. Doing(cur)
    BY <2>1 DEF CountInv
  <2>5. /\ succeeded'[cur] = succeeded[cur] + 1
        /\ \A t \in Sess \ {cur} : succeeded'[t] = succeeded[t]
    BY <1>1, <1>12, <2>1
  <2>6. begun[cur] \in Nat /\ succeeded[cur] \in Nat /\ qnextp[cur] \in Nat
    BY <1>1, <2>1, Before DEF QueueTypes
  <2>7. \A s \in attached : Did(s)'
    BY <1>1, <2>1, <2>2, <2>4, <2>5, <2>6 DEF Did, Doing, Handed
  <2>8. \A t \in Sess : Fresh(t)'
    BY <1>1, <2>1, <2>2, <2>4, <2>5, <2>6 DEF CountInv, Fresh, Doing, Handed
  <2>9. CountInv'
    BY <1>1, <2>2, <2>3, <2>7, <2>8 DEF CountInv
  <2>10. Service!Succeed(cur)
    BY <1>1, <1>12, <2>2 DEF Service!Succeed
  <2> QED BY <2>1, <2>9, <2>10 DEF ServiceStep
<1>13. CASE SrvReturn /\ Return("ret255") /\ UNCHANGED succeeded
  BY <1>11, <1>13 DEF SrvReturn
<1>14. CASE SrvInterrupt
  <2>1. CASE proc \in {"run", "ask"} /\ Return("ret255")
    BY <1>11, <1>14, <2>1 DEF SrvInterrupt
  <2>2. CASE Exit /\ UNCHANGED stdout
    <3>1. ~Requested' /\ (Reported' => Reported)
      BY <1>1, <2>2 DEF Exit, Requested, Reported, Alive
    <3> QED BY <1>5, <1>14, <2>2, <3>1 DEF Exit, SrvInterrupt
  <2> QED BY <1>14, <2>1, <2>2 DEF SrvInterrupt
<1> QED BY <1>6, <1>7, <1>8, <1>9, <1>10, <1>12, <1>13, <1>14 DEF Server, ProcNext, SrvReturn

\* Slots that no promise is about: the counts stay, and so does what is sent.
LEMMA QuietStep ==
    ASSUME IInv, IInv', CountInv, Stutter, qnextp' = qnextp,
           \/ chtable' # "run"
           \/ /\ attached' \subseteq attached
              /\ Requested' => Requested
              /\ Reported' => Reported
    PROVE  CountInv' /\ ServiceStep
<1>1. CASE chtable' # "run"
  <2>1. \A s \in Sess : Fresh(s)'
    BY DEF Stutter, CountInv, Fresh
  <2> QED BY <1>1, <2>1, OnlyFresh DEF ServiceStep
<1>2. CASE /\ attached' \subseteq attached
           /\ Requested' => Requested
           /\ Reported' => Reported
  BY <1>2, CountFrame DEF Stutter, ServiceStep
<1> QED BY <1>1, <1>2

\* What clients do is to submit, abort and end sessions.
LEMMA ClientService ==
    ASSUME IInv, IInv', CountInv, Client
    PROVE  CountInv' /\ ServiceStep
<1>1. /\ qnextp \in [Sess -> Nat] /\ abortbyuser \in [Sess -> BOOLEAN]
      /\ \A s \in Sess : qnextp[s] <= NCmd[s]
  BY Before DEF QueueTypes, RestTypes
<1>2. ASSUME NEW s \in Sess, Submit(s) PROVE CountInv' /\ ServiceStep
  <2>1. /\ sessqueue' = Append(sessqueue, s) /\ s \notin created
        /\ UNCHANGED <<attached, qnextp, abortbyuser, exitcode, emitted, cur,
                       begun, succeeded, proc, stdin, stdout, readq>>
    BY <1>2 DEF Submit, procVars, sessVars, workerVars
  <2>2. emitted[s] = 0 /\ s \notin Waiting
    BY <2>1, Before DEF QueueInv
  <2>3. Service!Submit(s)
    BY <2>1, <2>2 DEF Service!Submit, Waiting, ToSet, Service!ToSet
  <2>4. CountInv'
    BY <2>1, CountFrame DEF Requested, Reported
  <2> QED BY <2>3, <2>4 DEF ServiceStep
<1>3. ASSUME NEW s \in Sess, AbortRunning(s) PROVE CountInv' /\ ServiceStep
  <2>1. /\ s \in attached /\ attached = {s} /\ s \in Waiting
        /\ qnextp' = [qnextp EXCEPT ![s] = NCmd[s]]
        /\ abortbyuser' = [abortbyuser EXCEPT ![s] = TRUE]
        /\ UNCHANGED <<sessqueue, attached, exitcode, emitted, cur, begun,
                       succeeded, proc, stdin, stdout, readq>>
    BY <1>3, Before DEF AbortRunning, IsRunning, agentVars, workerVars
  <2>2. /\ qnextp'[s] = NCmd[s] /\ abortbyuser'[s]
        /\ \A t \in Sess \ {s} : qnextp'[t] = qnextp[t] /\ abortbyuser'[t] = abortbyuser[t]
    BY <1>1, <2>1
  <2>3. /\ NCmd[s] \in Nat \ {0} /\ qnextp[s] \in Nat /\ qnextp[s] <= NCmd[s]
        /\ begun[s] \in Nat
    BY <1>1, NCmdAssumption, Before DEF ProcTypeOK
  <2>4. \A t \in Sess : Fresh(t)'
    BY <2>1, <2>2, <2>3 DEF CountInv, Fresh
  <2>5. /\ Due(s) => Due(s)'
        /\ Doing(s) => Doing(s)'
        /\ Did(s) => Did(s)'
    BY <2>1, <2>2, <2>3 DEF Due, Doing, Did, Handed
  <2>6. /\ Requested' = Requested /\ cur' = cur /\ Reported' = Reported
    BY <2>1 DEF Requested, Reported
  <2>7. \A t \in attached' : t = s
    BY <2>1
  <2>8. CountInv'
    BY <2>1, <2>4, <2>5, <2>6, <2>7 DEF CountInv
  <2>9. {t \in Sess : abortbyuser'[t]} = {t \in Sess : abortbyuser[t]} \cup {s}
    BY <1>1, <2>1
  <2>10. Service!Abort(s)
    BY <2>1, <2>9 DEF Service!Abort, Waiting, ToSet, Service!ToSet
  <2> QED BY <2>8, <2>10 DEF ServiceStep
<1>4. ASSUME NEW s \in Sess, AbortPending(s) PROVE CountInv' /\ ServiceStep
  <2>1. /\ s \in created /\ ~IsRunning(s) /\ ~IsFinished(s) /\ Finish(s, -1)
        /\ abortbyuser' = [abortbyuser EXCEPT ![s] = TRUE]
        /\ attached' = attached \ {s}
        /\ qnextp' = [qnextp EXCEPT ![s] = NCmd[s]]
        /\ UNCHANGED <<cur, begun, succeeded, proc, stdin, stdout, readq, chtable>>
    BY <1>4 DEF AbortPending, Finish, procVars, workerVars
  <2>2. s \in Waiting
    BY <1>1, <2>1, Before DEF IsFinished, QueueInv
  <2>3. s \in attached => qnextp[s] = 0
    BY <1>1, <2>1 DEF IsRunning
  <2>4. s \in attached => chtable # "run"
    BY <2>3, Before DEF WorkerInv
  <2>5. cur # s
    <3>1. cur = s => s \in attached /\ chtable = "run"
      BY SessAssumption, Before DEF TokenInv
    <3> QED BY <2>4, <3>1
  <2>6. Service!End(s) /\ \A t \in Sess : Fresh(t)'
    <3>1. /\ abortbyuser' \in {abortbyuser, [abortbyuser EXCEPT ![s] = TRUE]}
          /\ -1 \in {-1, 0, 255} /\ -1 # 0
          /\ UNCHANGED <<cur, begun, succeeded>>
      BY <2>1
    <3>2. Service!End(s) /\ (CountInv => \A t \in Sess : Fresh(t)')
      BY <2>1, <2>2, <2>5, <3>1, FinishEnds
    <3> QED BY <3>2
  <2>7. CASE s \in attached
    BY <2>1, <2>4, <2>6, <2>7, OnlyFresh DEF ServiceStep
  <2>8. CASE s \notin attached
    <3>1. attached' = attached /\ attached \subseteq Sess
      BY <2>1, <2>8, Before DEF QueueTypes
    <3>2. \A t \in attached : qnextp'[t] = qnextp[t] /\ abortbyuser'[t] = abortbyuser[t]
      BY <1>1, <2>1, <2>8, <3>1
    <3>3. Requested' = Requested /\ Reported' = Reported
      BY <2>1 DEF Requested, Reported
    <3>4. \A t \in attached : /\ Due(t) => Due(t)'
                              /\ Doing(t) => Doing(t)'
                              /\ Did(t) => Did(t)'
      BY <2>1, <3>2 DEF Due, Doing, Did, Handed
    <3>5. CountInv'
      BY <2>1, <2>6, <3>1, <3>3, <3>4 DEF CountInv
    <3> QED BY <2>6, <3>5 DEF ServiceStep
  <2> QED BY <2>7, <2>8
<1>5. CASE ClientStop
  <2>1. /\ UNCHANGED <<sessqueue, attached, qnextp, abortbyuser, exitcode, emitted,
                       cur, begun, succeeded, proc, stdin, stdout, readq>>
    BY <1>5 DEF ClientStop, agentVars, sessVars
  <2> QED BY <2>1, QuietStep DEF Stutter, Requested, Reported
<1> QED BY <1>2, <1>3, <1>4, <1>5 DEF Client

\* What the slots of the GUI thread do is to end sessions; the commands of a
\* session are begun by the server.
LEMMA GuiService ==
    ASSUME IInv, IInv', CountInv, FrameInv, Gui
    PROVE  CountInv' /\ ServiceStep
<1>1. /\ qnextp \in [Sess -> Nat] /\ NCmd \in [Sess -> Nat \ {0}] /\ attached \subseteq Sess
      /\ \A s \in Sess : qnextp[s] <= NCmd[s]
      /\ begun \in [Sess -> Nat] /\ succeeded \in [Sess -> Nat]
      /\ readq \in Seq(Frame) /\ stdout \in Seq(Frame)
  BY NCmdAssumption, Before DEF QueueTypes, RestTypes, ProcTypeOK
<1>2. CASE RunNextSession
  <2>1. PICK s \in Sess : s = Head(sessqueue) /\ sessqueue # <<>> /\ qnextp[s] = 0
    BY <1>2, Before DEF RunNextSession
  <2>2. /\ RunNext(s, svc, FALSE) /\ chtable # "run"
        /\ UNCHANGED <<cur, begun, succeeded, abortbyuser, stdout, readq>>
    BY <1>2, <2>1, Before DEF RunNextSession
  <2>3. cur = NoSess /\ ~Reported
    BY <2>2, NothingSent
  <2>4. ~Reported'
    BY <2>2, <2>3 DEF Reported
  <2>5. begun[s] = qnextp[s] /\ succeeded[s] = qnextp[s] /\ qnextp[s] < NCmd[s]
    BY <1>1, <2>1 DEF CountInv, Fresh
  <2> QED BY <2>1, <2>2, <2>3, <2>4, <2>5, RunNextCounts
<1>3. CASE RunNextSessionLater
  <2>1. chtable' # "run"
    BY <1>3, Before DEF RunNextSessionLater, StartService
  <2>2. UNCHANGED <<sessqueue, qnextp, abortbyuser, exitcode, emitted>>
    BY <1>3 DEF RunNextSessionLater
  <2>3. UNCHANGED <<cur, begun, succeeded>>
    BY <1>3 DEF RunNextSessionLater, StartService, Spawn, procVars
  <2> QED BY <2>1, <2>2, <2>3, QuietStep DEF Stutter
<1>4. CASE ReadyRead
  <2>1. /\ UNCHANGED <<sessqueue, attached, qnextp, abortbyuser, exitcode, emitted,
                       cur, begun, succeeded, proc, stdin>>
    BY <1>4 DEF ReadyRead, agentVars, sessVars
  <2>2. Reported' => Reported
    <3>1. ASSUME ~Reported PROVE ~Reported'
      <4>1. NoneIn(stdout, {"ret0"}) /\ NoneIn(readq, {"ret0"})
        BY <3>1 DEF Reported
      <4>2. CASE readq' = readq \o stdout /\ stdout' = <<>>
        <5>1. NoneIn(readq \o stdout, {"ret0"})
          BY <1>1, <4>1, MarksConcat
        <5> QED BY <4>2, <5>1 DEF Reported, NoneIn
      <4>3. ASSUME NEW n \in 0..(Len(stdout) - 1),
                   readq' = readq \o SubSeq(stdout, 1, n),
                   stdout' = SubSeq(stdout, n + 1, Len(stdout))
            PROVE  ~Reported'
        <5>1. /\ SubSeq(stdout, 1, n) \in Seq(Frame)
              /\ NoneIn(SubSeq(stdout, 1, n), {"ret0"})
              /\ NoneIn(SubSeq(stdout, n + 1, Len(stdout)), {"ret0"})
          BY <1>1, <4>1, MarksCut
        <5>2. NoneIn(readq \o SubSeq(stdout, 1, n), {"ret0"})
          BY <1>1, <4>1, <5>1, MarksConcat
        <5> QED BY <4>3, <5>1, <5>2 DEF Reported
      <4> QED BY <1>4, <4>2, <4>3 DEF ReadyRead
    <3> QED BY <3>1
  <2>3. Requested' = Requested
    BY <2>1 DEF Requested
  <2> QED BY <2>1, <2>2, <2>3, QuietStep DEF Stutter
<1>5. ASSUME readq # <<>>, readq' = Tail(readq), stdout' = stdout
      PROVE  /\ Reported' => Reported
             /\ Head(readq) = "ret0" => Reported
             /\ Head(readq) \in Result => ~Reported'
  <2>1. NoneIn(readq, {"ret0"}) => NoneIn(Tail(readq), {"ret0"})
    BY <1>1, <1>5, MarksTail
  <2>2. Head(readq) \in {"ret0"} => ~NoneIn(readq, {"ret0"})
    BY <1>1, <1>5, MarksTail
  <2>3. ASSUME Head(readq) \in Result
        PROVE  NoneIn(Tail(readq), {"ret0"}) /\ NoneIn(stdout, {"ret0"})
    <3>1. NoneIn(Tail(readq), Result) /\ NoneIn(stdout, Result)
      BY <1>5, <2>3, ReadHead
    <3> QED BY <3>1 DEF NoneIn, Result
  <2> QED BY <1>5, <2>1, <2>2, <2>3 DEF Reported
<1>6. ASSUME NEW b \in Block, b.kind # "cmd", stdin' = stdin \/ Write(b), proc' = proc
      PROVE  Requested' => Requested
  <2>1. b \notin Requests
    BY <1>6 DEF Requests
  <2> QED BY <1>6, <2>1, WriteTypes DEF Requested
<1>7. ASSUME UNCHANGED <<proc, stdin, cur, begun, succeeded, agentVars, sessVars>>,
             UNCHANGED <<stdout, readq>> \/ (/\ readq # <<>> /\ readq' = Tail(readq)
                                             /\ stdout' = stdout)
      PROVE  CountInv' /\ ServiceStep
  <2>1. Reported' => Reported
    BY <1>5, <1>7 DEF Reported
  <2>2. Requested' = Requested
    BY <1>7 DEF Requested
  <2> QED BY <1>7, <2>1, <2>2, QuietStep DEF Stutter, agentVars, sessVars
<1>8. CASE ReadTimeout \/ DispatchBadHello
  BY <1>7, <1>8 DEF ReadTimeout, DispatchBadHello
<1>9. CASE OpenPrompt
  BY <1>7, <1>9 DEF OpenPrompt, procVars
<1>10. CASE DispatchLineRequest
  <2>1. PICK b \in Block : b.kind # "cmd" /\ Write(b)
    <3>1. uihandler \in Sess /\ inc \in Nat
      BY <1>1, <1>10, Before DEF DispatchLineRequest, WorkerInv, ProcTypeOK
    <3>2. [kind |-> "text", sess |-> uihandler, inc |-> inc] \in Block
      BY <3>1 DEF Block
    <3> QED BY <1>10, <3>2 DEF DispatchLineRequest
  <2>2. /\ UNCHANGED <<sessqueue, attached, qnextp, abortbyuser, exitcode, emitted,
                       cur, begun, succeeded, proc, stdout>>
        /\ readq # <<>> /\ readq' = Tail(readq)
    BY <1>10 DEF DispatchLineRequest, agentVars, sessVars
  <2> QED BY <1>5, <1>6, <2>1, <2>2, QuietStep DEF Stutter
<1>11. CASE AnswerPrompt
  <2>1. PICK b \in Block : b.kind # "cmd" /\ (stdin' = stdin \/ Write(b))
    <3>1. asking \in Seq(Prompt) /\ asking # <<>>
      BY <1>11, Before DEF AnswerPrompt, RestTypes
    <3>2. Last(asking) \in Prompt
      <4>1. Len(asking) \in Nat \ {0} /\ asking \in [1..Len(asking) -> Prompt]
        BY <3>1
      <4> QED BY <4>1 DEF Last
    <3>3. PICK kind \in {"text", "cancel"} :
             \/ stdin' = stdin
             \/ Write([kind |-> kind, sess |-> Last(asking).sess, inc |-> Last(asking).inc])
      BY <1>11 DEF AnswerPrompt
    <3>4. /\ [kind |-> kind, sess |-> Last(asking).sess, inc |-> Last(asking).inc] \in Block
          /\ kind # "cmd"
      BY <3>2, <3>3 DEF Block, Prompt
    <3> QED BY <3>3, <3>4
  <2>2. UNCHANGED <<sessqueue, attached, qnextp, abortbyuser, exitcode, emitted,
                    cur, begun, succeeded, proc, stdout, readq>>
    BY <1>11 DEF AnswerPrompt, agentVars, sessVars
  <2>3. Reported' = Reported
    BY <2>2 DEF Reported
  <2> QED BY <1>6, <2>1, <2>2, <2>3, QuietStep DEF Stutter
<1>12. CASE ServiceRestarted
  <2>1. /\ chtable' = "hello"
        /\ UNCHANGED <<sessqueue, qnextp, abortbyuser, exitcode, emitted,
                       cur, begun, succeeded>>
    BY <1>12 DEF ServiceRestarted, StartService, Spawn, agentVars, sessVars
  <2> QED BY <2>1, QuietStep DEF Stutter
<1>13. ASSUME NEW s \in attached, NEW ret \in {-1, 0, 255}, Finish(s, ret), CommandIdle,
              cur = NoSess, UNCHANGED <<cur, begun, succeeded, abortbyuser>>,
              ret = 0 => begun[s] > 0 /\ begun[s] = succeeded[s]
                         /\ (succeeded[s] = NCmd[s] \/ abortbyuser[s])
       PROVE  CountInv' /\ ServiceStep
  <2>1. s \in Waiting /\ s \in Sess /\ cur # s
    BY <1>1, <1>13, SessAssumption, Before
  <2>2. Service!End(s) /\ (CountInv => \A t \in Sess : Fresh(t)')
    BY <1>13, <2>1, FinishEnds
  <2> QED BY <1>13, <2>1, <2>2, OnlyFresh DEF CommandIdle, ServiceStep
<1>14. CASE DispatchHello
  <2>1. /\ chtable = "hello" /\ readq # <<>> /\ readq' = Tail(readq)
        /\ UNCHANGED <<cur, begun, succeeded, abortbyuser, stdout, proc>>
    BY <1>14 DEF DispatchHello
  <2>2. cur = NoSess /\ ~Reported'
    BY <1>5, <2>1, NothingSent
  <2>3. CASE attached = {}
    BY <1>14, <2>1, <2>3, QuietStep DEF DispatchHello, Stutter
  <2>4. CASE attached # {}
    <3>1. PICK s \in attached : RunNext(s, "Ready", runlater)
      BY <1>14, <2>4 DEF DispatchHello
    <3>2. /\ s \in Sess /\ qnextp[s] = 0 /\ s = Head(sessqueue) /\ sessqueue # <<>>
      BY <1>1, <2>1, <3>1, Before DEF WorkerInv, QueueInv
    <3>3. begun[s] = qnextp[s] /\ succeeded[s] = qnextp[s] /\ qnextp[s] < NCmd[s]
      BY <1>1, <3>2 DEF CountInv, Fresh
    <3> QED BY <2>1, <2>2, <3>1, <3>2, <3>3, RunNextCounts
  <2> QED BY <2>3, <2>4
<1>15. CASE DispatchResult
  <2>1. /\ readq # <<>> /\ readq' = Tail(readq) /\ Head(readq) \in Result
        /\ UNCHANGED <<cur, begun, succeeded, abortbyuser, stdout, proc>>
    BY <1>15 DEF DispatchResult
  <2>2. PICK s \in attached : SessionOnCommandFinished(s, IF Head(readq) = "ret0" THEN 0 ELSE 255)
    BY <1>15 DEF DispatchResult
  <2>3. PICK ret \in {0, 255} : ret = IF Head(readq) = "ret0" THEN 0 ELSE 255
    OBVIOUS
  <2>4. cur = NoSess /\ ~Reported' /\ (ret = 0 => Did(s))
    <3>1. cur = NoSess
      BY <2>1, ReadHead
    <3>2. ~Reported' /\ (Head(readq) = "ret0" => Reported)
      BY <1>5, <2>1
    <3> QED BY <2>3, <3>1, <3>2 DEF CountInv
  <2>5. /\ s \in Sess /\ s = Head(sessqueue) /\ sessqueue # <<>>
        /\ begun[s] \in Nat /\ succeeded[s] \in Nat /\ qnextp[s] \in Nat
        /\ NCmd[s] \in Nat /\ qnextp[s] <= NCmd[s]
    BY <1>1, Before DEF QueueInv
  <2>6. SessionOnCommandFinished(s, ret)
    BY <2>2, <2>3
  <2>7. CASE ret # 0 \/ qnextp[s] >= NCmd[s]
    <3>1. Finish(s, ret) /\ CommandIdle
      BY <2>6, <2>7 DEF SessionOnCommandFinished
    <3>2. ret = 0 => /\ begun[s] > 0 /\ begun[s] = succeeded[s]
                     /\ succeeded[s] = NCmd[s] \/ abortbyuser[s]
      <4>1. ASSUME ret = 0 PROVE qnextp[s] = NCmd[s] /\ Did(s)
        BY <2>4, <2>5, <2>7, <4>1
      <4> QED BY <4>1 DEF Did, Handed
    <3>3. ret \in {-1, 0, 255}
      OBVIOUS
    <3> QED BY <1>13, <2>1, <2>4, <3>1, <3>2, <3>3
  <2>8. CASE ~(ret # 0 \/ qnextp[s] >= NCmd[s])
    <3>1. RunNext(s, svc, runlater) /\ ret = 0 /\ qnextp[s] < NCmd[s]
      BY <2>5, <2>6, <2>8 DEF SessionOnCommandFinished
    <3>2. ~abortbyuser[s]
      <4>1. qnextp[s] # NCmd[s]
        BY <2>5, <3>1
      <4> QED BY <2>5, <4>1 DEF CountInv, Fresh
    <3>3. begun[s] = qnextp[s] /\ succeeded[s] = qnextp[s]
      BY <2>4, <3>1, <3>2 DEF Did, Handed
    <3> QED BY <2>1, <2>4, <2>5, <3>1, <3>3, RunNextCounts
  <2> QED BY <2>7, <2>8
<1>16. CASE ServiceFinished
  <2>1. /\ proc = "dead" /\ CommandIdle
        /\ UNCHANGED <<cur, begun, succeeded>>
    BY <1>16 DEF ServiceFinished
  <2>2. cur = NoSess
    BY <2>1, Before DEF WorkerInv
  <2>3. CASE attached = {}
    BY <1>16, <2>1, <2>3, QuietStep DEF ServiceFinished, CommandIdle, sessVars, Stutter
  <2>4. CASE attached # {}
    <3>1. PICK s \in attached : Finish(s, -1)
      BY <1>16, <2>4 DEF ServiceFinished
    <3>2. abortbyuser' = abortbyuser /\ -1 \in {-1, 0, 255} /\ -1 # 0
      BY <1>16, <2>4 DEF ServiceFinished
    <3> QED BY <1>13, <2>1, <2>2, <3>1, <3>2
  <2> QED BY <2>3, <2>4
<1> QED BY <1>2, <1>3, <1>4, <1>8, <1>9, <1>10, <1>11, <1>12, <1>14, <1>15, <1>16 DEF Gui

\* The counts when the program starts, and while it does nothing.
LEMMA InitCounts == Init => FrameInv /\ CountInv
<1> SUFFICES ASSUME Init PROVE FrameInv /\ CountInv
  OBVIOUS
<1> USE NCmdAssumption DEF Init, ProcInit
<1>1. FrameInv
  BY DEF FrameInv, InOrder
<1>2. CountInv
  BY DEF CountInv, Fresh
<1> QED BY <1>1, <1>2

\* Every step keeps the counts, and is one of CommandService or none.
LEMMA CountsKeep ==
    ASSUME IInv, IInv', FrameInv, CountInv, [Next]_vars
    PROVE  CountInv' /\ ServiceStep
<1>1. CASE UNCHANGED vars
  BY <1>1, QuietStep DEF vars, procVars, guiVars, agentVars, sessVars, workerVars,
     Stutter, Requested, Reported
<1> QED BY <1>1, ClientService, GuiService, ServerService DEF Next

\* The inductive invariant holds in every reachable state.
THEOREM Invariance == Spec => []IInv
BY InitInv, NextInv, PTL DEF Spec

\* Type correctness of the agent, the sessions, the worker and the process.
THEOREM TypeCorrect == Spec => []TypeOK
<1>1. IInv => TypeOK
  BY DEF IInv
<1> QED BY <1>1, Invariance, PTL

\* Only the head of the queue ever listens to the worker, so that no session is
\* given the result of another (_connectWorker, _disconnectWorker).
THEOREM OneActiveHolds == Spec => []OneActive
<1>1. IInv => OneActive
  BY DEF IInv, QueueInv, OneActive
<1> QED BY <1>1, Invariance, PTL

\* The queue holds exactly the sessions that have not emitted commandFinished,
\* each once, and each session emits it once (_onCommandFinished).
THEOREM QueueIsPendingHolds == Spec => []QueueIsPending
<1> USE NCmdAssumption
<1>1. ASSUME IInv PROVE QueueIsPending
  <2>1. ASSUME NEW s \in created
        PROVE  s \in Sess /\ (s \in Waiting) = (emitted[s] = 0)
    <3>1. s \in Sess
      BY <1>1, Before DEF RestTypes
    <3>2. s \in Waiting => emitted[s] = 0
      BY <1>1, Before DEF QueueInv
    <3>3. s \notin Waiting => emitted[s] = 1
      BY <1>1, Before DEF QueueInv
    <3>4. (s \in Waiting) <=> (emitted[s] = 0)
      BY <3>2, <3>3
    <3>5. (s \in Waiting) \in BOOLEAN /\ (emitted[s] = 0) \in BOOLEAN
      OBVIOUS
    <3> QED BY <3>1, <3>4, <3>5
  <2>2. ASSUME NEW s \in created
        PROVE  IsFinished(s) = (emitted[s] = 1)
    <3>1. CASE s \in Waiting
      BY <1>1, <2>1, <3>1, Before DEF QueueInv, IsFinished, IsRunning, QueueTypes
    <3>2. CASE s \notin Waiting
      BY <1>1, <2>1, <3>2, Before DEF QueueInv, IsFinished, IsRunning, QueueTypes
    <3> QED BY <3>1, <3>2
  <2> QED BY <1>1, <2>1, <2>2, Before DEF QueueIsPending, QueueInv, Waiting
<1> QED BY <1>1, Invariance, PTL

\* No wakeup is lost: a queued session is about to be run or listens, and one
\* that listens without having started never waits for a service that is ready
\* or stopped (_runNextSession, _onServiceFinished).
THEOREM NoLostWakeupHolds == Spec => []NoLostWakeup
<1>1. ASSUME IInv PROVE NoLostWakeup
  <2>1. \A s \in attached : svc # "NotRunning" /\ (qnextp[s] = 0 => svc # "Ready")
    BY <1>1, Before DEF WorkerInv
  <2> QED BY <1>1, <2>1, Before DEF QueueInv, NoLostWakeup
<1> QED BY <1>1, Invariance, PTL

\* The assertion of _runNextSession holds: the timer only fires for a queue
\* whose head has not started, with no command running.
THEOREM RunLaterSoundHolds == Spec => []RunLaterSound
<1>1. ASSUME IInv PROVE RunLaterSound
  BY <1>1, Before DEF QueueInv, RunLaterSound, IsCommandRunning
<1> QED BY <1>1, Invariance, PTL

\* No command outlives its session: whatever the server works for, or will
\* read next, belongs to the listening session (_finish, _startService).
THEOREM NoOrphanCommandHolds == Spec => []NoOrphanCommand
<1>1. ASSUME IInv PROVE NoOrphanCommand
  <2>1. ASSUME cur # NoSess PROVE IsRunning(cur) /\ IsCommandRunning
    BY <1>1, <2>1, Before DEF TokenInv, WorkerInv, IsRunning, IsCommandRunning
  <2>2. ASSUME proc \in Alive, NEW i \in DOMAIN stdin, stdin[i].kind = "cmd"
        PROVE  IsRunning(stdin[i].sess) /\ IsCommandRunning
    <3>1. stdin[i] \in Requests
      BY <1>1, <2>2, Before DEF ProcTypeOK, Requests
    <3>2. chtable = "run" /\ stdin[i].sess \in attached
      BY <1>1, <2>2, <3>1, Before DEF TokenInv, NoneIn
    <3> QED BY <1>1, <3>2, Before DEF WorkerInv, IsRunning, IsCommandRunning
  <2> QED BY <2>1, <2>2 DEF NoOrphanCommand
<1> QED BY <1>1, Invariance, PTL

\* The service is reported as not running exactly when there is no server
\* process (CmdServer.serviceState, _onServiceFinished).
THEOREM StoppedMeansNoProcessHolds == Spec => []StoppedMeansNoProcess
<1>1. IInv => StoppedMeansNoProcess
  BY DEF IInv, WorkerInv, StoppedMeansNoProcess
<1> QED BY <1>1, Invariance, PTL

\* What is on its way and what has been counted fit together in every
\* reachable state.
LEMMA CountsHold == Spec => [](IInv /\ FrameInv /\ CountInv)
<1>1. Init => IInv /\ FrameInv /\ CountInv
  BY InitInv, InitCounts
<1>2. IInv /\ FrameInv /\ CountInv /\ [Next]_vars => (IInv /\ FrameInv /\ CountInv)'
  BY NextInv, FramesKeep, CountsKeep
<1> QED BY <1>1, <1>2, PTL DEF Spec

\* Client and server agree on the framing of the pipes: the worker dispatches
\* the message its channel table expects, and a command that waits for a line
\* never finds a request (CmdServer._dispatchRead, channeledinput._read).
THEOREM ProtocolInSyncHolds == Spec => []ProtocolInSync
<1>1. ASSUME IInv, FrameInv PROVE ProtocolInSync
  <2>1. ASSUME readq # <<>>
        PROVE  \/ chtable = "hello" /\ Head(readq) \in Hello
               \/ chtable = "run" /\ Head(readq) \in Result \cup {"line"}
    <3>1. chtable \in {"idle", "hello", "run"}
      BY <1>1, Before DEF RestTypes
    <3> QED BY <1>1, <2>1, <3>1, NextMessage
  <2>2. ASSUME proc = "ask", stdin # <<>> PROVE Head(stdin).kind # "cmd"
    <3>1. cur # NoSess /\ proc \in Alive /\ stdin \in Seq(Block)
      BY <1>1, <2>2, Before DEF WorkerInv, ProcTypeOK, Alive
    <3>2. NoneIn(stdin, Requests)
      BY <1>1, <3>1, Before DEF TokenInv
    <3>3. Head(stdin) \in Block /\ Head(stdin) \notin Requests
      BY <2>2, <3>1, <3>2, TailIsRemoval, HeadTailProperties DEF NoneIn
    <3> QED BY <3>3 DEF Requests
  <2> QED BY <2>1, <2>2 DEF ProtocolInSync
<1> QED BY <1>1, CountsHold, PTL

\* The agent, the sessions, the worker and the process do what CommandService
\* promises: sessions in order, commands of a session in order and none after
\* one that failed, one end for each, and exit code 0 only after success
\* (CmdAgent, CmdSession._onCommandFinished, CmdServer._finishCommand).
THEOREM ServiceImplemented == Spec => ServiceSpec
<1>1. Init => Service!Init
  BY DEF Init, ProcInit, Service!Init
<1>2. ASSUME IInv, FrameInv, CountInv, IInv', [Next]_vars
      PROVE  [Service!Next]_(Service!svars)
  <2>1. ServiceStep
    BY <1>2, CountsKeep
  <2>2. CASE Stutter
    BY <2>2 DEF Stutter, Service!svars
  <2>3. CASE \E s \in Sess :
                \/ Service!Submit(s) \/ Service!Begin(s) \/ Service!Succeed(s)
                \/ Service!Fail(s) \/ Service!Abort(s) \/ Service!End(s)
    BY <2>3 DEF Service!Next
  <2> QED BY <2>1, <2>2, <2>3 DEF ServiceStep
<1> QED BY <1>1, <1>2, CountsHold, PTL DEF Spec, ServiceSpec, Service!Spec

=============================================================================
