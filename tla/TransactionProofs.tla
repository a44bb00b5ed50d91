-------------------------- MODULE TransactionProofs --------------------------
(***************************************************************************)
(* Proofs about Transaction, for any logs and files, any number of         *)
(* transactions and nested scopes, deaths between any two operations on    *)
(* files, but for the two that create the journal, and failures to restore *)
(* any files: types, the invariants, the exactness of rollbacks, and that  *)
(* transactions are atomic updates.  What is excepted is said by lost,     *)
(* torn and exact of the model, and in each theorem's comment.             *)
(***************************************************************************)
EXTENDS Transaction, SequenceTheorems, FiniteSetTheorems, TLAPS

-----------------------------------------------------------------------------
(* Induction, and sequences as lists of notes                              *)

\* A set of natural numbers has a least element.
LEMMA Least ==
    ASSUME NEW T, T \subseteq Nat, T # {}
    PROVE  \E m \in T : \A k \in T : m <= k
<1> DEFINE R == OpToRel(<, Nat)
<1>1. IsWellFoundedOn(R, Nat)
  BY NatLessThanWellFounded
<1>2. \A x, y \in Nat : x < y => <<x, y>> \in R
  BY DEF OpToRel
<1> HIDE DEF R
<1>3. PICK m \in T : \A k \in T : ~(<<k, m>> \in R)
  BY <1>1, WFMin
<1>4. \A k \in T : k \in Nat /\ m \in Nat /\ ~(k < m)
  BY <1>2, <1>3
<1> QED BY <1>3, <1>4

\* Induction up to n, over the set of the numbers that have the property.
LEMMA UpTo ==
    ASSUME NEW n \in Nat, NEW T, 0 \in T, \A i \in 1..n : i - 1 \in T => i \in T
    PROVE  0..n \subseteq T
<1> SUFFICES ASSUME ~(0..n \subseteq T) PROVE FALSE
  OBVIOUS
<1>1. PICK m \in (0..n) \ T : \A k \in (0..n) \ T : m <= k
  <2> DEFINE D == (0..n) \ T
  <2>1. D \subseteq Nat /\ D # {}
    OBVIOUS
  <2> QED BY <2>1, Least
<1>2. m # 0 /\ m - 1 \in 0..n /\ m \in 1..n
  BY <1>1
<1>3. m - 1 \in T
  BY <1>1, <1>2
<1> QED BY <1>1, <1>2, <1>3

\* The elements of an empty sequence, and of any.
LEMMA RangeType ==
    /\ Range(<<>>) = {}
    /\ \A S : \A s \in Seq(S) : Range(s) \subseteq S /\ (Range(s) = {} => s = <<>>)
BY DEF Range

\* What appending an element does to the set of the elements.
LEMMA RangeAppend ==
    ASSUME NEW S, NEW s \in Seq(S), NEW e \in S
    PROVE  Append(s, e) \in Seq(S) /\ Range(Append(s, e)) = Range(s) \cup {e}
<1> DEFINE r == Append(s, e)
<1>1. /\ r \in Seq(S) /\ Len(r) = Len(s) + 1
      /\ \A i \in 1..Len(s) : r[i] = s[i]
      /\ r[Len(s) + 1] = e
  BY AppendProperties
<1>2. DOMAIN s = 1..Len(s) /\ DOMAIN r = 1..(Len(s) + 1) /\ Len(s) \in Nat
  BY <1>1
<1>3. Range(r) \subseteq Range(s) \cup {e}
  BY <1>1, <1>2 DEF Range
<1>4. Range(s) \subseteq Range(r)
  BY <1>1, <1>2 DEF Range
<1>5. e \in Range(r)
  BY <1>1, <1>2 DEF Range
<1> QED BY <1>1, <1>3, <1>4, <1>5

\* What dropping the head does to it.
LEMMA RangeTail ==
    ASSUME NEW S, NEW s \in Seq(S), s # <<>>
    PROVE  /\ Head(s) \in S /\ Tail(s) \in Seq(S)
           /\ Range(s) = {Head(s)} \cup Range(Tail(s))
<1>1. /\ Head(s) \in S /\ Tail(s) \in Seq(S) /\ Len(Tail(s)) = Len(s) - 1
      /\ \A i \in 1..Len(Tail(s)) : Tail(s)[i] = s[i + 1]
  BY HeadTailProperties
<1>2. /\ DOMAIN s = 1..Len(s) /\ DOMAIN Tail(s) = 1..(Len(s) - 1)
      /\ Len(s) \in Nat \ {0} /\ Head(s) = s[1]
  BY <1>1
<1>3. Range(Tail(s)) \subseteq Range(s) /\ Head(s) \in Range(s)
  BY <1>1, <1>2 DEF Range
<1>4. ASSUME NEW i \in 1..Len(s) PROVE s[i] \in {Head(s)} \cup Range(Tail(s))
  <2>1. CASE i = 1
    BY <2>1, <1>2
  <2>2. CASE i # 1
    <3>1. i - 1 \in 1..Len(Tail(s)) /\ Tail(s)[i - 1] = s[i]
      BY <2>2, <1>1, <1>2
    <3> QED BY <3>1, <1>1, <1>2 DEF Range
  <2> QED BY <2>1, <2>2
<1> QED BY <1>1, <1>2, <1>3, <1>4 DEF Range

\* Two sequences one after the other.
LEMMA RangeConcat ==
    ASSUME NEW S, NEW s \in Seq(S), NEW t \in Seq(S), IsInjective(s), IsInjective(t),
           Range(s) \cap Range(t) = {}
    PROVE  /\ s \o t \in Seq(S)
           /\ Range(s \o t) = Range(s) \cup Range(t)
           /\ IsInjective(s \o t)
<1> DEFINE r == s \o t
<1>1. /\ r \in Seq(S) /\ Len(r) = Len(s) + Len(t)
      /\ \A i \in 1..Len(s) + Len(t) : r[i] = IF i <= Len(s) THEN s[i] ELSE t[i - Len(s)]
  BY ConcatProperties
<1>2. /\ Len(s) \in Nat /\ Len(t) \in Nat
      /\ DOMAIN s = 1..Len(s) /\ DOMAIN t = 1..Len(t) /\ DOMAIN r = 1..Len(s) + Len(t)
  BY <1>1
<1>3. \A i \in 1..Len(s) : \A j \in 1..Len(t) : s[i] # t[j]
  BY <1>2 DEF Range
<1>4. \A i, j \in 1..Len(s) + Len(t) : r[i] = r[j] => i = j
  <2> SUFFICES ASSUME NEW i \in 1..Len(s) + Len(t), NEW j \in 1..Len(s) + Len(t), r[i] = r[j]
               PROVE  i = j
    OBVIOUS
  <2>1. CASE i <= Len(s) /\ j <= Len(s)
    BY <2>1, <1>1, <1>2 DEF IsInjective
  <2>2. CASE i <= Len(s) /\ ~(j <= Len(s))
    BY <2>2, <1>1, <1>2, <1>3
  <2>3. CASE ~(i <= Len(s)) /\ j <= Len(s)
    BY <2>3, <1>1, <1>2, <1>3
  <2>4. CASE ~(i <= Len(s)) /\ ~(j <= Len(s))
    <3>1. /\ i - Len(s) \in 1..Len(t) /\ j - Len(s) \in 1..Len(t)
          /\ t[i - Len(s)] = t[j - Len(s)]
      BY <2>4, <1>1, <1>2
    <3>2. i - Len(s) = j - Len(s)
      BY <3>1, <1>2 DEF IsInjective
    <3> QED BY <3>2, <1>2
  <2> QED BY <2>1, <2>2, <2>3, <2>4
<1>5. Range(r) = Range(s) \cup Range(t)
  BY RangeConcatenation
<1> QED BY <1>1, <1>2, <1>4, <1>5 DEF IsInjective

\* A sequence of the elements of a finite set.
LEMMA SetToSeqIs ==
    ASSUME NEW S, IsFiniteSet(S)
    PROVE  /\ SetToSeq(S) \in Seq(S)
           /\ Range(SetToSeq(S)) = S
           /\ IsInjective(SetToSeq(S))
<1> DEFINE n == Cardinality(S)
           f == SetToSeq(S)
<1>1. n \in Nat /\ ExistsBijection(1..n, S)
  BY FS_CardinalityType
<1>2. \E g \in [1..n -> S] : IsInjective(g)
  BY <1>1 DEF ExistsBijection, Bijection, Injection
<1>3. f \in [1..n -> S] /\ IsInjective(f)
  BY <1>2 DEF SetToSeq
<1> HIDE DEF f
<1>4. f \in Injection(1..n, S)
  BY <1>3 DEF Injection
<1>5. IsFiniteSet(1..n) /\ Cardinality(1..n) = n
  BY <1>1, FS_Interval
<1>6. f \in Surjection(1..n, S)
  BY <1>4, <1>5, FS_Injection
<1>7. Range(f) = S
  <2>1. \A y \in S : \E x \in 1..n : f[x] = y
    BY <1>6 DEF Surjection
  <2>2. DOMAIN f = 1..n
    BY <1>3
  <2> QED BY <1>3, <2>1, <2>2 DEF Range
<1>8. f \in Seq(S)
  BY <1>1, <1>3
<1> QED BY <1>3, <1>7, <1>8 DEF f

-----------------------------------------------------------------------------
(* The invariant                                                           *)

\* The faults that are considered, as in the run "transaction".
Faults == "opening" \notin MayDie /\ ~LateErrors /\ ~Careless

J == jrn["journal"]
U == jrn["undo"]
B == bak["journal"]
V == bak["undo"]

\* What the notes n (a journal, or the list of backups) say of x.
Noted(n, x) == n # NoFile /\ \E e \in Range(n) : e[1] = x
Value(n, x) == (CHOOSE e \in Entries(n, x) : TRUE)[2]
Clear(n) == \A e, f \in Range(n) : e[1] = f[1] => e = f

\* Logs and files as playing back the notes n leaves them.
LogsBack(L, n) == [l \in Log |-> IF Noted(n, l) THEN Cut(L[l], Value(n, l)) ELSE L[l]]
FilesBack(F, n) == [f \in File |-> IF Noted(n, f) THEN Value(n, f) ELSE F[f]]

\* The repository as `hg recover' would leave it, and `hg rollback' after that.
Logs0 == IF Recoverable THEN LogsBack(log, J) ELSE log
Files0 == IF Recoverable THEN FilesBack(file, B) ELSE file
Logs1 == LogsBack(Logs0, U)
Files1 == FilesBack(Files0, V)

KnownTo(L) == {0} \cup Range(L[Changelog])
Complete(L) ==
    \A t \in Range(L[Changelog]) : t > 0 /\ \A d \in Data : t \in Range(L[d])

Active == phase \in {"transaction", "close", "undo", "after"}
Playback == phase \in {"abort", "recover", "rollback"}
Replaced == phase = "after" /\ step # ""    \* the journal has become undo

Shape ==
    /\ phase \in {"idle", "begin", "opening"} => step = ""
    /\ phase = "transaction" => step \in {"", "journalled"}
    /\ phase = "close" => step \in {"", "registered"}
    /\ phase = "undo" => step \in {"", "copied"}
    /\ phase = "after" => step \in {"", "copied", "dropped"}
    /\ Playback => step \in {"playback", "unlinked", "dropped"}
    /\ ~Active => scope = NoScope /\ buf = "none" /\ wrote = {} /\ gens = {}
    /\ phase \in {"idle", "begin", "opening"} => entries = <<>> /\ backups = <<>>
    /\ phase \in {"idle", "begin", "opening", "undo", "abort", "recover"} => todo = <<>>
    /\ phase = "rollback" \/ Replaced => IsInjective(todo) /\ Range(todo) \subseteq Copied
    /\ phase = "rollback" => Dirstate \notin Range(todo)
    /\ phase \in {"begin", "opening"} \/ Active => tr > 0
    /\ phase \in {"idle", "begin", "opening"} => parent = file[Dirstate]
    /\ phase = "abort" => copy["journal"][Dirstate] # NoFile
    \* the files
    /\ phase \in {"begin", "rollback"} \/ Replaced => J = NoFile
    /\ phase = "opening" => J = <<>>
    /\ InProgress => J # NoFile /\ B = backups
    /\ phase \in {"transaction", "close"} => J = entries
    /\ phase \in {"abort", "recover"} /\ step # "dropped" => J # NoFile
    /\ phase \in {"abort", "recover"} /\ step = "unlinked" => B = NoFile
    /\ phase = "recover" /\ step = "dropped" => J = NoFile
    /\ phase = "rollback" => IF step = "dropped" THEN U = NoFile ELSE U # NoFile
    /\ phase = "rollback" /\ step # "playback" => V = NoFile
    /\ ~Playback => failed = {}

Scopes ==
    /\ phase = "transaction" => scope.usages <= scope.count /\ scope.usages > 0
    /\ phase = "transaction" /\ scope.failed => scope.usages < scope.count
    /\ phase \in {"close", "undo", "after"} => ~scope.failed

\* The notes are about things known, each thing once.
Notes ==
    /\ (J # NoFile => Clear(J)) /\ (U # NoFile => Clear(U))
    /\ Recoverable /\ B # NoFile => Clear(B)
    /\ V # NoFile => Clear(V)
    /\ Recoverable => \A e \in Range(J) : e[2] <= Len(log[e[1]])
    /\ U # NoFile => \A e \in Range(U) : e[2] <= Len(Logs0[e[1]])

\* What is not in entries or backups any more has been played back, or not;
\* an abort that goes on in spite of that has removed the file.
Played ==
    /\ Playback /\ step # "dropped" =>
        \A e \in Range(jrn[Playing]) : (step = "playback" /\ e \in Range(entries)) \/ Len(log[e[1]]) = e[2]
    /\ Playback /\ step = "playback" =>
        /\ Range(entries) \subseteq Range(jrn[Playing])
        /\ IF bak[Playing] = NoFile THEN backups = <<>>
           ELSE /\ Range(backups) \subseteq Range(bak[Playing])
                /\ \A e \in Range(bak[Playing]) :
                      \/ e \in Range(backups) \/ e[1] \in failed \cup {Tmp}
                      \/ file[e[1]] = e[2]
    /\ phase = "abort" => \A f \in failed : file[f] \in {0, Files0[f]}

Appended(l) == l \in wrote /\ (l = Changelog => buf = "none")
Generated(f) == f \in gens /\ phase # "transaction" /\ f \notin Range(todo)
New(f) == IF f = Dirstate THEN parent ELSE tr

\* How far a transaction is.
Progress ==
    /\ InProgress =>
        /\ \A l \in Log : log[l] = IF Appended(l) THEN Append(Logs0[l], tr) ELSE Logs0[l]
        /\ \A f \in File : file[f] = IF Generated(f) THEN New(f) ELSE Files0[f]
        /\ \A l \in wrote : Noted(J, l)
        /\ buf = "divert" => tmp = Append(log[Changelog], tr)
        /\ buf # "none" => Changelog \in wrote
    /\ phase = "transaction" =>
        /\ buf = "none" => Changelog \notin wrote
        /\ buf = "divert" \/ \A e \in Range(B) : e[1] # Tmp
        /\ \A e \in Range(B) : e[1] = Tmp
        /\ todo = <<>>
    /\ phase = "close" =>
        /\ IsInjective(todo) /\ Range(todo) \subseteq gens \cup {Changelog}
        /\ buf # "none" => Changelog \in Range(todo)
        /\ \A e \in Range(B) : e[1] \in Range(todo) => step = "registered" /\ e[1] = Head(todo)
        /\ step = "registered" => todo # <<>> /\ Head(todo) # Changelog /\ Noted(B, Head(todo))
        /\ \A f \in File : Generated(f) => Noted(B, f)
    /\ phase \in {"close", "undo", "after"} => (Changelog \in wrote => Data \subseteq wrote)
    /\ phase = "undo" \/ (phase = "after" /\ step = "") => buf = "none" /\ todo = <<>>
    /\ phase = "after" /\ step = "dropped" => todo = <<>>
    /\ (phase = "undo" /\ step = "copied") \/ (phase = "after" /\ step = "") => ~exact
    /\ phase = "after" /\ todo # <<>> => ~exact
    /\ phase = "after" => V # NoFile /\ Range(V) = {b \in Range(backups) : b[1] # Tmp}

\* The changesets that are there have their data.
Logs ==
    /\ "store" \notin torn /\ phase # "rollback" => Complete(Logs0)
    /\ "store" \notin torn \/ exact => Complete(Logs1)
    /\ exact \/ Replaced => Logs1 = before.log

\* Files that can be put back.
Files ==
    /\ exact \/ Replaced => \A f \in Store \ lost : Files1[f] = before.file[f]
    /\ exact => \A f \in Gen : copy["undo"][f] \in {NoFile, before.file[f]}
    /\ phase \in {"begin", "opening"} \/ InProgress =>
        \A f \in Copied : copy["journal"][f] = Files0[f]
    /\ Replaced => \A f \in Gen :
          IF f \in Range(todo) THEN copy["journal"][f] = before.file[f]
                               ELSE copy["undo"][f] = before.file[f]

\* The parent of the working directory is known.
Parent ==
    /\ "dirstate" \notin torn =>
        /\ phase # "rollback" => Files0[Dirstate] \in KnownTo(Logs0)
        /\ InProgress => parent \in KnownTo(Logs0) \cup (IF Changelog \in wrote THEN {tr} ELSE {})
        /\ Replaced => parent \in KnownTo(log)
        /\ phase = "abort" => copy["journal"][Dirstate] \in KnownTo(Logs0)
        /\ Replaced /\ Dirstate \in Range(todo) => copy["journal"][Dirstate] \in KnownTo(Logs1)
    /\ "dirstate" \notin torn \/ exact => copy["undo"][Dirstate] \in {NoFile} \cup KnownTo(Logs1)

\* An undo that there is, or that a rollback has just used, has its
\* undo.dirstate, or will have.
Undoable == U # NoFile \/ phase = "rollback"
Copies ==
    /\ "undo" \notin torn /\ Undoable /\ ~DirstateDue => copy["undo"][Dirstate] # NoFile
    /\ DirstateDue => copy["journal"][Dirstate] # NoFile
    /\ exact => "undo" \notin torn

IInv == /\ Shape /\ Scopes /\ Notes /\ Played /\ Progress /\ Logs /\ Files
        /\ Parent /\ Copies

-----------------------------------------------------------------------------
(* Notes and what playing them back does                                   *)

\* Kinds that the assumption keeps apart.
LEMMA Kinds ==
    /\ Changelog \in Log /\ Changelog \notin Data /\ Changelog \notin File
    /\ Data \subseteq Log /\ \A l \in Log : l = Changelog \/ l \in Data
    /\ Fncache \in Store /\ Fncache \notin Gen /\ Dirstate \in File /\ Dirstate \notin Store
    /\ Dirstate \notin Gen /\ Dirstate # Fncache
    /\ Gen \subseteq Store /\ Store \subseteq File /\ Tmp \notin File /\ Tmp # Changelog
    /\ Copied \subseteq File /\ Gen \subseteq Copied /\ Dirstate \in Copied
    /\ \A f \in Copied : f = Dirstate \/ f \in Gen
    /\ \A f \in File : f = Dirstate \/ f \in Store
    /\ NoFile \notin Version /\ NoFile \notin Seq(Version)
    /\ NoFile \notin Seq(Entry) /\ NoFile \notin Seq(Saved)
<1>1. Version \subseteq Nat
  BY BoundAssumption DEF Version
<1>2. Seq(Version) \subseteq Seq(Nat) /\ Seq(Saved) \subseteq Seq((File \cup {Tmp}) \X Nat)
  <2>1. \A s \in Seq(Version) : s \in Seq(Nat)
    BY <1>1, SeqMonotonic
  <2>2. Saved \subseteq (File \cup {Tmp}) \X Nat
    BY <1>1 DEF Saved
  <2>3. \A s \in Seq(Saved) : s \in Seq((File \cup {Tmp}) \X Nat)
    BY <2>2, SeqMonotonic
  <2> QED BY <2>1, <2>3
<1> QED BY <1>1, <1>2, KindAssumption DEF Log, Store, File, Copied, Entry

\* What a sequence looks like that was cut.
LEMMA CutIs ==
    ASSUME NEW s \in Seq(Version), NEW n \in Nat
    PROVE  /\ Cut(s, n) \in Seq(Version)
           /\ Len(Cut(s, n)) = n
           /\ Cut(Cut(s, n), n) = Cut(s, n)
           /\ n <= Len(s) => /\ \A i \in 1..n : Cut(s, n)[i] = s[i]
                             /\ Range(Cut(s, n)) \subseteq Range(s)
                             /\ IsPrefix(Cut(s, n), s)
           /\ n = Len(s) => Cut(s, n) = s
           /\ \A e \in Version : n <= Len(s) => Cut(Append(s, e), n) = Cut(s, n)
<1> DEFINE c == Cut(s, n)
<1>0. 0 \in Version
  BY BoundAssumption DEF Version
<1>1. /\ c \in Seq(Version) /\ Len(c) = n /\ DOMAIN c = 1..n
      /\ \A i \in 1..n : c[i] = IF i <= Len(s) THEN s[i] ELSE 0
  BY <1>0 DEF Cut
<1>2. Cut(c, n) = c
  <2>1. /\ Cut(c, n) \in Seq(Version) /\ Len(Cut(c, n)) = n
        /\ \A i \in 1..n : Cut(c, n)[i] = c[i]
    BY <1>0, <1>1 DEF Cut
  <2> HIDE DEF c
  <2> QED BY <1>1, <2>1, SeqEqual
<1>3. ASSUME n <= Len(s)
      PROVE  /\ \A i \in 1..n : c[i] = s[i]
             /\ Range(c) \subseteq Range(s)
             /\ IsPrefix(c, s)
  <2>1. \A i \in 1..n : c[i] = s[i]
    BY <1>1, <1>3
  <2> HIDE DEF c
  <2>2. Range(c) \subseteq Range(s)
    BY <1>1, <1>3, <2>1 DEF Range
  <2>3. IsPrefix(c, s)
    <3>1. SubSeq(c, 1, n) = c
      BY <1>1, SubSeqFull
    <3>2. /\ SubSeq(s, 1, n) \in Seq(Version) /\ Len(SubSeq(s, 1, n)) = n
          /\ \A i \in 1..n : SubSeq(s, 1, n)[i] = s[i]
      <4>1. \A i \in 1..n : s[i] \in Version
        BY <1>3
      <4> QED BY <4>1, SubSeqProperties
    <3>3. SubSeq(s, 1, n) = c
      BY <1>1, <2>1, <3>2, SeqEqual
    <3> QED BY <1>1, <1>3, <3>1, <3>3 DEF IsPrefix
  <2> QED BY <2>1, <2>2, <2>3
<1>4. ASSUME n = Len(s) PROVE c = s
  <2>1. \A i \in 1..n : c[i] = s[i]
    BY <1>1, <1>4
  <2> HIDE DEF c
  <2> QED BY <1>1, <1>4, <2>1, SeqEqual
<1>5. ASSUME NEW e \in Version, n <= Len(s) PROVE Cut(Append(s, e), n) = c
  <2> DEFINE d == Cut(Append(s, e), n)
  <2>1. \A i \in 1..n : Append(s, e)[i] = s[i] /\ i <= Len(Append(s, e))
    BY <1>5
  <2>2. /\ d \in Seq(Version) /\ Len(d) = n
        /\ \A i \in 1..n : d[i] = IF i <= Len(Append(s, e)) THEN Append(s, e)[i] ELSE 0
    BY <1>0, <2>1 DEF Cut
  <2> HIDE DEF c, d
  <2>3. \A i \in 1..n : d[i] = c[i]
    BY <1>1, <1>5, <2>1, <2>2
  <2> QED BY <1>1, <2>2, <2>3, SeqEqual DEF d
<1> QED BY <1>1, <1>2, <1>3, <1>4, <1>5 DEF IsPrefix

\* A clear list of notes says what its notes say.
LEMMA Valued ==
    ASSUME NEW n, n # NoFile, Clear(n), NEW e \in Range(n)
    PROVE  Noted(n, e[1]) /\ Value(n, e[1]) = e[2]
<1>1. Noted(n, e[1])
  BY DEF Noted
<1>2. Entries(n, e[1]) = {e}
  BY DEF Clear, Entries
<1> QED BY <1>1, <1>2 DEF Value

LEMMA NotedBy ==
    ASSUME NEW n, NEW x, Noted(n, x), Clear(n)
    PROVE  n # NoFile /\ \E e \in Range(n) : e[1] = x /\ Value(n, x) = e[2]
BY Valued DEF Noted

\* One more note.
LEMMA NotedAppend ==
    ASSUME NEW S, NEW n \in Seq(S), NEW e \in S, Clear(n), NoFile \notin Seq(S)
    PROVE  /\ Append(n, e) \in Seq(S) /\ Range(Append(n, e)) = Range(n) \cup {e}
           /\ Append(n, e) # NoFile
           /\ ~Noted(n, e[1]) => /\ Clear(Append(n, e))
                                 /\ Noted(Append(n, e), e[1])
                                 /\ Value(Append(n, e), e[1]) = e[2]
           /\ \A x : x # e[1] => /\ Noted(Append(n, e), x) <=> Noted(n, x)
                                 /\ Value(Append(n, e), x) = Value(n, x)
<1> DEFINE m == Append(n, e)
<1>1. m \in Seq(S) /\ Range(m) = Range(n) \cup {e} /\ m # NoFile /\ n # NoFile
  BY RangeAppend
<1> HIDE DEF m
<1>2. ASSUME ~Noted(n, e[1]) PROVE Clear(m)
  BY <1>1, <1>2 DEF Clear, Noted
<1>3. ASSUME ~Noted(n, e[1]) PROVE Noted(m, e[1]) /\ Value(m, e[1]) = e[2]
  BY <1>1, <1>2, <1>3, Valued
<1>4. ASSUME NEW x, x # e[1]
      PROVE  (Noted(m, x) <=> Noted(n, x)) /\ Value(m, x) = Value(n, x)
  <2>1. Entries(m, x) = Entries(n, x)
    BY <1>1, <1>4 DEF Entries
  <2> QED BY <1>1, <1>4, <2>1 DEF Noted, Value
<1> QED BY <1>1, <1>2, <1>3, <1>4 DEF m

\* Nothing is noted.
LEMMA NothingNoted == \A x : ~Noted(<<>>, x) /\ ~Noted(NoFile, x)
BY RangeType DEF Noted

\* The backups that undo is about.
LEMMA LastingIs == ASSUME NEW S, NEW s \in Seq(S)
   PROVE /\ Lasting(s) \in Seq(S)
         /\ Range(Lasting(s)) = {b \in Range(s) : b[1] # Tmp}
<1> DEFINE Body(g, i) == IF i = 0 THEN <<>>
                         ELSE IF s[i][1] = Tmp THEN g[i - 1]
                         ELSE Append(g[i - 1], s[i])
           Rec(g, m) == g = [i \in 0..m |-> Body(g, i)]
           n == Len(s)
<1>1. n \in Nat /\ \A i \in 1..n : s[i] \in S
  OBVIOUS
<1>2. \E g : Rec(g, n)
  <2> DEFINE T == {m \in 0..n : \E g : Rec(g, m)}
  <2>1. 0 \in T
    <3> DEFINE h == [i \in 0..0 |-> <<>>]
    <3>1. \A i \in 0..0 : Body(h, i) = <<>>
      OBVIOUS
    <3>2. Rec(h, 0)
      BY <3>1
    <3> HIDE DEF h, Rec
    <3> QED BY <3>2, <1>1
  <2>2. ASSUME NEW m \in 1..n, m - 1 \in T PROVE m \in T
    <3>1. PICK g : Rec(g, m - 1)
      BY <2>2
    <3> DEFINE h == [i \in 0..m |-> Body(g, i)]
    <3>2. \A i \in 0..(m - 1) : g[i] = Body(g, i)
      <4> DEFINE k == [i \in 0..(m - 1) |-> Body(g, i)]
      <4>1. g = k
        BY <3>1
      <4>2. \A i \in 0..(m - 1) : k[i] = Body(g, i)
        OBVIOUS
      <4> HIDE DEF k, Body
      <4> QED BY <4>1, <4>2
    <3>3. \A i \in 0..(m - 1) : h[i] = g[i]
      <4> HIDE DEF Body
      <4> QED BY <3>2
    <3>4. \A i \in 0..m : Body(h, i) = Body(g, i)
      <4> SUFFICES ASSUME NEW i \in 0..m PROVE Body(h, i) = Body(g, i)
        OBVIOUS
      <4> HIDE DEF h
      <4>1. CASE i = 0
        BY <4>1
      <4>2. CASE i # 0
        <5>1. i - 1 \in 0..(m - 1)
          BY <4>2
        <5>2. h[i - 1] = g[i - 1]
          BY <5>1, <3>3
        <5> QED BY <5>2
      <4> QED BY <4>1, <4>2
    <3>5. Rec(h, m)
      <4> HIDE DEF Body
      <4> QED BY <3>4
    <3> HIDE DEF h, Rec
    <3> QED BY <3>5, <1>1
  <2> HIDE DEF T
  <2>3. 0..n \subseteq T
    BY <1>1, <2>1, <2>2, UpTo
  <2> QED BY <2>3, <1>1 DEF T
<1> DEFINE f == CHOOSE g : Rec(g, n)
<1>3. Rec(f, n)
  BY <1>2
<1>4. Lasting(s) = f[n]
  BY DEF Lasting
<1> HIDE DEF f
<1> DEFINE Good(i) == /\ f[i] \in Seq(S)
                      /\ Range(f[i]) = {b \in {s[j] : j \in 1..i} : b[1] # Tmp}
           T == {i \in 0..n : Good(i)}
<1>5. 0 \in T
  <2>1. f[0] = <<>>
    BY <1>1, <1>3
  <2>2. Range(f[0]) = {} /\ f[0] \in Seq(S)
    BY <2>1 DEF Range
  <2>3. {s[j] : j \in 1..0} = {}
    OBVIOUS
  <2> QED BY <2>2, <2>3, <1>1
<1>6. ASSUME NEW i \in 1..n, i - 1 \in T PROVE i \in T
  <2>1. f[i] = Body(f, i)
    <3> DEFINE k == [j \in 0..n |-> Body(f, j)]
    <3>1. f = k
      BY <1>3
    <3>2. k[i] = Body(f, i)
      BY <1>1
    <3> HIDE DEF k, Body
    <3> QED BY <3>1, <3>2
  <2>2. Good(i - 1)
    BY <1>6
  <2>3. {s[j] : j \in 1..i} = {s[j] : j \in 1..(i - 1)} \cup {s[i]}
    BY <1>1
  <2>4. CASE s[i][1] = Tmp
    BY <2>1, <2>2, <2>3, <2>4, <1>1
  <2>5. CASE s[i][1] # Tmp
    <3>1. f[i] = Append(f[i - 1], s[i])
      BY <2>1, <2>5
    <3>2. f[i - 1] \in Seq(S) /\ s[i] \in S
      BY <2>2, <1>1
    <3>3. f[i] \in Seq(S) /\ Range(f[i]) = Range(f[i - 1]) \cup {s[i]}
      BY <3>1, <3>2, RangeAppend
    <3> QED BY <3>3, <2>2, <2>3, <2>5
  <2> QED BY <2>4, <2>5
<1> HIDE DEF T
<1>7. 0..n \subseteq T
  BY <1>1, <1>5, <1>6, UpTo
<1>8. Good(n)
  BY <1>1, <1>7 DEF T
<1>9. Range(s) = {s[j] : j \in 1..n}
  BY DEF Range
<1> QED BY <1>4, <1>8, <1>9

-----------------------------------------------------------------------------
(* What recovery and rollback would leave, as seen in the states           *)

\* Playing back a clear journal.
LEMMA LogsBackIs ==
    ASSUME NEW L \in [Log -> Seq(Version)], NEW n \in Seq(Entry) \cup {NoFile},
           n # NoFile => Clear(n)
    PROVE  /\ LogsBack(L, n) \in [Log -> Seq(Version)]
           /\ \A l \in Log : ~Noted(n, l) => LogsBack(L, n)[l] = L[l]
           /\ n # NoFile => \A e \in Range(n) : e \in Entry /\ LogsBack(L, n)[e[1]] = Cut(L[e[1]], e[2])
<1>1. n # NoFile => Range(n) \subseteq Entry
  BY RangeType
<1>2. ASSUME n # NoFile, NEW e \in Range(n)
      PROVE  e \in Entry /\ LogsBack(L, n)[e[1]] = Cut(L[e[1]], e[2])
  BY <1>1, <1>2, Valued DEF LogsBack, Entry
<1>3. \A l \in Log : ~Noted(n, l) => LogsBack(L, n)[l] = L[l]
  BY DEF LogsBack
<1>4. ASSUME NEW l \in Log, Noted(n, l) PROVE LogsBack(L, n)[l] \in Seq(Version)
  <2>1. PICK e \in Range(n) : e[1] = l
    BY <1>4 DEF Noted
  <2>2. n # NoFile
    BY <1>4 DEF Noted
  <2>3. e[2] \in Nat /\ L[l] \in Seq(Version)
    BY <1>2, <2>1, <2>2 DEF Entry
  <2>4. Cut(L[l], e[2]) \in Seq(Version)
    BY <2>3, CutIs
  <2> QED BY <1>2, <2>1, <2>2, <2>4
<1>5. LogsBack(L, n) \in [Log -> Seq(Version)]
  <2>1. \A l \in Log : LogsBack(L, n)[l] \in Seq(Version)
    BY <1>3, <1>4
  <2> QED BY <2>1 DEF LogsBack
<1> QED BY <1>2, <1>3, <1>5

\* Putting back a clear list of backups.
LEMMA FilesBackIs ==
    ASSUME NEW F \in [File -> Version], NEW n \in Seq(Saved) \cup {NoFile},
           n # NoFile => Clear(n)
    PROVE  /\ FilesBack(F, n) \in [File -> Version]
           /\ \A f \in File : ~Noted(n, f) => FilesBack(F, n)[f] = F[f]
           /\ n # NoFile => \A e \in Range(n) : e \in Saved /\ (e[1] \in File => FilesBack(F, n)[e[1]] = e[2])
<1>1. n # NoFile => Range(n) \subseteq Saved
  BY RangeType
<1>2. ASSUME n # NoFile, NEW e \in Range(n)
      PROVE  e \in Saved /\ (e[1] \in File => FilesBack(F, n)[e[1]] = e[2])
  BY <1>1, <1>2, Valued DEF FilesBack, Saved
<1>3. \A f \in File : ~Noted(n, f) => FilesBack(F, n)[f] = F[f]
  BY DEF FilesBack
<1>4. ASSUME NEW f \in File, Noted(n, f) PROVE FilesBack(F, n)[f] \in Version
  <2>1. PICK e \in Range(n) : e[1] = f
    BY <1>4 DEF Noted
  <2>2. n # NoFile
    BY <1>4 DEF Noted
  <2> QED BY <1>2, <2>1, <2>2 DEF Saved
<1>5. FilesBack(F, n) \in [File -> Version]
  <2>1. \A f \in File : FilesBack(F, n)[f] \in Version
    BY <1>3, <1>4
  <2> QED BY <2>1 DEF FilesBack
<1> QED BY <1>2, <1>3, <1>5

\* Types of the parts of the state.
LEMMA Parts ==
    ASSUME TypeOK
    PROVE  /\ J \in Seq(Entry) \cup {NoFile} /\ U \in Seq(Entry) \cup {NoFile}
           /\ B \in Seq(Saved) \cup {NoFile} /\ V \in Seq(Saved) \cup {NoFile}
           /\ \A n \in Name : n = "journal" \/ n = "undo"
           /\ J = jrn["journal"] /\ U = jrn["undo"] /\ B = bak["journal"] /\ V = bak["undo"]
           /\ tr \in Nat /\ Version \subseteq Nat /\ 0 \in Version /\ tr \in Version
<1>1. "journal" \in Name /\ "undo" \in Name /\ \A n \in Name : n = "journal" \/ n = "undo"
  BY DEF Name
<1>2. tr \in Nat /\ Version \subseteq Nat /\ 0 \in Version /\ tr \in Version
  <2>1. MaxTr \in Nat /\ tr \in 0..MaxTr
    BY BoundAssumption DEF TypeOK, Version
  <2> QED BY <2>1 DEF Version
<1>3. jrn \in [Name -> Seq(Entry) \cup {NoFile}] /\ bak \in [Name -> Seq(Saved) \cup {NoFile}]
  BY DEF TypeOK
<1> QED BY <1>1, <1>2, <1>3 DEF J, U, B, V

LEMMA ViewTypes ==
    ASSUME TypeOK, Notes
    PROVE  /\ Logs0 \in [Log -> Seq(Version)] /\ Logs1 \in [Log -> Seq(Version)]
           /\ Files0 \in [File -> Version] /\ Files1 \in [File -> Version]
<1>1. log \in [Log -> Seq(Version)] /\ file \in [File -> Version]
  BY DEF TypeOK
<1>2. (J # NoFile => Clear(J)) /\ (U # NoFile => Clear(U)) /\ (V # NoFile => Clear(V))
  BY DEF Notes
<1>3. Recoverable /\ B # NoFile => Clear(B)
  BY DEF Notes
<1>4. Logs0 \in [Log -> Seq(Version)]
  BY <1>1, <1>2, Parts, LogsBackIs DEF Logs0
<1>5. Files0 \in [File -> Version]
  BY <1>1, <1>3, Parts, FilesBackIs DEF Files0
<1>6. Logs1 \in [Log -> Seq(Version)]
  BY <1>2, <1>4, Parts, LogsBackIs DEF Logs1
<1>7. Files1 \in [File -> Version]
  BY <1>2, <1>5, Parts, FilesBackIs DEF Files1
<1> QED BY <1>4, <1>5, <1>6, <1>7

LEMMA Empty == \A S : <<>> \in Seq(S)
OBVIOUS

\* Elements and tails of what is left to do.
LEMMA HeadTail ==
    ASSUME NEW S, NEW s \in Seq(S), s # <<>>
    PROVE  /\ Head(s) \in S /\ Tail(s) \in Seq(S) /\ Head(s) \in Range(s)
           /\ Range(s) = {Head(s)} \cup Range(Tail(s))
           /\ IsInjective(s) => IsInjective(Tail(s)) /\ Head(s) \notin Range(Tail(s))
<1>1. /\ Tail(s) \in Seq(S) /\ Len(Tail(s)) = Len(s) - 1
      /\ \A i \in 1..Len(Tail(s)) : Tail(s)[i] = s[i + 1]
  BY HeadTailProperties
<1>2. /\ DOMAIN s = 1..Len(s) /\ DOMAIN Tail(s) = 1..(Len(s) - 1)
      /\ Len(s) \in Nat \ {0} /\ Head(s) = s[1]
  BY <1>1
<1>3. \A i \in DOMAIN Tail(s) : i + 1 \in DOMAIN s /\ Tail(s)[i] = s[i + 1] /\ i + 1 # 1
  BY <1>1, <1>2
<1>4. ASSUME IsInjective(s) PROVE IsInjective(Tail(s)) /\ Head(s) \notin Range(Tail(s))
  <2>1. \A i, j \in DOMAIN s : s[i] = s[j] => i = j
    BY <1>4 DEF IsInjective
  <2>2. \A i, j \in DOMAIN Tail(s) : Tail(s)[i] = Tail(s)[j] => i = j
    BY <1>2, <1>3, <2>1
  <2>3. \A i \in DOMAIN Tail(s) : Tail(s)[i] # Head(s)
    BY <1>2, <1>3, <2>1
  <2> QED BY <2>2, <2>3 DEF IsInjective, Range
<1> QED BY <1>4, RangeTail

-----------------------------------------------------------------------------
(* Types                                                                   *)

LEMMA TypesInit == Init => TypeOK
<1> SUFFICES ASSUME Init PROVE TypeOK
  OBVIOUS
<1>1. 0 \in Version /\ MaxCount \in Nat \ {0}
  BY BoundAssumption DEF Version
<1>2. /\ log \in [Log -> Seq(Version)] /\ file \in [File -> Version]
      /\ before \in [log : [Log -> Seq(Version)], file : [Store -> Version]]
  <2>1. log = [l \in Log |-> <<>>] /\ file = [f \in File |-> 0]
        /\ before = [log |-> log, file |-> [f \in Store |-> 0]]
    BY DEF Init
  <2>2. log \in [Log -> Seq(Version)] /\ file \in [File -> Version]
    BY <1>1, <2>1
  <2>3. [f \in Store |-> 0] \in [Store -> Version]
    BY <1>1
  <2> QED BY <2>1, <2>2, <2>3
<1>3. scope \in [count : 0..MaxCount, usages : 0..MaxCount, failed : BOOLEAN]
  <2>1. scope = NoScope
    BY DEF Init
  <2>2. 0 \in 0..MaxCount
    BY <1>1
  <2> QED BY <2>1, <2>2 DEF NoScope
<1>4. /\ jrn \in [Name -> Seq(Entry) \cup {NoFile}]
      /\ bak \in [Name -> Seq(Saved) \cup {NoFile}]
      /\ copy \in [Name -> [Copied -> Version \cup {NoFile}]]
  BY DEF Init
<1>5. /\ tr \in Version /\ parent \in Version /\ phase \in Phase
      /\ step \in {"", "journalled", "copied", "registered", "playback", "unlinked", "dropped"}
      /\ buf \in {"none", "delay", "divert"} /\ exact \in BOOLEAN
  BY <1>1 DEF Init, Phase
<1>6. entries \in Seq(Entry) /\ backups \in Seq(Saved) /\ todo \in Seq(File \cup {Changelog})
  <2>1. entries = <<>> /\ backups = <<>> /\ todo = <<>>
    BY DEF Init
  <2> QED BY <2>1, Empty
<1>7. /\ tmp \in Seq(Version) \cup {NoFile} /\ wrote \subseteq Log /\ gens \subseteq File
      /\ torn \subseteq {"store", "dirstate", "undo"} /\ failed \subseteq File /\ lost \subseteq Store
  BY DEF Init
<1> QED BY <1>2, <1>3, <1>4, <1>5, <1>6, <1>7 DEF TypeOK

\* RecoveredLogs and RecoveredFiles of the model are the views of the proof.
LEMMA RecoveredAre ==
    /\ RecoveredLogs = [l \in Log |-> Logs0[l]]
    /\ RecoveredFiles = [f \in Store |-> Files0[f]]
<1>1. \A n, x : n # NoFile => (Noted(n, x) <=> Entries(n, x) # {})
  BY DEF Noted, Entries
<1>2. ASSUME NEW l \in Log PROVE RecoveredLogs[l] = Logs0[l]
  BY <1>1 DEF RecoveredLogs, Logs0, LogsBack, Recoverable, J, Value, Noted
<1>3. ASSUME NEW f \in Store PROVE RecoveredFiles[f] = Files0[f]
  BY <1>1, Kinds DEF RecoveredFiles, Files0, FilesBack, B, Value, Noted
<1> QED BY <1>2, <1>3 DEF RecoveredLogs, RecoveredFiles

\* The files Close is going to write, and the copies there are.
LEMMA ToWrite ==
    ASSUME NEW G \in SUBSET File
    PROVE  LET s == SetToSeq(G \ {Fncache}) \o <<Changelog>> \o SetToSeq(G \cap {Fncache})
           IN  s \in Seq(File \cup {Changelog}) /\ Range(s) = G \cup {Changelog} /\ IsInjective(s)
<1> DEFINE a == SetToSeq(G \ {Fncache})
           c == SetToSeq(G \cap {Fncache})
           m == <<Changelog>>
           S == File \cup {Changelog}
<1>1. IsFiniteSet(G \ {Fncache}) /\ IsFiniteSet(G \cap {Fncache})
  <2>1. IsFiniteSet(File)
    <3>1. IsFiniteSet(Gen \cup {Fncache})
      BY KindAssumption, FS_AddElement
    <3> QED BY <3>1, FS_AddElement DEF File, Store
  <2> QED BY <2>1, FS_Subset
<1>2. /\ a \in Seq(S) /\ Range(a) = G \ {Fncache} /\ IsInjective(a)
      /\ c \in Seq(S) /\ Range(c) = G \cap {Fncache} /\ IsInjective(c)
  <2>1. /\ a \in Seq(G \ {Fncache}) /\ Range(a) = G \ {Fncache} /\ IsInjective(a)
        /\ c \in Seq(G \cap {Fncache}) /\ Range(c) = G \cap {Fncache} /\ IsInjective(c)
    BY <1>1, SetToSeqIs
  <2>2. G \ {Fncache} \subseteq S /\ G \cap {Fncache} \subseteq S
    OBVIOUS
  <2> HIDE DEF a, c, S
  <2> QED BY <2>1, <2>2, SeqMonotonic
<1>3. m \in Seq(S) /\ Range(m) = {Changelog} /\ IsInjective(m)
  BY DEF Range, IsInjective
<1>4. Changelog \notin G
  BY Kinds
<1> HIDE DEF a, c, m
<1>5. a \o m \in Seq(S) /\ Range(a \o m) = (G \ {Fncache}) \cup {Changelog} /\ IsInjective(a \o m)
  BY <1>2, <1>3, <1>4, RangeConcat
<1>6. Range(a \o m) \cap Range(c) = {}
  BY <1>2, <1>4, <1>5
<1> DEFINE am == a \o m
<1>7. am \in Seq(S) /\ Range(am) = (G \ {Fncache}) \cup {Changelog} /\ IsInjective(am)
  BY <1>5
<1>8. Range(am) \cap Range(c) = {}
  BY <1>6
<1> HIDE DEF am, S
<1>9. am \o c \in Seq(S) /\ Range(am \o c) = Range(am) \cup Range(c) /\ IsInjective(am \o c)
  BY <1>2, <1>7, <1>8, RangeConcat
<1> QED BY <1>2, <1>7, <1>9 DEF am, a, c, m, S

LEMMA ToRename ==
    LET s == <<Dirstate>> \o SetToSeq(Gen) IN
    /\ s \in Seq(File \cup {Changelog}) /\ Range(s) = Copied /\ IsInjective(s)
    /\ SetToSeq(Gen) \in Seq(File \cup {Changelog})
    /\ Range(SetToSeq(Gen)) = Gen /\ IsInjective(SetToSeq(Gen))
<1> DEFINE S == File \cup {Changelog}
           a == <<Dirstate>>
           c == SetToSeq(Gen)
<1>1. c \in Seq(S) /\ Range(c) = Gen /\ IsInjective(c)
  <2>1. c \in Seq(Gen) /\ Range(c) = Gen /\ IsInjective(c)
    BY KindAssumption, SetToSeqIs
  <2>2. Gen \subseteq S
    BY Kinds
  <2> HIDE DEF c, S
  <2> QED BY <2>1, <2>2, SeqMonotonic
<1>2. a \in Seq(S) /\ Range(a) = {Dirstate} /\ IsInjective(a)
  BY Kinds DEF Range, IsInjective
<1> HIDE DEF a, c, S
<1>3. a \o c \in Seq(S) /\ Range(a \o c) = Range(a) \cup Range(c) /\ IsInjective(a \o c)
  BY <1>1, <1>2, Kinds, RangeConcat
<1> QED BY <1>1, <1>2, <1>3 DEF a, c, S, Copied

LEMMA TypesNext ==
    ASSUME TypeOK, IInv, Next
    PROVE  TypeOK'
<1> USE DEF disk, memory, history
<1>0. /\ 0 \in Version /\ tr \in Version /\ tr \in Nat /\ MaxCount \in Nat \ {0} /\ MaxTr \in Nat
      /\ "journal" \in Name /\ "undo" \in Name
  BY Parts, BoundAssumption DEF Name
<1>a. log \in [Log -> Seq(Version)] /\ file \in [File -> Version]
  BY DEF TypeOK
<1>b. jrn \in [Name -> Seq(Entry) \cup {NoFile}] /\ bak \in [Name -> Seq(Saved) \cup {NoFile}]
  BY DEF TypeOK
<1>c. copy \in [Name -> [Copied -> Version \cup {NoFile}]] /\ tmp \in Seq(Version) \cup {NoFile}
  BY DEF TypeOK
<1>d. scope \in [count : 0..MaxCount, usages : 0..MaxCount, failed : BOOLEAN]
  BY DEF TypeOK
<1>e. entries \in Seq(Entry) /\ backups \in Seq(Saved) /\ todo \in Seq(File \cup {Changelog})
  BY DEF TypeOK
<1>f. buf \in {"none", "delay", "divert"} /\ wrote \subseteq Log /\ gens \subseteq File /\ parent \in Version
  BY DEF TypeOK
<1>1. CASE Begin
  <2>1. tr' \in Version
    BY <1>0, <1>1 DEF Begin, Version
  <2>2. copy' \in [Name -> [Copied -> Version \cup {NoFile}]]
    BY <1>1, Kinds DEF Begin, TypeOK
  <2> QED BY <1>1, <2>1, <2>2 DEF Begin, TypeOK, Phase
<1>2. CASE OpenJournal
  <2>1. jrn' \in [Name -> Seq(Entry) \cup {NoFile}]

    <3>1. <<>> \in Seq(Entry) /\ jrn' = [jrn EXCEPT !["journal"] = <<>>]
      BY <1>2 DEF OpenJournal
    <3> QED BY <1>b, <3>1
  <2> QED BY <1>2, <2>1 DEF OpenJournal, TypeOK, Phase
<1>3. CASE OpenBackups
  <2>1. bak' \in [Name -> Seq(Saved) \cup {NoFile}]
    <3>1. <<>> \in Seq(Saved) /\ bak' = [bak EXCEPT !["journal"] = <<>>]
      BY <1>3 DEF OpenBackups
    <3> QED BY <1>b, <3>1
  <2>2. scope' \in [count : 0..MaxCount, usages : 0..MaxCount, failed : BOOLEAN]
    <3>1. 1 \in 0..MaxCount /\ scope' = [count |-> 1, usages |-> 1, failed |-> FALSE]
      BY <1>0, <1>3 DEF OpenBackups
    <3> QED BY <3>1
  <2> QED BY <1>3, <2>1, <2>2 DEF OpenBackups, TypeOK, Phase
<1>4. ASSUME NEW l \in Log, Add(l) PROVE TypeOK'
  <2> DEFINE e == <<l, Len(log[l])>>
  <2>1. e \in Entry
    BY <1>a DEF Entry
  <2>2. J \in Seq(Entry) /\ J = jrn["journal"]
    BY <1>4, Parts DEF Add, IInv, Shape, Open, InProgress
  <2> HIDE DEF e
  <2>3. Append(entries, e) \in Seq(Entry) /\ Append(J, e) \in Seq(Entry)
    BY <1>e, <2>1, <2>2
  <2>4. entries' = Append(entries, e) /\ jrn' = [jrn EXCEPT !["journal"] = Append(J, e)]
    BY <1>4, <2>2 DEF Add, e
  <2>5. jrn' \in [Name -> Seq(Entry) \cup {NoFile}]
    BY <1>b, <2>3, <2>4
  <2>6. entries' \in Seq(Entry)
    BY <2>3, <2>4
  <2> QED BY <1>4, <2>5, <2>6 DEF Add, TypeOK
<1>5. ASSUME NEW l \in Log, WriteData(l) PROVE TypeOK'
  <2>1. log' \in [Log -> Seq(Version)]
    <3>1. log[l] \in Seq(Version) /\ log' = [log EXCEPT ![l] = Append(log[l], tr)]
      BY <1>a, <1>5 DEF WriteData
    <3>2. Append(log[l], tr) \in Seq(Version)
      BY <1>0, <3>1
    <3> HIDE DEF Version
    <3> QED BY <1>a, <3>1, <3>2
  <2> QED BY <1>5, <2>1 DEF WriteData, TypeOK
<1>6. CASE WriteChangeset
  <2>1. tmp' \in Seq(Version) \cup {NoFile} /\ buf' \in {"none", "delay", "divert"}
    <3>1. (buf' = "divert" /\ tmp' = <<tr>>) \/ (buf' = "delay" /\ tmp' = tmp)
      BY <1>6 DEF WriteChangeset
    <3>2. <<tr>> \in Seq(Version)
      BY <1>0
    <3> QED BY <1>c, <3>1, <3>2
  <2>2. wrote' \subseteq Log
    BY <1>6, Kinds DEF WriteChangeset, TypeOK
  <2> QED BY <1>6, <2>1, <2>2 DEF WriteChangeset, TypeOK
<1>7. CASE WritePending
  <2> DEFINE e == <<Tmp, 0>>
  <2>1. e \in Saved
    BY <1>0 DEF Saved
  <2>2. B \in Seq(Saved) /\ B = bak["journal"] /\ B = backups
    BY <1>7, Parts DEF WritePending, IInv, Shape, Open, InProgress, TypeOK
  <2> HIDE DEF e
  <2>3. Append(backups, e) \in Seq(Saved)
    BY <2>1, <2>2
  <2>4. backups' = Append(backups, e) /\ bak' = [bak EXCEPT !["journal"] = Append(B, e)]
    BY <1>7, <2>2 DEF WritePending, e
  <2>5. bak' \in [Name -> Seq(Saved) \cup {NoFile}]
    BY <2>2, <2>3, <2>4 DEF TypeOK
  <2>6. tmp' \in Seq(Version)
    <3>1. log[Changelog] \in Seq(Version) /\ tmp' = Append(log[Changelog], tr)
      BY <1>a, <1>7, Kinds DEF WritePending
    <3> QED BY <1>0, <3>1
  <2>7. backups' \in Seq(Saved)
    BY <2>3, <2>4
  <2> QED BY <1>7, <2>5, <2>6, <2>7 DEF WritePending, TypeOK
<1>8. CASE SetParent
  BY <1>0, <1>8 DEF SetParent, TypeOK
<1>9. ASSUME NEW f \in File, AddGenerator(f) PROVE TypeOK'
  BY <1>9 DEF AddGenerator, TypeOK
<1>10. CASE Nest
  <2>1. scope' \in [count : 0..MaxCount, usages : 0..MaxCount, failed : BOOLEAN]
    <3>1. scope.usages <= scope.count /\ scope.count < MaxCount
      BY <1>10 DEF Nest, IInv, Scopes, Open
    <3>2. scope' = [scope EXCEPT !.count = @ + 1, !.usages = @ + 1]
      BY <1>10 DEF Nest
    <3>3. scope.count \in 0..MaxCount /\ scope.usages \in 0..MaxCount
      BY <1>d
    <3>4. /\ scope.count + 1 \in 0..MaxCount \/ ~(scope.count < MaxCount)
          /\ scope.usages + 1 \in 0..MaxCount \/ ~(scope.count < MaxCount)
          /\ scope.count - 1 \in 0..MaxCount \/ ~(scope.usages > 1)
          /\ scope.usages - 1 \in 0..MaxCount \/ ~(scope.usages > 1)
      BY <1>0, <3>1, <3>3
    <3> QED BY <1>d, <3>1, <3>2, <3>4
  <2> QED BY <1>10, <2>1 DEF Nest, TypeOK
<1>11. CASE CloseInner \/ ReleaseInner
  <2>1. scope' \in [count : 0..MaxCount, usages : 0..MaxCount, failed : BOOLEAN]
    <3>1. scope.usages <= scope.count /\ scope.usages > 1
      BY <1>11 DEF CloseInner, ReleaseInner, IInv, Scopes, Open
    <3>2. \/ scope' = [scope EXCEPT !.count = @ - 1, !.usages = @ - 1]
          \/ scope' = [scope EXCEPT !.usages = @ - 1, !.failed = TRUE]
      BY <1>11 DEF CloseInner, ReleaseInner
    <3>3. scope.count \in 0..MaxCount /\ scope.usages \in 0..MaxCount
      BY <1>d
    <3>4. /\ scope.count + 1 \in 0..MaxCount \/ ~(scope.count < MaxCount)
          /\ scope.usages + 1 \in 0..MaxCount \/ ~(scope.count < MaxCount)
          /\ scope.count - 1 \in 0..MaxCount \/ ~(scope.usages > 1)
          /\ scope.usages - 1 \in 0..MaxCount \/ ~(scope.usages > 1)
      BY <1>0, <3>1, <3>3
    <3> QED BY <1>d, <3>1, <3>2, <3>4
  <2> QED BY <1>11, <2>1 DEF CloseInner, ReleaseInner, TypeOK
<1>12. CASE Close
  <2>1. todo' \in Seq(File \cup {Changelog})
    BY <1>12, ToWrite DEF Close, TypeOK
  <2> QED BY <1>12, <2>1 DEF Close, TypeOK, Phase
<1>13. CASE AddBackup
  <2> DEFINE e == <<Head(todo), file[Head(todo)]>>
  <2>1. e \in Saved
    <3>1. Head(todo) \in File
      <4>1. todo # <<>> /\ Head(todo) # Changelog
        BY <1>13 DEF AddBackup
      <4>2. Head(todo) \in File \cup {Changelog}
        BY <1>e, <4>1, HeadTail
      <4> QED BY <4>1, <4>2
    <3>2. file[Head(todo)] \in Version
      BY <1>a, <3>1
    <3> QED BY <3>1, <3>2 DEF Saved
  <2>2. B \in Seq(Saved) /\ B = bak["journal"] /\ B = backups
    BY <1>13, Parts DEF AddBackup, IInv, Shape, InProgress, TypeOK
  <2> HIDE DEF e
  <2>3. Append(backups, e) \in Seq(Saved)
    BY <2>1, <2>2
  <2>4. backups' = Append(backups, e) /\ bak' = [bak EXCEPT !["journal"] = Append(B, e)]
    BY <1>13, <2>2 DEF AddBackup, e
  <2>5. bak' \in [Name -> Seq(Saved) \cup {NoFile}]
    BY <2>2, <2>3, <2>4 DEF TypeOK
  <2>7. backups' \in Seq(Saved)
    BY <2>3, <2>4
  <2> QED BY <1>13, <2>5, <2>7 DEF AddBackup, TypeOK
<1>14. CASE Generate
  <2>1. todo # <<>>
    BY <1>14 DEF Generate, IInv, Progress
  <2>2. file' \in [File -> Version]
    BY <1>0, <1>14 DEF Generate, TypeOK
  <2>3. todo' \in Seq(File \cup {Changelog})
    BY <1>14, <2>1, HeadTail DEF Generate, TypeOK
  <2> QED BY <1>14, <2>2, <2>3 DEF Generate, TypeOK
<1>15. CASE Finalize
  <2>1. buf = "divert" => tmp \in Seq(Version)
    <3>1. InProgress
      BY <1>15 DEF Finalize, InProgress
    <3>2. buf = "divert" => tmp = Append(log[Changelog], tr)
      BY <3>1 DEF IInv, Progress
    <3> QED BY <1>0, <1>a, <3>2, Kinds
  <2>2. Append(log[Changelog], tr) \in Seq(Version) /\ log[Changelog] \in Seq(Version)
    BY <1>0, <1>a, Kinds
  <2>3. log' \in [Log -> Seq(Version)]
    BY <1>15, <2>1, <2>2 DEF Finalize, TypeOK
  <2>4. todo' \in Seq(File \cup {Changelog})
    BY <1>15, HeadTail DEF Finalize, TypeOK
  <2>5. tmp' \in Seq(Version) \cup {NoFile}
    BY <1>15 DEF Finalize, TypeOK
  <2> QED BY <1>15, <2>3, <2>4, <2>5 DEF Finalize, TypeOK
<1>16. CASE CleanUp
  <2>1. scope' \in [count : 0..MaxCount, usages : 0..MaxCount, failed : BOOLEAN]
    <3>1. scope' = [scope EXCEPT !.count = 0]
      BY <1>16 DEF CleanUp
    <3>2. 0 \in 0..MaxCount
      BY <1>0
    <3> QED BY <1>d, <3>1, <3>2
  <2>2. tmp' \in Seq(Version) \cup {NoFile}
    BY <1>16 DEF CleanUp, TypeOK
  <2>3. entries' \in Seq(Entry)
    <3>1. entries' = <<>>
      BY <1>16 DEF CleanUp
    <3> QED BY <3>1
  <2> QED BY <1>16, <2>1, <2>2, <2>3 DEF CleanUp, TypeOK, Phase
<1>17. CASE OpenUndo
  <2>1. bak' \in [Name -> Seq(Saved) \cup {NoFile}]
    <3>1. bak' = [bak EXCEPT !["undo"] = <<>>]
      BY <1>17 DEF OpenUndo
    <3> QED BY <1>b, <3>1, Empty
  <2>2. exact' \in BOOLEAN /\ lost' \subseteq Store
    BY <1>17 DEF OpenUndo
  <2> QED BY <1>17, <2>1, <2>2 DEF OpenUndo, TypeOK
<1>18. CASE CloseUndo
  <2>1. Lasting(backups) \in Seq(Saved)
    BY LastingIs DEF TypeOK
  <2>2. bak' \in [Name -> Seq(Saved) \cup {NoFile}]
    BY <1>18, <2>1 DEF CloseUndo, TypeOK
  <2> QED BY <1>18, <2>2 DEF CloseUndo, TypeOK, Phase
<1>19. CASE RenameJournal
  <2>1. jrn' \in [Name -> Seq(Entry) \cup {NoFile}]
    BY <1>0, <1>19 DEF RenameJournal, TypeOK
  <2>2. todo' \in Seq(File \cup {Changelog})
    BY <1>19, ToRename DEF RenameJournal
  <2>3. before' \in [log : [Log -> Seq(Version)], file : [Store -> Version]]
    <3>1. RecoveredLogs \in [Log -> Seq(Version)] /\ RecoveredFiles \in [Store -> Version]
      <4>1. Logs0 \in [Log -> Seq(Version)] /\ Files0 \in [File -> Version]
        BY ViewTypes DEF IInv
      <4> QED BY <4>1, Kinds, RecoveredAre
    <3>2. before' = [log |-> RecoveredLogs, file |-> RecoveredFiles]
      BY <1>19 DEF RenameJournal
    <3> QED BY <3>1, <3>2
  <2> QED BY <1>19, <2>1, <2>2, <2>3 DEF RenameJournal, TypeOK
<1>20. CASE RenameCopy
  <2>1. todo' \in Seq(File \cup {Changelog})
    BY <1>20, HeadTail DEF RenameCopy, TypeOK
  <2>2. copy' \in [Name -> [Copied -> Version \cup {NoFile}]]
    <3>1. copy["journal"] \in [Copied -> Version \cup {NoFile}]
      BY <1>0, <1>c
    <3> DEFINE h == Head(todo)
    <3>2. copy' = [n \in Name |-> [copy[n] EXCEPT ![h] = IF n = "undo" THEN copy["journal"][h] ELSE NoFile]]
      BY <1>20 DEF RenameCopy
    <3> HIDE DEF h
    <3>3. \A n \in Name : [copy[n] EXCEPT ![h] = IF n = "undo" THEN copy["journal"][h] ELSE NoFile]
                              \in [Copied -> Version \cup {NoFile}]
      BY <1>c, <3>1
    <3> QED BY <3>2, <3>3
  <2>3. torn' \subseteq {"store", "dirstate", "undo"} /\ exact' \in BOOLEAN
    BY <1>20 DEF RenameCopy, TypeOK
  <2> QED BY <1>20, <2>1, <2>2, <2>3 DEF RenameCopy, TypeOK
<1>21. CASE DropBackups
  <2>1. bak' \in [Name -> Seq(Saved) \cup {NoFile}]
    BY <1>21 DEF DropBackups, TypeOK
  <2> QED BY <1>21, <2>1 DEF DropBackups, TypeOK
<1>22. /\ EndScopes =>
            /\ scope' \in [count : 0..MaxCount, usages : 0..MaxCount, failed : BOOLEAN]
            /\ todo' \in Seq(File \cup {Changelog}) /\ buf' \in {"none", "delay", "divert"}
            /\ wrote' \subseteq Log /\ gens' \subseteq File
       /\ Forget =>
            /\ EndScopes /\ phase' \in Phase
            /\ step' \in {"", "journalled", "copied", "registered", "playback", "unlinked", "dropped"}
            /\ entries' \in Seq(Entry) /\ backups' \in Seq(Saved)
  <2>1. 0 \in 0..MaxCount
    BY <1>0
  <2>2. NoScope \in [count : 0..MaxCount, usages : 0..MaxCount, failed : BOOLEAN]
    BY <2>1 DEF NoScope
  <2> HIDE DEF NoScope
  <2>3. EndScopes => scope' = NoScope /\ todo' = <<>> /\ buf' = "none" /\ wrote' = {} /\ gens' = {}
    BY DEF EndScopes
  <2>4. Forget => EndScopes /\ phase' = "idle" /\ step' = "" /\ entries' = <<>> /\ backups' = <<>>
    BY DEF Forget
  <2>5. "idle" \in Phase
    BY DEF Phase
  <2> QED BY <2>2, <2>3, <2>4, <2>5, Empty
<1>23. CASE Release
  <2>1. file' \in [File -> Version]
    BY <1>23 DEF Release, TypeOK
  <2> QED BY <1>22, <1>23, <2>1 DEF Release, TypeOK
<1>24. CASE Abort \/ CloseIncomplete
  BY <1>22, <1>24 DEF Abort, CloseIncomplete, TypeOK, Phase
<1>25. CASE Recover
  <2>1. /\ J \in Seq(Entry) /\ B \in Seq(Saved) \cup {NoFile}
        /\ entries' = J /\ backups' = (IF B = NoFile THEN <<>> ELSE B)
    BY <1>25, Parts DEF Recover, ReadJournal
  <2>2. entries' \in Seq(Entry) /\ backups' \in Seq(Saved)
    BY <2>1
  <2> QED BY <1>25, <2>2 DEF Recover, ReadJournal, TypeOK, Phase
<1>26. CASE Rollback
  <2>1. /\ U \in Seq(Entry) /\ V \in Seq(Saved) \cup {NoFile}
        /\ entries' = U /\ backups' = (IF V = NoFile THEN <<>> ELSE V)
    BY <1>26, Parts DEF Rollback, ReadJournal
  <2>2. entries' \in Seq(Entry) /\ backups' \in Seq(Saved)
    BY <2>1
  <2> QED BY <1>26, <2>2 DEF Rollback, ReadJournal, TypeOK, Phase
<1>27. CASE Truncate
  <2>1. Head(entries) \in Entry /\ Tail(entries) \in Seq(Entry)
    BY <1>27, HeadTail DEF Truncate, TypeOK
  <2>2. Cut(log[Head(entries)[1]], Head(entries)[2]) \in Seq(Version)
    <3>1. Head(entries)[1] \in Log /\ Head(entries)[2] \in Nat
      BY <2>1 DEF Entry
    <3> QED BY <3>1, CutIs DEF TypeOK
  <2>3. log' \in [Log -> Seq(Version)]
    BY <1>27, <2>2 DEF Truncate, TypeOK
  <2> QED BY <1>27, <2>1, <2>3 DEF Truncate, TypeOK
<1>28. CASE Restore
  <2>1. Head(backups) \in Saved /\ Tail(backups) \in Seq(Saved)
    BY <1>28, HeadTail DEF Restore, TypeOK
  <2>2. file' \in [File -> Version]
    BY <1>28, <2>1 DEF Restore, TypeOK, Saved
  <2>3. tmp' \in Seq(Version) \cup {NoFile}
    BY <1>28 DEF Restore, TypeOK
  <2> QED BY <1>28, <2>1, <2>2, <2>3 DEF Restore, TypeOK
<1>37. CASE RestoreFails
  <2>1. Head(backups) \in Saved /\ Tail(backups) \in Seq(Saved)
    BY <1>37, HeadTail DEF RestoreFails, TypeOK
  <2>2. file' \in [File -> Version]
    BY <1>0, <1>a, <1>37 DEF RestoreFails
  <2>3. failed' \subseteq File
    BY <1>37 DEF RestoreFails, TypeOK
  <2> QED BY <1>37, <2>1, <2>2, <2>3 DEF RestoreFails, TypeOK
<1>29. CASE UnlinkBackups
  <2>1. bak' \in [Name -> Seq(Saved) \cup {NoFile}]
    BY <1>29 DEF UnlinkBackups, TypeOK
  <2>2. torn' \subseteq {"store", "dirstate", "undo"} /\ lost' \subseteq Store
    BY <1>29 DEF UnlinkBackups, Lose, TypeOK
  <2> QED BY <1>29, <2>1, <2>2 DEF UnlinkBackups, TypeOK
<1>30. CASE UnlinkJournal
  <2>1. jrn' \in [Name -> Seq(Entry) \cup {NoFile}]
    BY <1>30 DEF UnlinkJournal, TypeOK
  <2>2. todo' \in Seq(File \cup {Changelog})
    BY <1>30, ToRename DEF UnlinkJournal
  <2> QED BY <1>30, <2>1, <2>2 DEF UnlinkJournal, TypeOK
<1>31. CASE AbortFails
  BY <1>31 DEF AbortFails, TypeOK
<1>32. CASE EndAbort
  <2>1. copy["journal"][Dirstate] \in Version
    <3>1. copy["journal"][Dirstate] # NoFile
      BY <1>32 DEF EndAbort, IInv, Shape
    <3>2. copy["journal"] \in [Copied -> Version \cup {NoFile}]
      BY <1>0, <1>c
    <3> QED BY <3>1, <3>2, Kinds
  <2>2. file' \in [File -> Version] /\ parent' \in Version
    BY <1>32, <2>1 DEF EndAbort, TypeOK
  <2>3. copy' \in [Name -> [Copied -> Version \cup {NoFile}]] /\ failed' \subseteq File
    BY <1>32 DEF EndAbort, TypeOK
  <2> QED BY <1>22, <1>32, <2>2, <2>3 DEF EndAbort, TypeOK
<1>33. CASE EndRecover \/ Die
  <2>1. parent' \in Version
    BY <1>a, <1>33, Kinds DEF EndRecover, Die
  <2>2. torn' \subseteq {"store", "dirstate", "undo"} /\ failed' \subseteq File
    BY <1>33 DEF EndRecover, Die, TypeOK
  <2> QED BY <1>22, <1>33, <2>1, <2>2 DEF EndRecover, Die, TypeOK
<1>34. CASE RestoreCopy
  <2>1. todo' \in Seq(File \cup {Changelog})
    BY <1>34, HeadTail DEF RestoreCopy, TypeOK
  <2>2. file' \in [File -> Version] /\ copy' \in [Name -> [Copied -> Version \cup {NoFile}]]
    <3> DEFINE f == Head(todo)
    <3>1. copy["undo"] \in [Copied -> Version \cup {NoFile}]
      BY <1>0, <1>c
    <3>2. f \in Range(todo)
      BY <1>e, <1>34, HeadTail DEF RestoreCopy
    <3>3. f \in Copied
      BY <1>34, <3>2, Kinds DEF RestoreCopy, IInv, Shape
    <3>4. copy["undo"][f] \in Version \cup {NoFile}
      BY <3>1, <3>3
    <3>5. \/ file' = file /\ copy' = copy
          \/ /\ copy["undo"][f] # NoFile
             /\ file' = [file EXCEPT ![f] = copy["undo"][f]]
             /\ copy' = [copy EXCEPT !["undo"][f] = NoFile]
      BY <1>34 DEF RestoreCopy
    <3> HIDE DEF f
    <3>6. copy["undo"][f] # NoFile => copy["undo"][f] \in Version
      BY <3>4
    <3>7. CASE file' = file /\ copy' = copy
      BY <1>a, <1>c, <3>7
    <3>8. CASE /\ copy["undo"][f] # NoFile
               /\ file' = [file EXCEPT ![f] = copy["undo"][f]]
               /\ copy' = [copy EXCEPT !["undo"][f] = NoFile]
      <4>1. file' \in [File -> Version]
        BY <1>a, <3>6, <3>8
      <4>2. copy' \in [Name -> [Copied -> Version \cup {NoFile}]]
        BY <1>c, <3>8
      <4> QED BY <4>1, <4>2
    <3> QED BY <3>5, <3>7, <3>8
  <2>3. lost' \subseteq Store
    BY <1>34 DEF RestoreCopy, TypeOK
  <2> QED BY <1>34, <2>1, <2>2, <2>3 DEF RestoreCopy, TypeOK
<1>35. CASE EndRollback
  <2> DEFINE new == IF parent \notin Known /\ copy["undo"][Dirstate] # NoFile
                    THEN copy["undo"][Dirstate] ELSE parent
  <2>1. new \in Version
    <3>1. copy["undo"] \in [Copied -> Version \cup {NoFile}] /\ parent \in Version
      BY <1>0 DEF TypeOK
    <3>2. copy["undo"][Dirstate] \in Version \cup {NoFile}
      BY <3>1, Kinds
    <3> QED BY <3>1, <3>2
  <2>2. file' = [file EXCEPT ![Dirstate] = new] /\ parent' = new
    BY <1>35 DEF EndRollback
  <2> HIDE DEF new
  <2>3. file' \in [File -> Version] /\ parent' \in Version
    BY <2>1, <2>2 DEF TypeOK
  <2>4. copy' \in [Name -> [Copied -> Version \cup {NoFile}]]
    BY <1>35 DEF EndRollback, TypeOK
  <2>5. /\ torn' \subseteq {"store", "dirstate", "undo"} /\ exact' \in BOOLEAN
        /\ failed' \subseteq File /\ lost' \subseteq Store
    BY <1>35 DEF EndRollback, TypeOK
  <2> QED BY <1>22, <1>35, <2>3, <2>4, <2>5 DEF EndRollback, TypeOK
<1>36. CASE Update
  <2>1. parent' \in Version
    BY <1>0, <1>36, RangeType, Kinds DEF Update, Known, TypeOK
  <2>2. file' \in [File -> Version]
    BY <1>36, <2>1 DEF Update, TypeOK
  <2> QED BY <1>36, <2>1, <2>2 DEF Update, TypeOK
<1> QED BY <1>1, <1>2, <1>3, <1>4, <1>5, <1>6, <1>7, <1>8, <1>9, <1>10, <1>11, <1>12,
           <1>13, <1>14, <1>15, <1>16, <1>17, <1>18, <1>19, <1>20, <1>21, <1>23, <1>24,
           <1>25, <1>26, <1>27, <1>28, <1>29, <1>30, <1>31, <1>32, <1>33, <1>34, <1>35,
           <1>36, <1>37 DEF Next

-----------------------------------------------------------------------------
(* The invariant is preserved: what happens in memory                      *)

LEMMA BackNothing ==
    /\ \A L \in [Log -> Seq(Version)] : LogsBack(L, NoFile) = L /\ LogsBack(L, <<>>) = L
    /\ \A F \in [File -> Version] : FilesBack(F, NoFile) = F /\ FilesBack(F, <<>>) = F
BY NothingNoted DEF LogsBack, FilesBack

\* The views depend on four variables and on whether the journal counts.
LEMMA SameViews ==
    ASSUME UNCHANGED <<log, file, jrn, bak>>, Recoverable' <=> Recoverable
    PROVE  UNCHANGED <<J, U, B, V, Logs0, Logs1, Files0, Files1>>
<1>1. J' = J /\ U' = U /\ B' = B /\ V' = V
  BY DEF J, U, B, V
<1>2. Logs0' = Logs0 /\ Files0' = Files0
  BY <1>1 DEF Logs0, Files0, LogsBack, FilesBack, Noted, Value, Entries
<1>3. Logs1' = Logs1 /\ Files1' = Files1
  BY <1>1, <1>2 DEF Logs1, Files1, LogsBack, FilesBack, Noted, Value, Entries
<1> QED BY <1>1, <1>2, <1>3

\* What `hg recover' would leave in the store stays the same.
Still == Logs0' = Logs0 /\ \A f \in Store : Files0'[f] = Files0[f]

\* Nothing happens to undo.dirstate.
LEMMA CopiesSame ==
    ASSUME IInv, copy'["undo"][Dirstate] = copy["undo"][Dirstate],
           "undo" \in torn' <=> "undo" \in torn,
           Undoable' => Undoable, exact' => exact,
           phase # "after" \/ step # "copied", phase' # "after" \/ step' # "copied"
    PROVE  Copies'
BY DEF IInv, Copies, DirstateDue

LEMMA InsideNext ==
    ASSUME TypeOK, IInv,
           (\E f \in File : AddGenerator(f)) \/ SetParent \/ Nest \/ CloseInner \/ ReleaseInner
    PROVE  IInv' /\ Still
<1> USE DEF disk, history
<1>1. /\ phase = "transaction" /\ step = ""
      /\ UNCHANGED <<log, file, jrn, bak, copy, tmp, phase, step, tr, entries, backups,
                     todo, buf, wrote, before, exact, torn, failed, lost>>
  BY DEF AddGenerator, SetParent, Nest, CloseInner, ReleaseInner, Open
<1>2. UNCHANGED <<J, U, B, V, Logs0, Logs1, Files0, Files1>>
  <2>1. Recoverable' <=> Recoverable
    BY <1>1 DEF Recoverable
  <2> QED BY <1>1, <2>1, SameViews
<1>3. Shape'
  BY <1>1, <1>2 DEF IInv, Shape, Active, Playback, InProgress, Replaced
<1>4. Scopes'
  <2>1. scope \in [count : 0..MaxCount, usages : 0..MaxCount, failed : BOOLEAN] /\ MaxCount \in Nat
    BY BoundAssumption DEF TypeOK
  <2>2. \/ scope' = scope
        \/ scope' = [scope EXCEPT !.count = @ + 1, !.usages = @ + 1]
        \/ scope.usages > 1 /\ scope' = [scope EXCEPT !.count = @ - 1, !.usages = @ - 1]
        \/ scope.usages > 1 /\ scope' = [scope EXCEPT !.usages = @ - 1, !.failed = TRUE]
    BY DEF AddGenerator, SetParent, Nest, CloseInner, ReleaseInner
  <2>3. scope.usages <= scope.count /\ scope.usages > 0 /\ (scope.failed => scope.usages < scope.count)
    BY <1>1 DEF IInv, Scopes
  <2>4. scope'.usages <= scope'.count /\ scope'.usages > 0 /\ (scope'.failed => scope'.usages < scope'.count)
    <3>1. scope.count \in Nat /\ scope.usages \in Nat /\ scope.failed \in BOOLEAN
      BY <2>1
    <3>2. \/ scope' = scope
          \/ scope'.count = scope.count + 1 /\ scope'.usages = scope.usages + 1 /\ scope'.failed = scope.failed
          \/ scope.usages > 1 /\ scope'.count = scope.count - 1 /\ scope'.usages = scope.usages - 1 /\ scope'.failed = scope.failed
          \/ scope.usages > 1 /\ scope'.count = scope.count /\ scope'.usages = scope.usages - 1 /\ scope'.failed
      BY <2>1, <2>2
    <3> QED BY <2>3, <3>1, <3>2
  <2> QED BY <1>1, <2>4 DEF Scopes
<1>5. Notes' /\ Played'
  BY <1>1, <1>2 DEF IInv, Notes, Played, Playback, Recoverable
<1>6. Progress'
  BY <1>1, <1>2 DEF IInv, Progress, InProgress, Appended, Generated
<1>7. Logs' /\ Files'
  BY <1>1, <1>2 DEF IInv, Logs, Files, Replaced, InProgress, Complete
<1>8. Parent'
  <2>1. parent' = parent \/ (parent' = tr /\ Changelog \in wrote)
    BY DEF AddGenerator, SetParent, Nest, CloseInner, ReleaseInner
  <2> QED BY <1>1, <1>2, <2>1 DEF IInv, Parent, Replaced, InProgress, KnownTo
<1>30. Copies'
  BY <1>1, <1>2, CopiesSame DEF Undoable
<1>20. Still
  BY <1>2 DEF Still
<1> QED BY <1>3, <1>4, <1>5, <1>6, <1>7, <1>8, <1>20, <1>30 DEF IInv

LEMMA BeginNext == ASSUME TypeOK, IInv, Begin PROVE IInv' /\ Still
<1> USE DEF disk, history, memory
<1>1. /\ phase = "idle" /\ J = NoFile /\ phase' = "begin" /\ tr' = tr + 1
      /\ copy' = [copy EXCEPT !["journal"] = [f \in Copied |-> file[f]]]
      /\ exact' = (exact /\ torn = {})
      /\ UNCHANGED <<log, file, jrn, bak, tmp, step, entries, backups, todo, scope, parent,
                     buf, wrote, gens, before, torn, failed, lost>>
  BY DEF Begin, J
<1>2. ~Recoverable /\ ~Recoverable'
  BY <1>1 DEF Recoverable, J
<1>3. UNCHANGED <<J, U, B, V, Logs0, Logs1, Files0, Files1>>
  BY <1>1, <1>2, SameViews
<1>4. copy'["undo"] = copy["undo"] /\ \A f \in Copied : copy'["journal"][f] = Files0[f]
  <2>1. copy \in [Name -> [Copied -> Version \cup {NoFile}]]
    BY DEF TypeOK
  <2>2. copy'["undo"] = copy["undo"] /\ copy'["journal"] = [f \in Copied |-> file[f]]
    BY <1>1, <2>1 DEF Name
  <2>3. Files0 = file
    BY <1>2 DEF Files0
  <2> QED BY <2>2, <2>3
<1>11. tr' > 0
  BY <1>1, Parts
<1>5. Shape'
  BY <1>1, <1>3, <1>11 DEF IInv, Shape, Active, Playback, InProgress, Replaced
<1>6. Scopes' /\ Notes' /\ Played'
  BY <1>1, <1>2, <1>3 DEF IInv, Scopes, Notes, Played, Playback
<1>7. Progress'
  BY <1>1 DEF Progress, InProgress
<1>8. Logs'
  BY <1>1, <1>3 DEF IInv, Logs, Replaced, Complete
<1>9. Files'
  BY <1>1, <1>3, <1>4 DEF IInv, Files, Replaced, InProgress
<1>10. Parent'
  BY <1>1, <1>3, <1>4 DEF IInv, Parent, Replaced, InProgress, KnownTo
<1>30. Copies'
  BY <1>1, <1>3, <1>4, CopiesSame DEF Undoable
<1>20. Still
  BY <1>3 DEF Still
<1> QED BY <1>5, <1>6, <1>7, <1>8, <1>9, <1>10, <1>20, <1>30 DEF IInv

LEMMA OpenJournalNext == ASSUME TypeOK, IInv, OpenJournal PROVE IInv' /\ Still
<1> USE DEF history, memory
<1>1. /\ phase = "begin" /\ phase' = "opening" /\ jrn' = [jrn EXCEPT !["journal"] = <<>>]
      /\ UNCHANGED <<log, file, bak, copy, tmp, step, tr, entries, backups, todo, scope, parent,
                     buf, wrote, gens, before, exact, torn, failed, lost>>
  BY DEF OpenJournal
<1>2. J' = <<>> /\ U' = U /\ B' = B /\ V' = V
  BY <1>1 DEF J, U, B, V, TypeOK, Name
<1>3. ~Recoverable /\ ~Recoverable'
  BY <1>1 DEF Recoverable, IInv, Shape, J
<1>4. Logs0' = Logs0 /\ Files0' = Files0
  BY <1>1, <1>3 DEF Logs0, Files0
<1>5. Logs1' = Logs1 /\ Files1' = Files1
  BY <1>2, <1>4 DEF Logs1, Files1, LogsBack, FilesBack, Noted, Value, Entries
<1>6. Shape'
  BY <1>1, <1>2 DEF IInv, Shape, Active, Playback, InProgress, Replaced
<1>7. Scopes' /\ Played'
  BY <1>1 DEF Scopes, Played, Playback
<1>8. Notes'
  <2>1. Clear(<<>>)
    BY RangeType DEF Clear
  <2> QED BY <1>1, <1>2, <1>3, <1>4, <2>1 DEF IInv, Notes
<1>9. Progress'
  BY <1>1 DEF Progress, InProgress
<1>10. Logs' /\ Files'
  BY <1>1, <1>4, <1>5 DEF IInv, Logs, Files, Replaced, InProgress, Complete
<1>11. Parent'
  BY <1>1, <1>4, <1>5 DEF IInv, Parent, Replaced, InProgress, KnownTo
<1>30. Copies'
  BY <1>1, <1>2, CopiesSame DEF Undoable
<1>20. Still
  BY <1>4 DEF Still
<1> QED BY <1>6, <1>7, <1>8, <1>9, <1>10, <1>11, <1>20, <1>30 DEF IInv

LEMMA OpenBackupsNext == ASSUME TypeOK, IInv, OpenBackups PROVE IInv' /\ Still
<1> USE DEF history, memory
<1>1. /\ phase = "opening" /\ phase' = "transaction" /\ bak' = [bak EXCEPT !["journal"] = <<>>]
      /\ scope' = [count |-> 1, usages |-> 1, failed |-> FALSE]
      /\ UNCHANGED <<log, file, jrn, copy, tmp, step, tr, entries, backups, todo, parent,
                     buf, wrote, gens, before, exact, torn, failed, lost>>
  BY DEF OpenBackups
<1>2. J' = J /\ U' = U /\ B' = <<>> /\ V' = V
  BY <1>1 DEF J, U, B, V, TypeOK, Name
<1>3. /\ J = <<>> /\ J # NoFile /\ step = "" /\ buf = "none" /\ wrote = {} /\ gens = {} /\ todo = <<>>
      /\ entries = <<>> /\ backups = <<>> /\ tr > 0 /\ parent = file[Dirstate]
  <2>1. <<>> # NoFile
    BY Empty, Kinds
  <2>2. J = <<>> /\ parent = file[Dirstate] /\ entries = <<>> /\ backups = <<>> /\ tr > 0
    BY <1>1 DEF IInv, Shape
  <2>3. step = "" /\ todo = <<>> /\ buf = "none" /\ wrote = {} /\ gens = {}
    BY <1>1 DEF IInv, Shape, Active
  <2> QED BY <2>1, <2>2, <2>3
<1>4. ~Recoverable /\ Recoverable'
  BY <1>1, <1>2, <1>3 DEF Recoverable, J
<1>5. Logs0 = log /\ Files0 = file
  BY <1>4 DEF Logs0, Files0
<1>6. Logs0' = Logs0 /\ Files0' = Files0
  <2>1. Logs0' = LogsBack(log, <<>>) /\ Files0' = FilesBack(file, <<>>)
    <3>1. Logs0' = LogsBack(log', J') /\ Files0' = FilesBack(file', B')
      BY <1>4 DEF Logs0, Files0
    <3> QED BY <1>1, <1>2, <1>3, <3>1
  <2> QED BY <1>5, <2>1, BackNothing DEF TypeOK
<1>7. Logs1' = Logs1 /\ Files1' = Files1
  BY <1>2, <1>6 DEF Logs1, Files1, LogsBack, FilesBack, Noted, Value, Entries
<1>8. Shape'
  BY <1>1, <1>2, <1>3 DEF IInv, Shape, Active, Playback, InProgress, Replaced
<1>9. Scopes' /\ Played'
  BY <1>1 DEF Scopes, Played, Playback
<1>10. Notes'
  <2>1. Clear(<<>>) /\ Range(<<>>) = {}
    BY RangeType DEF Clear
  <2> QED BY <1>1, <1>2, <1>3, <1>6, <2>1 DEF IInv, Notes
<1>11. Progress'
  <2>1. Range(B') = {}
    BY <1>2, RangeType
  <2> QED BY <1>1, <1>3, <1>5, <1>6, <2>1 DEF Progress, InProgress, Appended, Generated
<1>12. Logs' /\ Files'
  BY <1>1, <1>6, <1>7 DEF IInv, Logs, Files, Replaced, InProgress, Complete
<1>13. Parent'
  <2>1. Files0[Dirstate] \in KnownTo(Logs0) \/ "dirstate" \in torn
    BY <1>1 DEF IInv, Parent
  <2> QED BY <1>1, <1>3, <1>5, <1>6, <1>7, <2>1 DEF IInv, Parent, Replaced, InProgress, KnownTo
<1>30. Copies'
  BY <1>1, <1>2, CopiesSame DEF Undoable
<1>20. Still
  BY <1>6 DEF Still
<1> QED BY <1>8, <1>9, <1>10, <1>11, <1>12, <1>13, <1>20, <1>30 DEF IInv

-----------------------------------------------------------------------------
(* The invariant is preserved: what happens inside a transaction           *)

\* In a transaction the journal is there, and clear.
LEMMA InTransaction ==
    ASSUME TypeOK, IInv, InProgress
    PROVE  /\ J \in Seq(Entry) /\ J # NoFile /\ Clear(J) /\ B \in Seq(Saved) /\ B # NoFile /\ Clear(B)
           /\ B = backups /\ Recoverable
           /\ \A e \in Range(J) : e \in Entry /\ e[2] <= Len(log[e[1]])
<1>1. J # NoFile /\ B = backups /\ phase # "opening"
  BY DEF IInv, Shape, InProgress
<1>2. Recoverable
  BY <1>1 DEF Recoverable, J
<1>3. J \in Seq(Entry) /\ B \in Seq(Saved) /\ B # NoFile
  <2>1. backups \in Seq(Saved)
    BY DEF TypeOK
  <2> QED BY <1>1, <2>1, Parts, Kinds
<1> QED BY <1>1, <1>2, <1>3, RangeType DEF IInv, Notes

\* Logs that are in the journal may grow.
LEMMA LogsGrow ==
    ASSUME TypeOK, IInv, InProgress, Recoverable', J' = J, log' \in [Log -> Seq(Version)],
           \A l \in Log : \/ log'[l] = log[l]
                          \/ Noted(J, l) /\ \E v \in Version : log'[l] = Append(log[l], v)
    PROVE  Logs0' = Logs0 /\ \A l \in Log : Len(log[l]) <= Len(log'[l])
<1>1. log \in [Log -> Seq(Version)]
  BY DEF TypeOK
<1>2. ASSUME NEW l \in Log PROVE Len(log[l]) <= Len(log'[l])
  <2>1. log[l] \in Seq(Version)
    BY <1>1
  <2>2. CASE log'[l] = log[l]
    BY <2>1, <2>2
  <2>3. CASE \E v \in Version : log'[l] = Append(log[l], v)
    BY <2>1, <2>3
  <2> QED BY <2>2, <2>3
<1>3. ASSUME NEW l \in Log, Noted(J, l) PROVE Cut(log'[l], Value(J, l)) = Cut(log[l], Value(J, l))
  <2>1. PICK e \in Range(J) : e[1] = l /\ Value(J, l) = e[2]
    BY <1>3, InTransaction, NotedBy
  <2>2. e[2] \in Nat /\ e[2] <= Len(log[l])
    BY <2>1, InTransaction DEF Entry
  <2>3. log[l] \in Seq(Version)
    BY <1>1
  <2>4. \/ log'[l] = log[l]
        \/ \E v \in Version : log'[l] = Append(log[l], v)
    OBVIOUS
  <2>5. \A v \in Version : Cut(Append(log[l], v), e[2]) = Cut(log[l], e[2])
    BY <2>2, <2>3, CutIs
  <2> QED BY <2>1, <2>4, <2>5
<1>4. \A l \in Log : ~Noted(J, l) => log'[l] = log[l]
  OBVIOUS
<1>5. Logs0 = LogsBack(log, J) /\ Logs0' = LogsBack(log', J)
  BY InTransaction DEF Logs0
<1>6. LogsBack(log', J) = LogsBack(log, J)
  BY <1>3, <1>4 DEF LogsBack
<1> QED BY <1>2, <1>5, <1>6

\* The views after the current ones stay the same if the current ones do.
LEMMA SameLater ==
    ASSUME UNCHANGED <<U, V, Logs0, Files0>>
    PROVE  UNCHANGED <<Logs1, Files1>>
BY DEF Logs1, Files1

LEMMA AddNext == ASSUME TypeOK, IInv, NEW l \in Log, Add(l) PROVE IInv' /\ Still
<1> USE DEF history
<1> DEFINE e == <<l, Len(log[l])>>
<1>1. /\ phase = "transaction" /\ step = "" /\ step' = "journalled"
      /\ entries' = Append(entries, e) /\ jrn' = [jrn EXCEPT !["journal"] = Append(J, e)]
      /\ UNCHANGED <<log, file, bak, copy, tmp, phase, tr, scope, backups, todo, buf, wrote,
                     gens, parent, before, exact, torn, failed, lost>>
  BY DEF Add, Open, J
<1>2. e \in Entry /\ e[1] = l /\ e[2] = Len(log[l]) /\ log \in [Log -> Seq(Version)]
  <2>1. log \in [Log -> Seq(Version)]
    BY DEF TypeOK
  <2>2. Len(log[l]) \in Nat
    BY <2>1
  <2> QED BY <2>1, <2>2 DEF Entry
<1> HIDE DEF e
<1>3. InProgress /\ InProgress'
  BY <1>1 DEF InProgress
<1>4. J = entries /\ J \in Seq(Entry) /\ Clear(J) /\ B # NoFile /\ Recoverable
  BY <1>1, <1>3, InTransaction DEF IInv, Shape
<1>5. ~Noted(J, l)
  BY <1>4, Kinds DEF Add, Journalled, Noted, Range
<1>6. /\ J' = Append(J, e) /\ U' = U /\ B' = B /\ V' = V
  BY <1>1 DEF J, U, B, V, TypeOK, Name
<1>7. /\ J' \in Seq(Entry) /\ Range(J') = Range(J) \cup {e} /\ J' # NoFile /\ Clear(J')
      /\ Noted(J', l) /\ Value(J', l) = Len(log[l])
      /\ \A x : x # l => (Noted(J', x) <=> Noted(J, x)) /\ Value(J', x) = Value(J, x)
  BY <1>2, <1>4, <1>5, <1>6, Kinds, NotedAppend
<1>8. Recoverable'
  BY <1>1, <1>7 DEF Recoverable, J
<1>9. Logs0' = Logs0
  <2>1. Logs0 = LogsBack(log, J) /\ Logs0' = LogsBack(log, J')
    BY <1>1, <1>4, <1>8 DEF Logs0
  <2>2. Cut(log[l], Len(log[l])) = log[l]
    <3>1. log[l] \in Seq(Version) /\ Len(log[l]) \in Nat
      BY <1>2
    <3> QED BY <3>1, CutIs
  <2>3. ASSUME NEW k \in Log PROVE LogsBack(log, J')[k] = LogsBack(log, J)[k]
    <3>1. CASE k = l
      BY <1>5, <1>7, <2>2, <3>1 DEF LogsBack
    <3>2. CASE k # l
      BY <1>7, <3>2 DEF LogsBack
    <3> QED BY <3>1, <3>2
  <2> QED BY <2>1, <2>3 DEF LogsBack
<1>10. Files0' = Files0
  BY <1>1, <1>4, <1>6, <1>8 DEF Files0
<1>11. Logs1' = Logs1 /\ Files1' = Files1
  BY <1>6, <1>9, <1>10, SameLater
<1>12. Shape'
  BY <1>1, <1>4, <1>6, <1>7 DEF IInv, Shape, Active, Playback, InProgress, Replaced
<1>13. Scopes'
  BY <1>1 DEF IInv, Scopes
<1>14. Notes'
  <2>1. \A f \in Range(J') : f[2] <= Len(log'[f[1]])
    <3>0. log[l] \in Seq(Version)
      BY <1>2
    <3>1. log' = log /\ Len(log[l]) \in Nat
      <4>1. log' = log
        BY <1>1
      <4>2. Len(log[l]) \in Nat
        BY <3>0
      <4> QED BY <4>1, <4>2
    <3>2. \A f \in Range(J) : f[2] <= Len(log[f[1]])
      BY <1>3, InTransaction
    <3>3. e[2] <= Len(log[e[1]])
      BY <1>2, <3>1
    <3> QED BY <1>7, <3>1, <3>2, <3>3
  <2> QED BY <1>1, <1>4, <1>6, <1>7, <1>8, <1>9, <2>1 DEF IInv, Notes
<1>15. Played'
  BY <1>1 DEF Played, Playback
<1>16. Progress'
  <2>1. \A k : Noted(J, k) => Noted(J', k)
    BY <1>7
  <2> QED BY <1>1, <1>3, <1>6, <1>9, <1>10, <2>1 DEF IInv, Progress, Appended, Generated, New
<1>17. Logs' /\ Files'
  BY <1>1, <1>3, <1>9, <1>10, <1>11 DEF IInv, Logs, Files, Replaced, Complete
<1>18. Parent'
  BY <1>1, <1>3, <1>9, <1>10, <1>11 DEF IInv, Parent, Replaced, KnownTo
<1>30. Copies'
  BY <1>1, <1>6, CopiesSame DEF Undoable
<1>20. Still
  BY <1>9, <1>10 DEF Still
<1> QED BY <1>12, <1>13, <1>14, <1>15, <1>16, <1>17, <1>18, <1>20, <1>30 DEF IInv

LEMMA WriteDataNext == ASSUME TypeOK, IInv, NEW l \in Log, WriteData(l) PROVE IInv' /\ Still
<1> USE DEF history
<1>1. /\ step = "journalled" /\ step' = "" /\ l \in Data /\ l \notin wrote /\ Journalled(l)
      /\ log' = [log EXCEPT ![l] = Append(log[l], tr)] /\ wrote' = wrote \cup {l}
      /\ UNCHANGED <<file, jrn, bak, copy, tmp, phase, tr, scope, entries, backups, todo, buf,
                     gens, parent, before, exact, torn, failed, lost>>
  BY DEF WriteData
<1>2. phase = "transaction"
  BY <1>1 DEF IInv, Shape, Playback, TypeOK, Phase
<1>3. InProgress /\ InProgress'
  BY <1>1, <1>2 DEF InProgress
<1>4. J = entries /\ Recoverable /\ Recoverable' /\ J' = J /\ U' = U /\ B' = B /\ V' = V
  BY <1>1, <1>2, <1>3, InTransaction DEF IInv, Shape, Recoverable, J, U, B, V
<1>5. Noted(J, l)
  BY <1>1, <1>3, <1>4, InTransaction DEF Journalled, Noted, Range
<1>6. log \in [Log -> Seq(Version)] /\ log' \in [Log -> Seq(Version)] /\ tr \in Version
  <2>1. log \in [Log -> Seq(Version)] /\ tr \in Version
    BY DEF TypeOK
  <2>2. Append(log[l], tr) \in Seq(Version)
    BY <2>1
  <2> QED BY <1>1, <2>1, <2>2
<1>7. log'[l] = Append(log[l], tr) /\ \A k \in Log : k # l => log'[k] = log[k]
  BY <1>1, <1>6
<1>8. Logs0' = Logs0 /\ \A k \in Log : Len(log[k]) <= Len(log'[k])
  <2>1. \A k \in Log : \/ log'[k] = log[k]
                       \/ Noted(J, k) /\ \E v \in Version : log'[k] = Append(log[k], v)
    BY <1>5, <1>6, <1>7
  <2> QED BY <1>3, <1>4, <1>6, <2>1, LogsGrow
<1>9. Files0' = Files0
  BY <1>1, <1>4 DEF Files0
<1>10. Logs1' = Logs1 /\ Files1' = Files1
  BY <1>4, <1>8, <1>9, SameLater
<1>11. Shape'
  BY <1>1, <1>2, <1>4 DEF IInv, Shape, Active, Playback, InProgress, Replaced
<1>12. Scopes'
  BY <1>1 DEF IInv, Scopes
<1>13. Notes'
  <2>1. \A f \in Range(J') : f[2] <= Len(log'[f[1]])
    <3> SUFFICES ASSUME NEW f \in Range(J) PROVE f[2] <= Len(log'[f[1]])
      BY <1>4
    <3>1. f[1] \in Log /\ f[2] \in Nat /\ f[2] <= Len(log[f[1]])
      BY <1>3, InTransaction DEF Entry
    <3>2. Len(log[f[1]]) \in Nat /\ Len(log'[f[1]]) \in Nat /\ Len(log[f[1]]) <= Len(log'[f[1]])
      BY <1>6, <1>8, <3>1
    <3> QED BY <3>1, <3>2
  <2> QED BY <1>4, <1>8, <2>1 DEF IInv, Notes
<1>14. Played'
  BY <1>1, <1>2 DEF Played, Playback
<1>15. Progress'
  <2>1. \A k \in Log : log'[k] = IF Appended(k)' THEN Append(Logs0[k], tr) ELSE Logs0[k]
    BY <1>1, <1>3, <1>7, Kinds DEF IInv, Progress, Appended
  <2> QED BY <1>1, <1>2, <1>3, <1>4, <1>5, <1>7, <1>8, <1>9, <2>1, Kinds DEF IInv, Progress, Generated, New
<1>16. Logs' /\ Files'
  BY <1>1, <1>2, <1>3, <1>8, <1>9, <1>10 DEF IInv, Logs, Files, Replaced, Complete
<1>17. Parent'
  BY <1>1, <1>2, <1>3, <1>8, <1>9, <1>10 DEF IInv, Parent, Replaced, KnownTo
<1>30. Copies'
  BY <1>1, <1>4, CopiesSame DEF Undoable
<1>20. Still
  BY <1>8, <1>9 DEF Still
<1> QED BY <1>11, <1>12, <1>13, <1>14, <1>15, <1>16, <1>17, <1>20, <1>30 DEF IInv

LEMMA WriteChangesetNext == ASSUME TypeOK, IInv, WriteChangeset PROVE IInv' /\ Still
<1> USE DEF history
<1>1. /\ step = "journalled" /\ step' = "" /\ Changelog \notin wrote /\ Journalled(Changelog)
      /\ wrote' = wrote \cup {Changelog}
      /\ \/ log[Changelog] = <<>> /\ buf' = "divert" /\ tmp' = <<tr>>
         \/ buf' = "delay"
      /\ UNCHANGED <<log, file, jrn, bak, copy, phase, tr, scope, entries, backups, todo,
                     gens, parent, before, exact, torn, failed, lost>>
  BY DEF WriteChangeset
<1>2. phase = "transaction"
  BY <1>1 DEF IInv, Shape, Playback, TypeOK, Phase
<1>3. InProgress /\ InProgress'
  BY <1>1, <1>2 DEF InProgress
<1>4. J = entries /\ Recoverable /\ Recoverable'
  BY <1>1, <1>2, <1>3, InTransaction DEF IInv, Shape, Recoverable
<1>5. UNCHANGED <<J, U, B, V, Logs0, Logs1, Files0, Files1>>
  BY <1>1, <1>4, SameViews
<1>6. Noted(J, Changelog)
  BY <1>1, <1>3, <1>4, InTransaction DEF Journalled, Noted, Range
<1>7. Shape'
  BY <1>1, <1>2, <1>5 DEF IInv, Shape, Active, Playback, InProgress, Replaced
<1>8. Scopes' /\ Notes' /\ Played'
  BY <1>1, <1>2, <1>4, <1>5 DEF IInv, Scopes, Notes, Played, Playback
<1>9. Progress'
  <2>1. buf = "none"
    BY <1>1, <1>3 DEF IInv, Progress
  <2>2. \A k \in Log : Appended(k)' <=> Appended(k)
    BY <1>1, <2>1 DEF Appended
  <2>3. buf' = "divert" => tmp' = Append(log[Changelog], tr)
    <3>1. <<tr>> = Append(<<>>, tr)
      OBVIOUS
    <3> QED BY <1>1, <3>1
  <2> QED BY <1>1, <1>2, <1>3, <1>5, <1>6, <2>1, <2>2, <2>3 DEF IInv, Progress, Generated, New
<1>10. Logs' /\ Files'
  BY <1>1, <1>2, <1>3, <1>5 DEF IInv, Logs, Files, Replaced, Complete
<1>11. Parent'
  BY <1>1, <1>2, <1>3, <1>5 DEF IInv, Parent, Replaced, KnownTo
<1>30. Copies'
  BY <1>1, <1>5, CopiesSame DEF Undoable
<1>20. Still
  BY <1>5 DEF Still
<1> QED BY <1>7, <1>8, <1>9, <1>10, <1>11, <1>20, <1>30 DEF IInv

\* One more backup of something that has none yet.
LEMMA MoreBackups ==
    ASSUME TypeOK, IInv, InProgress, Recoverable', NEW e \in Saved, ~Noted(B, e[1]),
           bak' = [bak EXCEPT !["journal"] = Append(B, e)], file' = file,
           e[1] \in File => file[e[1]] = e[2]
    PROVE  /\ B' = Append(B, e) /\ V' = V /\ B' # NoFile /\ Clear(B') /\ Range(B') = Range(B) \cup {e}
           /\ \A x : Noted(B', x) <=> (Noted(B, x) \/ x = e[1])
           /\ Files0' = Files0
<1>1. B' = Append(B, e) /\ V' = V
  BY DEF B, V, TypeOK, Name
<1>2. /\ B' # NoFile /\ Clear(B') /\ Range(B') = Range(B) \cup {e}
      /\ Noted(B', e[1]) /\ Value(B', e[1]) = e[2]
      /\ \A x : x # e[1] => (Noted(B', x) <=> Noted(B, x)) /\ Value(B', x) = Value(B, x)
  BY <1>1, InTransaction, Kinds, NotedAppend
<1>3. Files0 = FilesBack(file, B) /\ Files0' = FilesBack(file, B')
  BY InTransaction DEF Files0
<1>4. ASSUME NEW f \in File PROVE FilesBack(file, B')[f] = FilesBack(file, B)[f]
  <2>1. CASE f = e[1]
    BY <1>2, <2>1 DEF FilesBack
  <2>2. CASE f # e[1]
    BY <1>2, <2>2 DEF FilesBack
  <2> QED BY <2>1, <2>2
<1>5. FilesBack(file, B') = FilesBack(file, B)
  BY <1>4 DEF FilesBack
<1> QED BY <1>1, <1>2, <1>3, <1>5

LEMMA WritePendingNext == ASSUME TypeOK, IInv, WritePending PROVE IInv' /\ Still
<1> USE DEF history
<1> DEFINE e == <<Tmp, 0>>
<1>1. /\ phase = "transaction" /\ step = "" /\ buf = "delay" /\ buf' = "divert"
      /\ tmp' = Append(log[Changelog], tr) /\ backups' = Append(backups, e)
      /\ bak' = [bak EXCEPT !["journal"] = Append(B, e)]
      /\ UNCHANGED <<log, file, jrn, copy, phase, step, tr, scope, entries, todo, wrote,
                     gens, parent, before, exact, torn, failed, lost>>
  BY DEF WritePending, Open, B
<1>2. e \in Saved /\ e[1] = Tmp
  BY Parts DEF Saved
<1> HIDE DEF e
<1>3. InProgress /\ InProgress' /\ Recoverable /\ Recoverable'
  BY <1>1, InTransaction DEF InProgress, Recoverable
<1>4. ~Noted(B, e[1])
  BY <1>1, <1>2 DEF IInv, Progress, Noted
<1>5. /\ B' = Append(B, e) /\ V' = V /\ B' # NoFile /\ Clear(B') /\ Range(B') = Range(B) \cup {e}
      /\ Files0' = Files0
  BY <1>1, <1>2, <1>3, <1>4, Kinds, MoreBackups
<1>6. J' = J /\ U' = U /\ Logs0' = Logs0
  <2>1. J' = J /\ U' = U
    BY <1>1 DEF J, U
  <2> QED BY <1>1, <1>3, <2>1 DEF Logs0
<1>7. Logs1' = Logs1 /\ Files1' = Files1
  BY <1>5, <1>6, SameLater
<1>8. Shape'
  BY <1>1, <1>3, <1>5, <1>6, InTransaction DEF IInv, Shape, Active, Playback, InProgress, Replaced
<1>9. Scopes' /\ Notes' /\ Played'
  BY <1>1, <1>3, <1>5, <1>6 DEF IInv, Scopes, Notes, Played, Playback
<1>10. Progress'
  <2>1. \A k \in Log : Appended(k)' <=> Appended(k)
    BY <1>1 DEF Appended
  <2> QED BY <1>1, <1>2, <1>3, <1>5, <1>6, <2>1 DEF IInv, Progress, Generated, New
<1>11. Logs' /\ Files'
  BY <1>1, <1>3, <1>5, <1>6, <1>7 DEF IInv, Logs, Files, Replaced, Complete
<1>12. Parent'
  BY <1>1, <1>3, <1>5, <1>6, <1>7 DEF IInv, Parent, Replaced, KnownTo
<1>30. Copies'
  BY <1>1, <1>6, CopiesSame DEF Undoable
<1>20. Still
  BY <1>5, <1>6 DEF Still
<1> QED BY <1>8, <1>9, <1>10, <1>11, <1>12, <1>20, <1>30 DEF IInv

-----------------------------------------------------------------------------
(* The invariant is preserved: closing a transaction                       *)

LEMMA CloseNext == ASSUME TypeOK, IInv, Close PROVE IInv' /\ Still
<1> USE DEF disk, history
<1>1. /\ phase = "transaction" /\ step = "" /\ scope.usages = 1 /\ scope.count = 1
      /\ Changelog \in wrote => Data \subseteq wrote
      /\ phase' = "close"
      /\ UNCHANGED <<log, file, jrn, bak, copy, tmp, step, tr, scope, entries, backups, buf,
                     wrote, gens, parent, before, exact, torn, failed, lost>>
  BY DEF Close, Open
<1>2. InProgress /\ InProgress' /\ Recoverable /\ Recoverable'
  BY <1>1, InTransaction DEF InProgress, Recoverable
<1>3. UNCHANGED <<J, U, B, V, Logs0, Logs1, Files0, Files1>>
  BY <1>1, <1>2, SameViews
<1>4. Range(todo') = gens \cup {Changelog} /\ IsInjective(todo')
  <2>1. gens \in SUBSET File
    BY DEF TypeOK
  <2> QED BY <2>1, ToWrite DEF Close
<1>5. Shape'
  BY <1>1, <1>2, <1>3 DEF IInv, Shape, Active, Playback, InProgress, Replaced
<1>6. Scopes'
  <2>1. ~(scope.usages < scope.count)
    <3>1. scope.usages = 1 /\ scope.count = 1
      BY <1>1
    <3> QED BY <3>1
  <2>2. ~scope.failed
    BY <1>1, <2>1 DEF IInv, Scopes
  <2> QED BY <1>1, <2>2 DEF Scopes
<1>7. Notes' /\ Played'
  BY <1>1, <1>2, <1>3 DEF IInv, Notes, Played, Playback
<1>8. Progress'
  <2>1. \A k \in Log : Appended(k)' <=> Appended(k)
    BY <1>1 DEF Appended
  <2>2. \A f \in File : ~Generated(f) /\ ~Generated(f)'
    BY <1>1, <1>4 DEF Generated
  <2>3. \A e \in Range(B) : e[1] \notin Range(todo')
    <3>1. \A e \in Range(B) : e[1] = Tmp
      BY <1>1 DEF IInv, Progress
    <3>2. Tmp \notin gens \cup {Changelog}
      BY Kinds DEF TypeOK
    <3> QED BY <1>4, <3>1, <3>2
  <2> QED BY <1>1, <1>2, <1>3, <1>4, <2>1, <2>2, <2>3 DEF IInv, Progress
<1>9. Logs' /\ Files'
  BY <1>1, <1>2, <1>3 DEF IInv, Logs, Files, Replaced, Complete
<1>10. Parent'
  BY <1>1, <1>2, <1>3 DEF IInv, Parent, Replaced, KnownTo
<1>30. Copies'
  BY <1>1, <1>3, CopiesSame DEF Undoable
<1>20. Still
  BY <1>3 DEF Still
<1> QED BY <1>5, <1>6, <1>7, <1>8, <1>9, <1>10, <1>20, <1>30 DEF IInv

LEMMA AddBackupNext == ASSUME TypeOK, IInv, AddBackup PROVE IInv' /\ Still
<1> USE DEF history
<1> DEFINE e == <<Head(todo), file[Head(todo)]>>
<1>1. /\ phase = "close" /\ step = "" /\ step' = "registered" /\ todo # <<>> /\ Head(todo) # Changelog
      /\ backups' = Append(backups, e) /\ bak' = [bak EXCEPT !["journal"] = Append(B, e)]
      /\ UNCHANGED <<log, file, jrn, copy, tmp, phase, tr, scope, entries, todo, buf, wrote,
                     gens, parent, before, exact, torn, failed, lost>>
  BY DEF AddBackup, B
<1>2. Head(todo) \in File /\ Head(todo) \in Range(todo) /\ Head(todo) \in gens
  <2>1. todo \in Seq(File \cup {Changelog})
    BY DEF TypeOK
  <2>2. Head(todo) \in File \cup {Changelog} /\ Head(todo) \in Range(todo)
    BY <1>1, <2>1, HeadTail
  <2> QED BY <1>1, <2>2 DEF IInv, Progress
<1>3. e \in Saved /\ e[1] = Head(todo) /\ e[2] = file[Head(todo)]
  <2>1. file[Head(todo)] \in Version
    BY <1>2 DEF TypeOK
  <2> QED BY <1>2, <2>1 DEF Saved
<1> HIDE DEF e
<1>4. InProgress /\ InProgress' /\ Recoverable /\ Recoverable'
  BY <1>1, InTransaction DEF InProgress, Recoverable
<1>5. ~Noted(B, e[1])
  <2>1. \A b \in Range(B) : b[1] \notin Range(todo)
    BY <1>1 DEF IInv, Progress
  <2> QED BY <1>2, <1>3, <2>1 DEF Noted
<1>6. /\ B' = Append(B, e) /\ V' = V /\ B' # NoFile /\ Clear(B') /\ Range(B') = Range(B) \cup {e}
      /\ \A x : Noted(B', x) <=> (Noted(B, x) \/ x = e[1])
      /\ Files0' = Files0
  BY <1>1, <1>3, <1>4, <1>5, MoreBackups
<1>7. J' = J /\ U' = U /\ Logs0' = Logs0
  <2>1. J' = J /\ U' = U
    BY <1>1 DEF J, U
  <2> QED BY <1>1, <1>4, <2>1 DEF Logs0
<1>8. Logs1' = Logs1 /\ Files1' = Files1
  BY <1>6, <1>7, SameLater
<1>9. Shape'
  BY <1>1, <1>4, <1>6, <1>7, InTransaction DEF IInv, Shape, Active, Playback, InProgress, Replaced
<1>10. Scopes' /\ Notes' /\ Played'
  BY <1>1, <1>4, <1>6, <1>7 DEF IInv, Scopes, Notes, Played, Playback
<1>11. Progress'
  <2>1. /\ \A k \in Log : Appended(k)' <=> Appended(k)
        /\ \A f \in File : Generated(f)' <=> Generated(f)
    BY <1>1 DEF Appended, Generated
  <2> QED BY <1>1, <1>3, <1>4, <1>6, <1>7, <2>1 DEF IInv, Progress, New
<1>12. Logs' /\ Files'
  BY <1>1, <1>4, <1>6, <1>7, <1>8 DEF IInv, Logs, Files, Replaced, Complete
<1>13. Parent'
  BY <1>1, <1>4, <1>6, <1>7, <1>8 DEF IInv, Parent, Replaced, KnownTo
<1>30. Copies'
  BY <1>1, <1>7, CopiesSame DEF Undoable
<1>20. Still
  BY <1>6, <1>7 DEF Still
<1> QED BY <1>9, <1>10, <1>11, <1>12, <1>13, <1>20, <1>30 DEF IInv

LEMMA GenerateNext == ASSUME TypeOK, IInv, Generate PROVE IInv' /\ Still
<1> USE DEF history
<1> DEFINE h == Head(todo)
<1>1. /\ phase = "close" /\ step = "registered" /\ step' = "" /\ todo' = Tail(todo)
      /\ file' = [file EXCEPT ![h] = New(h)]
      /\ UNCHANGED <<log, jrn, bak, copy, tmp, phase, tr, scope, entries, backups, buf, wrote,
                     gens, parent, before, exact, torn, failed, lost>>
  BY DEF Generate, New
<1>2. todo # <<>> /\ h # Changelog /\ Noted(B, h) /\ IsInjective(todo) /\ Range(todo) \subseteq gens \cup {Changelog}
  BY <1>1 DEF IInv, Progress
<1>3. /\ todo \in Seq(File \cup {Changelog}) /\ h \in File /\ h \in gens
      /\ Range(todo) = {h} \cup Range(todo') /\ h \notin Range(todo') /\ IsInjective(todo')
  <2>1. todo \in Seq(File \cup {Changelog})
    BY DEF TypeOK
  <2>2. /\ h \in File \cup {Changelog} /\ h \in Range(todo) /\ Range(todo) = {h} \cup Range(todo')
        /\ h \notin Range(todo') /\ IsInjective(todo')
    BY <1>1, <1>2, <2>1, HeadTail
  <2> QED BY <1>2, <2>1, <2>2
<1> HIDE DEF h
<1>4. InProgress /\ InProgress' /\ Recoverable /\ Recoverable'
  BY <1>1, InTransaction DEF InProgress, Recoverable
<1>5. file'[h] = New(h) /\ \A f \in File : f # h => file'[f] = file[f]
  BY <1>1, <1>3 DEF TypeOK
<1>6. J' = J /\ U' = U /\ B' = B /\ V' = V /\ Logs0' = Logs0
  <2>1. J' = J /\ U' = U /\ B' = B /\ V' = V
    BY <1>1 DEF J, U, B, V
  <2> QED BY <1>1, <1>4, <2>1 DEF Logs0
<1>7. Files0' = Files0
  <2>1. Files0 = FilesBack(file, B) /\ Files0' = FilesBack(file', B)
    BY <1>4, <1>6 DEF Files0
  <2> QED BY <1>2, <1>5, <2>1 DEF FilesBack
<1>8. Logs1' = Logs1 /\ Files1' = Files1
  BY <1>6, <1>7, SameLater
<1>9. Shape'
  BY <1>1, <1>4, <1>6 DEF IInv, Shape, Active, Playback, InProgress, Replaced
<1>10. Scopes' /\ Notes' /\ Played'
  BY <1>1, <1>4, <1>6 DEF IInv, Scopes, Notes, Played, Playback
<1>11. Progress'
  <2>1. \A k \in Log : Appended(k)' <=> Appended(k)
    BY <1>1 DEF Appended
  <2>2. \A f \in File : Generated(f)' <=> (Generated(f) \/ f = h)
    BY <1>1, <1>3 DEF Generated
  <2>3. \A f \in File : file'[f] = IF Generated(f)' THEN New(f) ELSE Files0[f]
    BY <1>4, <1>5, <2>2 DEF IInv, Progress
  <2>4. \A e \in Range(B) : e[1] \notin Range(todo')
    <3>1. \A e \in Range(B) : e[1] \in Range(todo) => e[1] = h
      BY <1>1 DEF IInv, Progress, h
    <3> QED BY <1>3, <3>1
  <2>5. \A f \in File : New(f)' = New(f)
    BY <1>1 DEF New
  <2>6. buf # "none" => Changelog \in Range(todo')
    BY <1>1, <1>2, <1>3 DEF IInv, Progress
  <2> QED BY <1>1, <1>2, <1>3, <1>4, <1>6, <1>7, <2>1, <2>2, <2>3, <2>4, <2>5, <2>6 DEF IInv, Progress
<1>12. Logs' /\ Files'
  BY <1>1, <1>4, <1>6, <1>7, <1>8 DEF IInv, Logs, Files, Replaced, Complete
<1>13. Parent'
  BY <1>1, <1>4, <1>6, <1>7, <1>8 DEF IInv, Parent, Replaced, KnownTo
<1>30. Copies'
  BY <1>1, <1>6, CopiesSame DEF Undoable
<1>20. Still
  BY <1>6, <1>7 DEF Still
<1> QED BY <1>9, <1>10, <1>11, <1>12, <1>13, <1>20, <1>30 DEF IInv

LEMMA FinalizeNext == ASSUME TypeOK, IInv, Finalize PROVE IInv' /\ Still
<1> USE DEF history
<1>1. /\ phase = "close" /\ step = "" /\ todo # <<>> /\ Head(todo) = Changelog
      /\ log' = [log EXCEPT ![Changelog] = CASE buf = "none" -> log[Changelog]
                                             [] buf = "delay" -> Append(log[Changelog], tr)
                                             [] buf = "divert" -> tmp]
      /\ buf' = "none" /\ todo' = Tail(todo)
      /\ UNCHANGED <<file, jrn, bak, copy, phase, step, tr, scope, entries, backups, wrote,
                     gens, parent, before, exact, torn, failed, lost>>
  BY DEF Finalize
<1>2. InProgress /\ InProgress' /\ Recoverable /\ Recoverable'
  BY <1>1, InTransaction DEF InProgress, Recoverable
<1>3. log \in [Log -> Seq(Version)] /\ tr \in Version /\ buf \in {"none", "delay", "divert"}
  BY DEF TypeOK
<1>4. /\ log' \in [Log -> Seq(Version)] /\ \A k \in Log : k # Changelog => log'[k] = log[k]
      /\ log'[Changelog] = IF buf = "none" THEN log[Changelog] ELSE Append(log[Changelog], tr)
  <2> DEFINE new == CASE buf = "none" -> log[Changelog]
                      [] buf = "delay" -> Append(log[Changelog], tr)
                      [] buf = "divert" -> tmp
  <2>1. buf = "divert" => tmp = Append(log[Changelog], tr)
    BY <1>2 DEF IInv, Progress
  <2>2. new = IF buf = "none" THEN log[Changelog] ELSE Append(log[Changelog], tr)
    <3>1. CASE buf = "none"
      BY <3>1
    <3>2. CASE buf = "delay"
      BY <3>2
    <3>3. CASE buf = "divert"
      BY <2>1, <3>3
    <3> QED BY <1>3, <3>1, <3>2, <3>3
  <2>3. log[Changelog] \in Seq(Version) /\ Append(log[Changelog], tr) \in Seq(Version)
    BY <1>3, Kinds
  <2>4. log' = [log EXCEPT ![Changelog] = new]
    BY <1>1
  <2> HIDE DEF new
  <2> QED BY <1>3, <2>2, <2>3, <2>4, Kinds
<1>5. J' = J /\ U' = U /\ B' = B /\ V' = V
  BY <1>1 DEF J, U, B, V
<1>6. Logs0' = Logs0 /\ \A k \in Log : Len(log[k]) <= Len(log'[k])
  <2>1. buf # "none" => Noted(J, Changelog)
    BY <1>2 DEF IInv, Progress
  <2>2. \A k \in Log : \/ log'[k] = log[k]
                       \/ Noted(J, k) /\ \E v \in Version : log'[k] = Append(log[k], v)
    BY <1>3, <1>4, <2>1
  <2> QED BY <1>2, <1>4, <1>5, <2>2, LogsGrow
<1>7. Files0' = Files0
  BY <1>1, <1>2, <1>5 DEF Files0
<1>8. Logs1' = Logs1 /\ Files1' = Files1
  BY <1>5, <1>6, <1>7, SameLater
<1>9. Shape'
  BY <1>1, <1>2, <1>5 DEF IInv, Shape, Active, Playback, InProgress, Replaced
<1>10. Scopes' /\ Played'
  BY <1>1 DEF IInv, Scopes, Played, Playback
<1>11. Notes'
  <2>1. \A f \in Range(J') : f[2] <= Len(log'[f[1]])
    <3> SUFFICES ASSUME NEW f \in Range(J) PROVE f[2] <= Len(log'[f[1]])
      BY <1>5
    <3>1. f[1] \in Log /\ f[2] \in Nat /\ f[2] <= Len(log[f[1]])
      BY <1>2, InTransaction DEF Entry
    <3>2. Len(log[f[1]]) \in Nat /\ Len(log'[f[1]]) \in Nat /\ Len(log[f[1]]) <= Len(log'[f[1]])
      BY <1>3, <1>4, <1>6, <3>1
    <3> QED BY <3>1, <3>2
  <2> QED BY <1>2, <1>5, <1>6, <2>1 DEF IInv, Notes
<1>12. Progress'
  <2>1. /\ IsInjective(todo) /\ Range(todo) = {Changelog} \cup Range(todo') /\ IsInjective(todo')
        /\ Changelog \notin Range(todo')
    <3>1. todo \in Seq(File \cup {Changelog})
      BY DEF TypeOK
    <3>2. IsInjective(todo)
      BY <1>1 DEF IInv, Progress
    <3> QED BY <1>1, <3>1, <3>2, HeadTail
  <2>2. \A f \in File : Generated(f)' <=> Generated(f)
    BY <1>1, <2>1, Kinds DEF Generated
  <2>3. \A k \in Log : log'[k] = IF Appended(k)' THEN Append(Logs0[k], tr) ELSE Logs0[k]
    <3>1. \A k \in Log : log[k] = IF Appended(k) THEN Append(Logs0[k], tr) ELSE Logs0[k]
      BY <1>2 DEF IInv, Progress
    <3>2. buf # "none" => Changelog \in wrote
      BY <1>2 DEF IInv, Progress
    <3> QED BY <1>1, <1>4, <3>1, <3>2 DEF Appended
  <2>4. \A e \in Range(B) : e[1] \notin Range(todo')
    BY <1>1, <2>1 DEF IInv, Progress
  <2>5. \A f \in File : New(f)' = New(f)
    BY <1>1 DEF New
  <2> QED BY <1>1, <1>2, <1>5, <1>6, <1>7, <2>1, <2>2, <2>3, <2>4, <2>5 DEF IInv, Progress
<1>13. Logs' /\ Files'
  BY <1>1, <1>2, <1>6, <1>7, <1>8 DEF IInv, Logs, Files, Replaced, Complete
<1>14. Parent'
  BY <1>1, <1>2, <1>6, <1>7, <1>8 DEF IInv, Parent, Replaced, KnownTo
<1>30. Copies'
  BY <1>1, <1>5, CopiesSame DEF Undoable
<1>20. Still
  BY <1>6, <1>7 DEF Still
<1> QED BY <1>9, <1>10, <1>11, <1>12, <1>13, <1>14, <1>20, <1>30 DEF IInv

LEMMA CleanUpNext == ASSUME TypeOK, IInv, CleanUp PROVE IInv' /\ Still
<1> USE DEF history
<1>1. /\ phase = "close" /\ step = "" /\ todo = <<>> /\ phase' = "undo" /\ entries' = <<>>
      /\ scope' = [scope EXCEPT !.count = 0]
      /\ UNCHANGED <<log, file, jrn, bak, copy, step, tr, backups, todo, buf, wrote, gens,
                     parent, before, exact, torn, failed, lost>>
  BY DEF CleanUp
<1>2. InProgress /\ InProgress' /\ Recoverable /\ Recoverable'
  BY <1>1, InTransaction DEF InProgress, Recoverable
<1>3. UNCHANGED <<J, U, B, V, Logs0, Logs1, Files0, Files1>>
  BY <1>1, <1>2, SameViews
<1>4. buf = "none"
  BY <1>1, RangeType DEF IInv, Progress
<1>5. Shape'
  BY <1>1, <1>2, <1>3 DEF IInv, Shape, Active, Playback, InProgress, Replaced
<1>6. Scopes'
  <2>1. ~scope.failed /\ scope'.failed = scope.failed
    BY <1>1 DEF IInv, Scopes, TypeOK
  <2> QED BY <1>1, <2>1 DEF Scopes
<1>7. Notes' /\ Played'
  BY <1>1, <1>2, <1>3 DEF IInv, Notes, Played, Playback
<1>8. Progress'
  <2>1. /\ \A k \in Log : Appended(k)' <=> Appended(k)
        /\ \A f \in File : Generated(f)' <=> Generated(f)
    BY <1>1 DEF Appended, Generated
  <2> QED BY <1>1, <1>2, <1>3, <1>4, <2>1 DEF IInv, Progress, New
<1>9. Logs' /\ Files'
  BY <1>1, <1>2, <1>3 DEF IInv, Logs, Files, Replaced, Complete
<1>10. Parent'
  BY <1>1, <1>2, <1>3 DEF IInv, Parent, Replaced, KnownTo
<1>30. Copies'
  BY <1>1, <1>3, CopiesSame DEF Undoable
<1>20. Still
  BY <1>3 DEF Still
<1> QED BY <1>5, <1>6, <1>7, <1>8, <1>9, <1>10, <1>20, <1>30 DEF IInv

\* The undo files are being written: nothing but undo.backupfiles changes.
LEMMA WriteUndoNext == ASSUME TypeOK, IInv, OpenUndo \/ CloseUndo PROVE IInv' /\ Still
<1> USE DEF history, memory
<1>1. /\ phase = "undo"
      /\ \/ step = "" /\ phase' = "undo" /\ step' = "copied" /\ exact' = FALSE /\ lost' = {}
            /\ bak' = [bak EXCEPT !["undo"] = <<>>]
         \/ step = "copied" /\ phase' = "after" /\ step' = "" /\ exact' = exact /\ lost' = lost
            /\ bak' = [bak EXCEPT !["undo"] = Lasting(backups)]
      /\ UNCHANGED <<log, file, jrn, copy, tmp, tr, scope, entries, backups, todo, buf, wrote,
                     gens, parent, before, torn, failed>>
  BY DEF OpenUndo, CloseUndo
<1>2. InProgress /\ InProgress' /\ Recoverable /\ Recoverable'
  BY <1>1, InTransaction DEF InProgress, Recoverable
<1>3. B = backups /\ Clear(B) /\ backups \in Seq(Saved)
  BY <1>2, InTransaction
<1>4. exact' = FALSE
  BY <1>1 DEF IInv, Progress, TypeOK
<1>5. /\ J' = J /\ U' = U /\ B' = B
      /\ V' = <<>> \/ (phase' = "after" /\ V' = Lasting(backups))
      /\ phase' = "after" => V' = Lasting(backups)
  BY <1>1 DEF J, U, B, V, TypeOK, Name
<1>6. /\ V' # NoFile /\ Clear(V')
      /\ phase' = "after" => Range(V') = {b \in Range(backups) : b[1] # Tmp}
  <2>1. Lasting(backups) \in Seq(Saved) /\ Range(Lasting(backups)) = {b \in Range(backups) : b[1] # Tmp}
    BY <1>3, LastingIs
  <2>2. Clear(Lasting(backups)) /\ Lasting(backups) # NoFile
    BY <1>3, <2>1, Kinds DEF Clear
  <2>3. Clear(<<>>) /\ <<>> # NoFile
    <3>1. Range(<<>>) = {}
      BY RangeType
    <3>2. <<>> # NoFile
      BY Empty, Kinds
    <3> QED BY <3>1, <3>2 DEF Clear
  <2> QED BY <1>5, <2>1, <2>2, <2>3
<1>7. Logs0' = Logs0 /\ Files0' = Files0
  BY <1>1, <1>2, <1>5 DEF Logs0, Files0
<1>8. Logs1' = Logs1
  BY <1>5, <1>7 DEF Logs1
<1>9. Shape'
  BY <1>1, <1>2, <1>5 DEF IInv, Shape, Active, Playback, InProgress, Replaced
<1>10. Scopes' /\ Played'
  BY <1>1 DEF IInv, Scopes, Played, Playback
<1>11. Notes'
  BY <1>1, <1>2, <1>5, <1>6, <1>7 DEF IInv, Notes
<1>12. Progress'
  <2>1. /\ \A k \in Log : Appended(k)' <=> Appended(k)
        /\ \A f \in File : Generated(f)' <=> Generated(f)
        /\ \A f \in File : New(f)' = New(f)
    BY <1>1 DEF Appended, Generated, New
  <2> QED BY <1>1, <1>2, <1>4, <1>5, <1>6, <1>7, <2>1 DEF IInv, Progress
<1>13. Logs' /\ Files'
  BY <1>1, <1>2, <1>4, <1>7, <1>8 DEF IInv, Logs, Files, Replaced, Complete
<1>14. Parent'
  BY <1>1, <1>2, <1>4, <1>7, <1>8 DEF IInv, Parent, Replaced, KnownTo
<1>30. Copies'
  <2>1. copy' = copy /\ torn' = torn /\ phase' # "rollback" /\ phase # "after"
        /\ (step' # "copied" \/ phase' # "after")
    BY <1>1
  <2> QED BY <1>1, <1>4, <1>5, <2>1, CopiesSame DEF Undoable
<1>20. Still
  BY <1>7 DEF Still
<1> QED BY <1>9, <1>10, <1>11, <1>12, <1>13, <1>14, <1>20, <1>30 DEF IInv

-----------------------------------------------------------------------------
(* The invariant is preserved: after a commit                              *)

\* Playing back shortens a log whose lengths the notes have right.
LEMMA BackShorter ==
    ASSUME NEW L \in [Log -> Seq(Version)], NEW n \in Seq(Entry) \cup {NoFile},
           n # NoFile => Clear(n) /\ \A e \in Range(n) : e[2] <= Len(L[e[1]])
    PROVE  \A l \in Log : /\ Range(LogsBack(L, n)[l]) \subseteq Range(L[l])
                          /\ IsPrefix(LogsBack(L, n)[l], L[l])
<1> SUFFICES ASSUME NEW l \in Log
             PROVE  /\ Range(LogsBack(L, n)[l]) \subseteq Range(L[l])
                    /\ IsPrefix(LogsBack(L, n)[l], L[l])
  OBVIOUS
<1>1. L[l] \in Seq(Version)
  OBVIOUS
<1>2. CASE Noted(n, l)
  <2>1. PICK e \in Range(n) : e[1] = l /\ n # NoFile
    BY <1>2 DEF Noted
  <2>2. e \in Entry /\ LogsBack(L, n)[l] = Cut(L[l], e[2])
    BY <2>1, LogsBackIs
  <2>3. e[2] \in Nat /\ e[2] <= Len(L[l])
    BY <2>1, <2>2 DEF Entry
  <2> QED BY <1>1, <2>2, <2>3, CutIs
<1>3. CASE ~Noted(n, l)
  <2>1. LogsBack(L, n)[l] = L[l]
    BY <1>3 DEF LogsBack
  <2>2. Cut(L[l], Len(L[l])) = L[l] /\ IsPrefix(Cut(L[l], Len(L[l])), L[l])
    <3>1. Len(L[l]) \in Nat
      BY <1>1
    <3> QED BY <1>1, <3>1, CutIs
  <2> QED BY <2>1, <2>2
<1> QED BY <1>2, <1>3

\* What the logs have when a transaction is about to be committed.
LEMMA Appending ==
    ASSUME TypeOK, IInv, phase = "undo" \/ (phase = "after" /\ step = "")
    PROVE  /\ \A l \in Log : log[l] = IF l \in wrote THEN Append(Logs0[l], tr) ELSE Logs0[l]
           /\ \A l \in Log : Range(log[l]) = Range(Logs0[l]) \cup (IF l \in wrote THEN {tr} ELSE {})
           /\ tr > 0 /\ (Changelog \in wrote => Data \subseteq wrote)
<1>1. InProgress /\ buf = "none"
  BY DEF InProgress, IInv, Progress
<1>2. \A l \in Log : log[l] = IF l \in wrote THEN Append(Logs0[l], tr) ELSE Logs0[l]
  BY <1>1 DEF IInv, Progress, Appended
<1>3. \A l \in Log : Range(Append(Logs0[l], tr)) = Range(Logs0[l]) \cup {tr}
  BY ViewTypes, Parts, RangeAppend DEF IInv
<1>4. tr > 0 /\ (Changelog \in wrote => Data \subseteq wrote)
  BY DEF IInv, Progress, Shape, Active
<1> QED BY <1>2, <1>3, <1>4

LEMMA RenameJournalNext == ASSUME TypeOK, IInv, RenameJournal PROVE IInv' /\ Logs0' = log /\ Files0' = file
<1>1. /\ phase = "after" /\ step = "" /\ step' = "copied"
      /\ before' = [log |-> RecoveredLogs, file |-> RecoveredFiles]
      /\ jrn' = [n \in Name |-> IF n = "undo" THEN J ELSE NoFile]
      /\ todo' = <<Dirstate>> \o SetToSeq(Gen)
      /\ UNCHANGED <<log, file, bak, copy, tmp, phase, tr, scope, entries, backups, buf, wrote,
                     gens, parent, exact, torn, failed, lost>>
  BY DEF RenameJournal, J
<1>2. InProgress /\ Recoverable /\ J # NoFile /\ B # NoFile /\ Clear(J) /\ Clear(B) /\ B = backups
  BY <1>1, InTransaction DEF InProgress
<1>3. J' = NoFile /\ U' = J /\ B' = B /\ V' = V /\ ~Recoverable' /\ Replaced'
  BY <1>1 DEF J, U, B, V, Name, Recoverable, Replaced
<1>4. V # NoFile /\ Range(V) = {b \in Range(B) : b[1] # Tmp} /\ ~exact /\ buf = "none"
  BY <1>1, <1>2 DEF IInv, Progress
<1>5. /\ Logs0 \in [Log -> Seq(Version)] /\ Files0 \in [File -> Version]
      /\ log \in [Log -> Seq(Version)] /\ file \in [File -> Version]
  BY ViewTypes DEF IInv, TypeOK
<1>6. Logs0' = log /\ Files0' = file /\ Logs1' = Logs0 /\ before'.log = Logs0
  <2>1. Logs0' = log /\ Files0' = file
    BY <1>1, <1>3 DEF Logs0, Files0
  <2>2. Logs1' = LogsBack(Logs0', U')
    BY DEF Logs1
  <2>3. Logs0 = LogsBack(log, J)
    BY <1>2 DEF Logs0
  <2>4. before'.log = [l \in Log |-> Logs0[l]]
    BY <1>1, RecoveredAre
  <2> QED BY <1>3, <1>5, <2>1, <2>2, <2>3, <2>4
<1>7. \A f \in Store : Files1'[f] = Files0[f] /\ before'.file[f] = Files0[f]
  <2>1. Files1' = FilesBack(file, V) /\ Files0 = FilesBack(file, B)
    <3>1. Files1' = FilesBack(Files0', V')
      BY DEF Files1
    <3> QED BY <1>2, <1>3, <1>6, <3>1 DEF Files0
  <2>2. ASSUME NEW f \in Store PROVE FilesBack(file, V)[f] = FilesBack(file, B)[f]
    <3>1. Entries(V, f) = Entries(B, f)
      BY <1>4, Kinds DEF Entries
    <3>2. Noted(V, f) <=> Noted(B, f)
      BY <1>2, <1>4, Kinds DEF Noted
    <3> QED BY <3>1, <3>2, Kinds DEF FilesBack, Value
  <2>3. before'.file = [f \in Store |-> Files0[f]]
    BY <1>1, RecoveredAre
  <2> QED BY <2>1, <2>2, <2>3
<1>8. Range(todo') = Copied /\ IsInjective(todo')
  BY <1>1, ToRename
<1>9. Shape'
  BY <1>1, <1>3, <1>8 DEF IInv, Shape, Active, Playback, InProgress, Replaced
<1>10. Scopes' /\ Played'
  BY <1>1 DEF IInv, Scopes, Played, Playback
<1>11. Notes'
  BY <1>2, <1>3, <1>6, InTransaction DEF IInv, Notes
<1>12. Progress'
  <2>1. ~InProgress'
    BY <1>1 DEF InProgress
  <2> QED BY <1>1, <1>2, <1>3, <1>4, <2>1 DEF IInv, Progress
<1>13. Logs'
  <2>1. "store" \notin torn => Complete(Logs0)
    BY <1>1 DEF IInv, Logs
  <2>2. ASSUME Complete(Logs0) PROVE Complete(log)
    BY <1>1, <2>2, Appending, Kinds DEF Complete
  <2> QED BY <1>1, <1>4, <1>6, <2>1, <2>2 DEF Logs, Complete
<1>14. Files'
  <2>1. \A f \in Gen : copy["journal"][f] = Files0[f]
    BY <1>2, Kinds DEF IInv, Files
  <2> QED BY <1>1, <1>3, <1>4, <1>7, <1>8, <2>1, Kinds DEF Files, InProgress
<1>15. Parent'
  <2> SUFFICES ASSUME "dirstate" \notin torn PROVE Parent'
    BY <1>1, <1>4 DEF Parent
  <2>1. KnownTo(log) = KnownTo(Logs0) \cup (IF Changelog \in wrote THEN {tr} ELSE {})
    BY <1>1, Appending, Kinds DEF KnownTo
  <2>2. parent \in KnownTo(log) /\ Files0[Dirstate] \in KnownTo(Logs0)
    BY <1>1, <1>2, <2>1 DEF IInv, Parent
  <2>3. file[Dirstate] \in KnownTo(log)
    <3>1. file[Dirstate] = parent \/ file[Dirstate] = Files0[Dirstate]
      BY <1>2, Kinds DEF IInv, Progress, New
    <3> QED BY <2>1, <2>2, <3>1
  <2>4. copy["journal"][Dirstate] \in KnownTo(Logs0)
    BY <1>2, <2>2, Kinds DEF IInv, Files
  <2>5. copy["undo"][Dirstate] \in {NoFile} \cup KnownTo(Logs0)
    <3>1. copy["undo"][Dirstate] \in {NoFile} \cup KnownTo(Logs1)
      BY DEF IInv, Parent
    <3>2. Range(Logs1[Changelog]) \subseteq Range(Logs0[Changelog])
      <4>1. U # NoFile => Clear(U) /\ \A e \in Range(U) : e[2] <= Len(Logs0[e[1]])
        BY DEF IInv, Notes
      <4>2. \A l \in Log : Range(LogsBack(Logs0, U)[l]) \subseteq Range(Logs0[l])
        BY <1>5, <4>1, Parts, BackShorter
      <4> QED BY <4>2, Kinds DEF Logs1
    <3> QED BY <3>1, <3>2 DEF KnownTo
  <2>6. KnownTo(Logs0)' = KnownTo(log) /\ KnownTo(Logs1)' = KnownTo(Logs0) /\ KnownTo(log)' = KnownTo(log)
    BY <1>1, <1>6 DEF KnownTo
  <2> QED BY <1>1, <1>6, <2>2, <2>3, <2>4, <2>5, <2>6 DEF Parent, InProgress, Replaced
<1>30. Copies'
  <2>1. copy["journal"][Dirstate] = Files0[Dirstate]
    BY <1>2, Kinds DEF IInv, Files
  <2>2. Files0[Dirstate] \in Version /\ NoFile \notin Version
    BY <1>5, Kinds
  <2>3. DirstateDue'
    BY <1>1, <1>8, Kinds DEF DirstateDue
  <2> QED BY <1>1, <1>4, <2>1, <2>2, <2>3 DEF Copies
<1>20. Logs0' = log /\ Files0' = file
  BY <1>6
<1> QED BY <1>9, <1>10, <1>11, <1>12, <1>13, <1>14, <1>15, <1>20, <1>30 DEF IInv

LEMMA RenameCopyNext == ASSUME TypeOK, IInv, RenameCopy PROVE IInv' /\ Still
<1> USE DEF history
<1> DEFINE h == Head(todo)
<1>1. /\ phase = "after" /\ step = "copied" /\ todo # <<>> /\ todo' = Tail(todo)
      /\ copy' = [n \in Name |-> [copy[n] EXCEPT ![h] = IF n = "undo" THEN copy["journal"][h] ELSE NoFile]]
      /\ torn' = (IF h = Dirstate THEN torn \ {"undo"} ELSE torn)
      /\ (exact' => todo' = <<>> /\ torn' = {})
      /\ UNCHANGED <<log, file, jrn, bak, tmp, phase, step, tr, scope, entries, backups, buf,
                     wrote, gens, parent, before, failed, lost>>
  BY DEF RenameCopy
<1>2. IsInjective(todo) /\ Range(todo) \subseteq Copied /\ Replaced /\ Replaced'
  BY <1>1 DEF IInv, Shape, Replaced
<1>3. /\ h \in Copied /\ h \in Range(todo) /\ Range(todo) = {h} \cup Range(todo') /\ h \notin Range(todo')
      /\ IsInjective(todo')
  <2>1. todo \in Seq(File \cup {Changelog})
    BY DEF TypeOK
  <2> QED BY <1>1, <1>2, <2>1, HeadTail
<1> HIDE DEF h
<1>4. /\ copy'["undo"][h] = copy["journal"][h]
      /\ \A f \in Copied : f # h => copy'["undo"][f] = copy["undo"][f] /\ copy'["journal"][f] = copy["journal"][f]
  <2>1. copy["undo"] \in [Copied -> Version \cup {NoFile}] /\ copy["journal"] \in [Copied -> Version \cup {NoFile}]
    BY DEF TypeOK, Name
  <2>2. /\ copy'["undo"] = [copy["undo"] EXCEPT ![h] = copy["journal"][h]]
        /\ copy'["journal"] = [copy["journal"] EXCEPT ![h] = NoFile]
    BY <1>1 DEF Name
  <2> QED BY <1>3, <2>1, <2>2
<1>5. ~Recoverable /\ ~Recoverable'
  <2>1. J = NoFile /\ jrn' = jrn
    BY <1>1, <1>2 DEF IInv, Shape
  <2> QED BY <2>1 DEF Recoverable, J
<1>6. UNCHANGED <<J, U, B, V, Logs0, Logs1, Files0, Files1>>
  BY <1>1, <1>5, SameViews
<1>7. Shape'
  BY <1>1, <1>2, <1>3, <1>6 DEF IInv, Shape, Active, Playback, InProgress, Replaced
<1>8. Scopes' /\ Notes' /\ Played'
  BY <1>1, <1>5, <1>6 DEF IInv, Scopes, Notes, Played, Playback
<1>9. Progress' /\ Logs'
  <2>1. ("store" \notin torn' => "store" \notin torn) /\ (exact' => "store" \notin torn')
    BY <1>1
  <2> QED BY <1>1, <1>2, <1>6, <2>1 DEF IInv, Progress, InProgress, Logs, Complete
<1>10. Files'
  <2>1. \A f \in Gen : IF f \in Range(todo') THEN copy'["journal"][f] = before.file[f]
                                             ELSE copy'["undo"][f] = before.file[f]
    BY <1>2, <1>3, <1>4, Kinds DEF IInv, Files
  <2>2. exact' => \A f \in Gen : copy'["undo"][f] = before.file[f]
    BY <1>1, <2>1, RangeType
  <2> QED BY <1>1, <1>2, <1>6, <2>1, <2>2 DEF IInv, Files, InProgress
<1>11. Parent'
  <2>1. h = Dirstate \/ (h # Dirstate /\ copy'["undo"][Dirstate] = copy["undo"][Dirstate]
                                      /\ copy'["journal"][Dirstate] = copy["journal"][Dirstate])
    BY <1>4, Kinds
  <2>2. ("dirstate" \notin torn' => "dirstate" \notin torn) /\ (exact' => "dirstate" \notin torn')
    BY <1>1
  <2> QED BY <1>1, <1>2, <1>3, <1>4, <1>6, <2>1, <2>2 DEF IInv, Parent, InProgress, KnownTo
<1>30. Copies'
  <2>1. exact' => "undo" \notin torn'
    BY <1>1
  <2>2. CASE h = Dirstate
    <3>1. DirstateDue /\ ~DirstateDue'
      BY <1>1, <1>3, <2>2 DEF DirstateDue
    <3> QED BY <1>4, <2>1, <2>2, <3>1 DEF IInv, Copies
  <2>3. CASE h # Dirstate
    <3>1. DirstateDue' <=> DirstateDue
      BY <1>1, <1>3, <2>3 DEF DirstateDue
    <3>2. /\ copy'["undo"][Dirstate] = copy["undo"][Dirstate]
          /\ copy'["journal"][Dirstate] = copy["journal"][Dirstate]
      BY <1>4, <2>3, Kinds
    <3> QED BY <1>1, <1>6, <2>1, <2>3, <3>1, <3>2 DEF IInv, Copies, Undoable
  <2> QED BY <2>2, <2>3
<1>20. Still
  BY <1>6 DEF Still
<1> QED BY <1>7, <1>8, <1>9, <1>10, <1>11, <1>20, <1>30 DEF IInv

LEMMA DropBackupsNext == ASSUME TypeOK, IInv, DropBackups PROVE IInv' /\ Still
<1> USE DEF history, memory
<1>1. /\ phase = "after" /\ step = "copied" /\ step' = "dropped" /\ todo = <<>>
      /\ bak' = [bak EXCEPT !["journal"] = NoFile]
      /\ UNCHANGED <<log, file, jrn, copy, tmp, phase, tr, scope, entries, backups, todo, buf,
                     wrote, gens, parent, before, exact, torn, failed, lost>>
  BY DEF DropBackups
<1>2. Replaced /\ Replaced' /\ ~InProgress'
  BY <1>1 DEF Replaced, InProgress
<1>3. J' = J /\ U' = U /\ V' = V /\ ~Recoverable /\ ~Recoverable'
  <2>1. J = NoFile
    BY <1>2 DEF IInv, Shape
  <2> QED BY <1>1, <2>1 DEF J, U, B, V, TypeOK, Name, Recoverable
<1>4. Logs0' = Logs0 /\ Files0' = Files0
  BY <1>1, <1>3 DEF Logs0, Files0
<1>5. Logs1' = Logs1 /\ Files1' = Files1
  BY <1>3, <1>4, SameLater
<1>6. Shape'
  BY <1>1, <1>2, <1>3 DEF IInv, Shape, Active, Playback, Replaced
<1>7. Scopes' /\ Notes' /\ Played'
  BY <1>1, <1>3, <1>4 DEF IInv, Scopes, Notes, Played, Playback
<1>8. Progress' /\ Logs'
  BY <1>1, <1>2, <1>3, <1>4, <1>5 DEF IInv, Progress, Logs, Complete
<1>9. Files'
  BY <1>1, <1>2, <1>5 DEF IInv, Files
<1>10. Parent'
  BY <1>1, <1>2, <1>4, <1>5 DEF IInv, Parent, KnownTo
<1>30. Copies'
  <2>1. ~DirstateDue /\ ~DirstateDue'
    BY <1>1, RangeType DEF DirstateDue
  <2> QED BY <1>1, <1>3, <2>1 DEF IInv, Copies, Undoable
<1>20. Still
  BY <1>4 DEF Still
<1> QED BY <1>6, <1>7, <1>8, <1>9, <1>10, <1>20, <1>30 DEF IInv

\* Only the dirstate is written.
LEMMA DirstateOnly ==
    ASSUME TypeOK, IInv, Recoverable' <=> Recoverable, UNCHANGED <<log, jrn, bak>>,
           NEW v, file' = [file EXCEPT ![Dirstate] = v]
    PROVE  /\ UNCHANGED <<J, U, B, V, Logs0, Logs1>>
           /\ \A f \in Store : Files0'[f] = Files0[f] /\ Files1'[f] = Files1[f]
           /\ Files0'[Dirstate] = Files0[Dirstate] \/ Files0'[Dirstate] = v
           /\ ~Recoverable => Files0'[Dirstate] = v
<1>1. J' = J /\ U' = U /\ B' = B /\ V' = V
  BY DEF J, U, B, V
<1>2. Logs0' = Logs0
  BY <1>1 DEF Logs0
<1>3. Logs1' = Logs1
  BY <1>1, <1>2 DEF Logs1
<1>4. file'[Dirstate] = v /\ \A f \in Store : file'[f] = file[f]
  BY Kinds DEF TypeOK
<1>5. \A f \in Store : Files0'[f] = Files0[f]
  BY <1>1, <1>4, Kinds DEF Files0, FilesBack
<1>6. Files0'[Dirstate] = Files0[Dirstate] \/ Files0'[Dirstate] = v
  BY <1>1, <1>4, Kinds DEF Files0, FilesBack
<1>7. ~Recoverable => Files0'[Dirstate] = v
  BY <1>4 DEF Files0
<1>8. \A f \in Store : Files1'[f] = Files1[f]
  BY <1>1, <1>5, Kinds DEF Files1, FilesBack
<1> QED BY <1>1, <1>2, <1>3, <1>5, <1>6, <1>7, <1>8

LEMMA ReleaseNext == ASSUME TypeOK, IInv, Release PROVE IInv' /\ Still
<1>1. /\ phase = "after" /\ step = "dropped" /\ phase' = "idle" /\ step' = ""
      /\ file' = [file EXCEPT ![Dirstate] = parent]
      /\ scope' = NoScope /\ todo' = <<>> /\ buf' = "none" /\ wrote' = {} /\ gens' = {}
      /\ entries' = <<>> /\ backups' = <<>>
      /\ UNCHANGED <<log, jrn, bak, copy, tmp, tr, parent, before, exact, torn, failed, lost>>
  BY DEF Release, Forget, EndScopes, history
<1>2. J = NoFile /\ Replaced
  BY <1>1 DEF IInv, Shape, Replaced
<1>3. ~Recoverable /\ ~Recoverable' /\ ~InProgress' /\ ~Replaced'
  BY <1>1, <1>2 DEF Recoverable, J, InProgress, Replaced
<1>4. /\ UNCHANGED <<J, U, B, V, Logs0, Logs1>>
      /\ \A f \in Store : Files0'[f] = Files0[f] /\ Files1'[f] = Files1[f]
      /\ Files0'[Dirstate] = parent
  BY <1>1, <1>3, DirstateOnly
<1>5. file'[Dirstate] = parent
  BY <1>1, Kinds DEF TypeOK
<1>6. Shape'
  BY <1>1, <1>2, <1>3, <1>4, <1>5 DEF IInv, Shape, Active, Playback
<1>7. Scopes' /\ Notes' /\ Played' /\ Progress'
  BY <1>1, <1>3, <1>4 DEF IInv, Scopes, Notes, Played, Playback, Progress
<1>8. Logs'
  BY <1>1, <1>2, <1>4 DEF IInv, Logs, Complete
<1>9. Files'
  <2>1. Range(todo) = {}
    BY <1>1, RangeType DEF IInv, Progress
  <2> QED BY <1>1, <1>2, <1>3, <1>4, <2>1 DEF IInv, Files
<1>10. Parent'
  <2>1. Logs0 = log
    BY <1>3 DEF Logs0
  <2> QED BY <1>1, <1>2, <1>3, <1>4, <2>1 DEF IInv, Parent, KnownTo
<1>30. Copies'
  BY <1>1, <1>4, CopiesSame DEF Undoable
<1>20. Still
  BY <1>4 DEF Still
<1> QED BY <1>6, <1>7, <1>8, <1>9, <1>10, <1>20, <1>30 DEF IInv

-----------------------------------------------------------------------------
(* The invariant is preserved: beginnings and ends of going back           *)

LEMMA AbortNext == ASSUME TypeOK, IInv, Faults, Abort \/ CloseIncomplete PROVE IInv' /\ Still
<1> USE DEF disk, history
<1>1. /\ phase \in {"transaction", "close"} /\ phase' = "abort" /\ step' = "playback"
      /\ scope' = NoScope /\ todo' = <<>> /\ buf' = "none" /\ wrote' = {} /\ gens' = {}
      /\ UNCHANGED <<log, file, jrn, bak, copy, tmp, tr, entries, backups, parent, before, exact, torn, failed, lost>>
  BY DEF Abort, CloseIncomplete, EndScopes, Open, Faults
<1>2. InProgress /\ Recoverable /\ Recoverable' /\ ~InProgress' /\ ~Replaced' /\ ~Replaced
  BY <1>1, InTransaction DEF InProgress, Recoverable, Replaced
<1>3. UNCHANGED <<J, U, B, V, Logs0, Logs1, Files0, Files1>>
  BY <1>1, <1>2, SameViews
<1>4. J = entries /\ J # NoFile /\ B = backups /\ B # NoFile
  BY <1>1, <1>2, InTransaction DEF IInv, Shape
<1>5. copy["journal"][Dirstate] = Files0[Dirstate] /\ Files0[Dirstate] \in Version
  BY <1>2, Kinds, ViewTypes DEF IInv, Files
<1>6. Shape'
  BY <1>1, <1>2, <1>3, <1>4, <1>5, Kinds DEF IInv, Shape, Active, Playback
<1>7. Scopes' /\ Notes'
  BY <1>1, <1>2, <1>3 DEF IInv, Scopes, Notes
<1>8. Played'
  <2>1. Playing' = "journal"
    BY <1>1 DEF Playing
  <2>2. failed = {}
    BY <1>1 DEF IInv, Shape, Playback
  <2> QED BY <1>1, <1>3, <1>4, <2>1, <2>2 DEF Played, J, B
<1>9. Progress'
  BY <1>1, <1>2 DEF Progress
<1>10. Logs' /\ Files'
  BY <1>1, <1>2, <1>3 DEF IInv, Logs, Files, Complete
<1>11. Parent'
  BY <1>1, <1>2, <1>3, <1>5 DEF IInv, Parent, KnownTo
<1>30. Copies'
  BY <1>1, <1>3, CopiesSame DEF Undoable
<1>20. Still
  BY <1>3 DEF Still
<1> QED BY <1>6, <1>7, <1>8, <1>9, <1>10, <1>11, <1>20, <1>30 DEF IInv

LEMMA StartNext == ASSUME TypeOK, IInv, Faults, Recover \/ Rollback PROVE IInv' /\ Still
<1> USE DEF disk, history
<1>1. /\ phase = "idle" /\ step' = "playback"
      /\ \/ phase' = "recover" /\ J # NoFile
         \/ phase' = "rollback" /\ J = NoFile /\ U # NoFile
      /\ jrn[Playing'] # NoFile /\ entries' = jrn[Playing']
      /\ backups' = IF bak[Playing'] = NoFile THEN <<>> ELSE bak[Playing']
      /\ UNCHANGED <<log, file, jrn, bak, copy, tmp, tr, scope, todo, buf, wrote, gens, parent,
                     before, exact, torn, failed, lost>>
  BY DEF Recover, Rollback, ReadJournal, Playing, Faults, J, U
<1>2. ~InProgress' /\ ~Replaced' /\ ~Replaced /\ (Recoverable' <=> Recoverable)
  BY <1>1 DEF InProgress, Recoverable, Replaced
<1>3. UNCHANGED <<J, U, B, V, Logs0, Logs1, Files0, Files1>>
  BY <1>1, <1>2, SameViews
<1>4. Shape'
  <2>1. IsInjective(<<>>) /\ Range(<<>>) = {}
    BY RangeType DEF IsInjective
  <2> QED BY <1>1, <1>2, <1>3, <2>1 DEF IInv, Shape, Active, Playback
<1>5. Scopes' /\ Notes'
  BY <1>1, <1>2, <1>3 DEF IInv, Scopes, Notes
<1>6. Played'
  BY <1>1 DEF Played
<1>7. Progress'
  BY <1>1, <1>2 DEF Progress
<1>8. Logs' /\ Files'
  BY <1>1, <1>2, <1>3 DEF IInv, Logs, Files, Complete
<1>9. Parent'
  BY <1>1, <1>2, <1>3 DEF IInv, Parent, KnownTo
<1>30. Copies'
  BY <1>1, <1>3, CopiesSame DEF Undoable
<1>20. Still
  BY <1>3 DEF Still
<1> QED BY <1>4, <1>5, <1>6, <1>7, <1>8, <1>9, <1>20, <1>30 DEF IInv

LEMMA AbortFailsNext == ASSUME TypeOK, IInv, AbortFails PROVE IInv' /\ Still
<1> USE DEF disk, history, memory
<1>1. /\ phase = "abort" /\ step' = "dropped"
      /\ UNCHANGED <<log, file, jrn, bak, copy, tmp, phase, tr, scope, entries, backups, todo, buf,
                     wrote, gens, parent, before, exact, torn, failed, lost>>
  BY DEF AbortFails
<1>2. ~InProgress' /\ ~Replaced' /\ ~Replaced /\ (Recoverable' <=> Recoverable)
  BY <1>1 DEF InProgress, Recoverable, Replaced
<1>3. UNCHANGED <<J, U, B, V, Logs0, Logs1, Files0, Files1>>
  BY <1>1, <1>2, SameViews
<1>4. Shape'
  BY <1>1, <1>2, <1>3 DEF IInv, Shape, Active, Playback
<1>5. Scopes' /\ Notes' /\ Played' /\ Progress'
  BY <1>1, <1>2, <1>3 DEF IInv, Scopes, Notes, Played, Progress
<1>6. Logs' /\ Files' /\ Parent'
  BY <1>1, <1>2, <1>3 DEF IInv, Logs, Files, Complete, Parent, KnownTo
<1>30. Copies'
  BY <1>1, <1>3, CopiesSame DEF Undoable
<1>20. Still
  BY <1>3 DEF Still
<1> QED BY <1>4, <1>5, <1>6, <1>20, <1>30 DEF IInv

\* Whatever the process has in memory is gone; the next one starts afresh.
LEMMA DieNext == ASSUME TypeOK, IInv, Faults, Die \/ EndRecover PROVE IInv' /\ Still
<1> USE DEF disk
<1>1. /\ phase # "idle" /\ phase # "opening" /\ phase' = "idle" /\ step' = ""
      /\ \/ phase # "rollback" /\ ~DirstateDue /\ torn' = torn
         \/ phase = "rollback" /\ torn' = torn \cup {"store", "dirstate"}
         \/ DirstateDue /\ torn' = torn \cup {"undo"}
      /\ parent' = file[Dirstate] /\ failed' = {}
      /\ scope' = NoScope /\ todo' = <<>> /\ buf' = "none" /\ wrote' = {} /\ gens' = {}
      /\ entries' = <<>> /\ backups' = <<>>
      /\ UNCHANGED <<log, file, jrn, bak, copy, tmp, tr, before, exact, lost>>
  BY DEF Die, EndRecover, Forget, EndScopes, Faults, DirstateDue, history
<1>2. ~InProgress' /\ ~Replaced' /\ (Recoverable' <=> Recoverable)
  BY <1>1 DEF InProgress, Recoverable, Replaced
<1>3. UNCHANGED <<J, U, B, V, Logs0, Logs1, Files0, Files1>>
  BY <1>1, <1>2, SameViews
<1>8. /\ "store" \notin torn' => "store" \notin torn /\ phase # "rollback"
      /\ "dirstate" \notin torn' => "dirstate" \notin torn /\ phase # "rollback"
      /\ "undo" \notin torn' => "undo" \notin torn /\ ~DirstateDue
      /\ ~DirstateDue => ("undo" \in torn' => "undo" \in torn)
  BY <1>1 DEF DirstateDue
<1>4. Shape'
  BY <1>1, <1>2, <1>3 DEF Shape, Active, Playback
<1>5. Scopes' /\ Notes' /\ Played' /\ Progress'
  BY <1>1, <1>2, <1>3 DEF IInv, Scopes, Notes, Played, Playback, Progress
<1>6. Logs' /\ Files'
  BY <1>1, <1>2, <1>3, <1>8 DEF IInv, Logs, Files, Complete
<1>7. Parent'
  BY <1>1, <1>2, <1>3, <1>8 DEF IInv, Parent, KnownTo
<1>30. Copies'
  <2>1. DirstateDue => ~exact
    BY RangeType DEF DirstateDue, IInv, Progress
  <2>2. (exact' => exact) /\ (Undoable' => Undoable) /\ ~DirstateDue'
    BY <1>1, <1>3 DEF Undoable, DirstateDue
  <2> QED BY <1>1, <1>8, <2>1, <2>2 DEF IInv, Copies
<1>20. Still
  BY <1>3 DEF Still
<1> QED BY <1>4, <1>5, <1>6, <1>7, <1>20, <1>30 DEF IInv

LEMMA EndAbortNext == ASSUME TypeOK, IInv, EndAbort PROVE IInv' /\ Still
<1> DEFINE d == copy["journal"][Dirstate]
<1>1. /\ phase = "abort" /\ step = "dropped" /\ phase' = "idle" /\ step' = ""
      /\ file' = [file EXCEPT ![Dirstate] = d] /\ parent' = d
      /\ copy' = [copy EXCEPT !["journal"][Dirstate] = NoFile]
      /\ scope' = NoScope /\ todo' = <<>> /\ buf' = "none" /\ wrote' = {} /\ gens' = {}
      /\ entries' = <<>> /\ backups' = <<>> /\ failed' = {}
      /\ UNCHANGED <<log, jrn, bak, tmp, tr, before, exact, torn, lost>>
  BY DEF EndAbort, Forget, EndScopes, history
<1> HIDE DEF d
<1>2. ~InProgress' /\ ~Replaced' /\ (Recoverable' <=> Recoverable)
  BY <1>1 DEF InProgress, Recoverable, Replaced
<1>3. /\ UNCHANGED <<J, U, B, V, Logs0, Logs1>>
      /\ \A f \in Store : Files0'[f] = Files0[f] /\ Files1'[f] = Files1[f]
      /\ Files0'[Dirstate] = Files0[Dirstate] \/ Files0'[Dirstate] = d
  BY <1>1, <1>2, DirstateOnly
<1>4. file'[Dirstate] = d /\ copy'["undo"] = copy["undo"]
  BY <1>1, Kinds DEF TypeOK, Name
<1>5. Shape'
  BY <1>1, <1>2, <1>3, <1>4 DEF Shape, Active, Playback
<1>6. Scopes' /\ Played' /\ Progress'
  BY <1>1, <1>2, <1>3 DEF IInv, Scopes, Played, Playback, Progress
<1>7. Notes'
  BY <1>1, <1>2, <1>3 DEF IInv, Notes
<1>8. Logs' /\ Files'
  BY <1>1, <1>2, <1>3, <1>4 DEF IInv, Logs, Files, Complete
<1>9. Parent'
  <2>1. "dirstate" \notin torn => d \in KnownTo(Logs0) /\ Files0[Dirstate] \in KnownTo(Logs0)
    BY <1>1 DEF IInv, Parent, d
  <2> QED BY <1>1, <1>2, <1>3, <1>4, <2>1 DEF IInv, Parent, KnownTo
<1>30. Copies'
  BY <1>1, <1>3, <1>4, CopiesSame DEF Undoable
<1>20. Still
  BY <1>3 DEF Still
<1> QED BY <1>5, <1>6, <1>7, <1>8, <1>9, <1>20, <1>30 DEF IInv

LEMMA UpdateNext == ASSUME TypeOK, IInv, Faults, Update PROVE IInv' /\ Still
<1>1. /\ phase = "idle" /\ J = NoFile /\ parent' \in Known
      /\ file' = [file EXCEPT ![Dirstate] = parent']
      /\ UNCHANGED <<log, jrn, bak, copy, tmp, phase, step, tr, scope, entries, backups, todo,
                     buf, wrote, gens, before, exact, torn, failed, lost>>
  BY DEF Update, Faults, history, J
<1>2. ~InProgress' /\ ~Replaced' /\ ~Replaced /\ ~Recoverable /\ ~Recoverable'
  BY <1>1 DEF InProgress, Recoverable, Replaced, J
<1>3. /\ UNCHANGED <<J, U, B, V, Logs0, Logs1>>
      /\ \A f \in Store : Files0'[f] = Files0[f] /\ Files1'[f] = Files1[f]
      /\ Files0'[Dirstate] = parent'
  BY <1>1, <1>2, DirstateOnly
<1>4. file'[Dirstate] = parent' /\ Logs0 = log
  BY <1>1, <1>2, Kinds DEF TypeOK, Logs0
<1>5. Shape'
  BY <1>1, <1>2, <1>3, <1>4 DEF IInv, Shape, Active, Playback
<1>6. Scopes' /\ Played' /\ Progress' /\ Notes'
  BY <1>1, <1>2, <1>3 DEF IInv, Scopes, Played, Playback, Progress, Notes
<1>7. Logs' /\ Files'
  BY <1>1, <1>2, <1>3 DEF IInv, Logs, Files, Complete
<1>8. Parent'
  BY <1>1, <1>2, <1>3, <1>4 DEF IInv, Parent, KnownTo, Known
<1>30. Copies'
  BY <1>1, <1>3, CopiesSame DEF Undoable
<1>20. Still
  BY <1>3 DEF Still
<1> QED BY <1>5, <1>6, <1>7, <1>8, <1>20, <1>30 DEF IInv

LEMMA EndRollbackNext == ASSUME TypeOK, IInv, EndRollback PROVE IInv' /\ Still
<1> DEFINE gone == parent \notin Known
           there == copy["undo"][Dirstate] # NoFile
           new == IF gone /\ there THEN copy["undo"][Dirstate] ELSE parent
<1>1. /\ phase = "rollback" /\ step = "dropped" /\ phase' = "idle" /\ step' = "" /\ exact' = FALSE
      /\ file' = [file EXCEPT ![Dirstate] = new] /\ parent' = new
      /\ copy' = (IF gone THEN [copy EXCEPT !["undo"][Dirstate] = NoFile] ELSE copy)
      /\ torn' = (IF exact THEN {} ELSE IF "undo" \in torn THEN torn \cup {"dirstate"} ELSE torn)
      /\ scope' = NoScope /\ todo' = <<>> /\ buf' = "none" /\ wrote' = {} /\ gens' = {}
      /\ entries' = <<>> /\ backups' = <<>> /\ failed' = {}
      /\ UNCHANGED <<log, jrn, bak, tmp, tr, before>>
  BY DEF EndRollback, Forget, EndScopes
<1> HIDE DEF new
<1>2. J = NoFile /\ U = NoFile /\ V = NoFile
  BY <1>1 DEF IInv, Shape
<1>3. ~InProgress' /\ ~Replaced' /\ ~Replaced /\ ~Recoverable /\ ~Recoverable'
  BY <1>1, <1>2 DEF InProgress, Recoverable, Replaced, J
<1>4. /\ UNCHANGED <<J, U, B, V, Logs0, Logs1>> /\ Files0'[Dirstate] = new
      /\ \A f \in Store : Files0'[f] = Files0[f]
  BY <1>1, <1>3, DirstateOnly
<1>5. file'[Dirstate] = new
  BY <1>1, Kinds DEF TypeOK
<1>6. Logs0 = log /\ Logs1 = log
  <2>1. Logs0 = log
    BY <1>3 DEF Logs0
  <2> QED BY <1>2, <2>1, BackNothing DEF Logs1, TypeOK
<1>7. Shape'
  BY <1>1, <1>2, <1>3, <1>4, <1>5 DEF Shape, Active, Playback
<1>8. Scopes' /\ Played' /\ Progress' /\ Notes'
  BY <1>1, <1>2, <1>3, <1>4 DEF Scopes, Played, Playback, Progress, Notes
<1>9. Logs'
  <2>1. "store" \notin torn \/ exact => Complete(Logs1)
    BY DEF IInv, Logs
  <2>2. "store" \notin torn' => "store" \notin torn \/ exact
    BY <1>1
  <2> QED BY <1>1, <1>3, <1>4, <1>6, <2>1, <2>2 DEF Logs, Complete
<1>10. Files'
  BY <1>1, <1>3 DEF Files
<1>11. Parent'
  <2>1. "dirstate" \notin torn' => "dirstate" \notin torn \/ exact
    BY <1>1
  <2>2. "dirstate" \notin torn' => copy["undo"][Dirstate] \in {NoFile} \cup KnownTo(log)
    BY <1>6, <2>1 DEF IInv, Parent
  <2>3. "dirstate" \notin torn' => new \in KnownTo(log)
    <3>1. "dirstate" \notin torn' => there
      <4>1. "dirstate" \notin torn' => "undo" \notin torn
        BY <1>1 DEF IInv, Copies
      <4>2. Undoable /\ ~DirstateDue
        BY <1>1 DEF Undoable, DirstateDue
      <4> QED BY <4>1, <4>2 DEF IInv, Copies
    <3> QED BY <2>2, <3>1 DEF new, Known, KnownTo
  <2>4. copy'["undo"][Dirstate] = copy["undo"][Dirstate] \/ copy'["undo"][Dirstate] = NoFile
    BY <1>1, Kinds DEF TypeOK, Name
  <2>5. KnownTo(log)' = KnownTo(log) /\ KnownTo(Logs0)' = KnownTo(log) /\ KnownTo(Logs1)' = KnownTo(log)
    BY <1>1, <1>4, <1>6 DEF KnownTo
  <2> QED BY <1>1, <1>3, <1>4, <2>2, <2>3, <2>4, <2>5 DEF Parent
<1>30. Copies'
  <2>1. ~Undoable' /\ ~DirstateDue'
    BY <1>1, <1>2, <1>4 DEF Undoable, DirstateDue
  <2> QED BY <1>1, <2>1 DEF Copies
<1>20. Still
  BY <1>4 DEF Still
<1> QED BY <1>7, <1>8, <1>9, <1>10, <1>11, <1>20, <1>30 DEF IInv

-----------------------------------------------------------------------------
(* The invariant is preserved: playing back                                *)

\* What has been played back once may be played back again.
LEMMA CutAgain ==
    ASSUME NEW L \in [Log -> Seq(Version)], NEW n \in Seq(Entry), n # NoFile, Clear(n), NEW e \in Range(n)
    PROVE  LogsBack([L EXCEPT ![e[1]] = Cut(L[e[1]], e[2])], n) = LogsBack(L, n)
<1> DEFINE M == [L EXCEPT ![e[1]] = Cut(L[e[1]], e[2])]
<1>1. e \in Entry /\ e[1] \in Log /\ e[2] \in Nat
  BY RangeType DEF Entry
<1>2. Noted(n, e[1]) /\ Value(n, e[1]) = e[2]
  BY Valued
<1>3. M[e[1]] = Cut(L[e[1]], e[2]) /\ \A l \in Log : l # e[1] => M[l] = L[l]
  BY <1>1
<1>4. L[e[1]] \in Seq(Version)
  BY <1>1
<1>5. Cut(Cut(L[e[1]], e[2]), e[2]) = Cut(L[e[1]], e[2])
  BY <1>1, <1>4, CutIs
<1> HIDE DEF M
<1>6. LogsBack(M, n) = LogsBack(L, n)
  BY <1>2, <1>3, <1>5 DEF LogsBack
<1> QED BY <1>6 DEF M

\* When everything has been played back, that changes nothing any more.
LEMMA AllCut ==
    ASSUME NEW L \in [Log -> Seq(Version)], NEW n \in Seq(Entry), n # NoFile, Clear(n),
           \A e \in Range(n) : Len(L[e[1]]) = e[2]
    PROVE  LogsBack(L, n) = L
<1>1. ASSUME NEW l \in Log, Noted(n, l) PROVE Cut(L[l], Value(n, l)) = L[l]
  <2>1. PICK e \in Range(n) : e[1] = l /\ Value(n, l) = e[2]
    BY <1>1, NotedBy
  <2>2. L[l] \in Seq(Version) /\ Len(L[l]) \in Nat /\ e[2] = Len(L[l])
    BY <2>1
  <2> QED BY <2>1, <2>2, CutIs
<1> QED BY <1>1 DEF LogsBack

\* What is noted of a file does not depend on what is there.
LEMMA PutAgain ==
    ASSUME NEW F \in [File -> Version], NEW n, NEW f, Noted(n, f), NEW v
    PROVE  FilesBack([F EXCEPT ![f] = v], n) = FilesBack(F, n)
<1> DEFINE G == [F EXCEPT ![f] = v]
<1>1. \A g \in File : g # f => G[g] = F[g]
  OBVIOUS
<1> HIDE DEF G
<1>2. FilesBack(G, n) = FilesBack(F, n)
  BY <1>1 DEF FilesBack
<1> QED BY <1>2 DEF G

LEMMA AllPut ==
    ASSUME NEW F \in [File -> Version], NEW n \in Seq(Saved), n # NoFile, Clear(n), NEW X,
           \A e \in Range(n) : e[1] \in X \cup {Tmp} \/ F[e[1]] = e[2]
    PROVE  \A f \in File \ X : FilesBack(F, n)[f] = F[f]
<1>1. ASSUME NEW f \in File \ X, Noted(n, f) PROVE Value(n, f) = F[f]
  <2>1. PICK e \in Range(n) : e[1] = f /\ Value(n, f) = e[2]
    BY <1>1, NotedBy
  <2> QED BY <2>1, Kinds
<1> QED BY <1>1 DEF FilesBack

\* The two journals that are played back, and when.
LEMMA InPlayback ==
    ASSUME TypeOK, IInv, step \in {"playback", "unlinked"}
    PROVE  /\ Playback /\ ~InProgress /\ ~Replaced /\ phase # "idle" /\ ~Active
           /\ \/ phase = "rollback" /\ Playing = "undo" /\ J = NoFile /\ U # NoFile /\ ~Recoverable
                 /\ jrn[Playing] = U /\ bak[Playing] = V
              \/ phase \in {"abort", "recover"} /\ Playing = "journal" /\ J # NoFile /\ Recoverable
                 /\ jrn[Playing] = J /\ bak[Playing] = B
           /\ jrn[Playing] \in Seq(Entry) /\ jrn[Playing] # NoFile /\ Clear(jrn[Playing])
           /\ bak[Playing] \in Seq(Saved) \cup {NoFile} /\ (bak[Playing] # NoFile => Clear(bak[Playing]))
           /\ \A e \in Range(jrn[Playing]) : e[2] <= Len(log[e[1]])
<1>1. Playback /\ ~InProgress /\ ~Replaced /\ phase # "idle" /\ ~Active
  BY DEF IInv, Shape, Playback, InProgress, Replaced, Active, TypeOK, Phase
<1>2. CASE phase = "rollback"
  <2>1. J = NoFile /\ U # NoFile /\ Playing = "undo" /\ jrn[Playing] = U /\ bak[Playing] = V
    BY <1>2 DEF IInv, Shape, Playing, U, V
  <2>2. ~Recoverable
    BY <2>1 DEF Recoverable, J
  <2>3. Logs0 = log
    BY <2>2 DEF Logs0
  <2>4. /\ Clear(U) /\ (V # NoFile => Clear(V))
        /\ \A e \in Range(U) : e[2] <= Len(log[e[1]])
    BY <2>1, <2>3 DEF IInv, Notes
  <2> QED BY <1>1, <1>2, <2>1, <2>2, <2>4, Parts
<1>3. CASE phase # "rollback"
  <2>1. /\ phase \in {"abort", "recover"} /\ J # NoFile /\ Playing = "journal"
        /\ jrn[Playing] = J /\ bak[Playing] = B
    BY <1>1, <1>3 DEF IInv, Shape, Playing, J, B, Playback
  <2>2. Recoverable
    BY <2>1 DEF Recoverable, J
  <2>3. /\ Clear(J) /\ (B # NoFile => Clear(B))
        /\ \A e \in Range(J) : e[2] <= Len(log[e[1]])
    BY <2>1, <2>2 DEF IInv, Notes
  <2> QED BY <1>1, <2>1, <2>2, <2>3, Parts
<1> QED BY <1>2, <1>3

LEMMA TruncateNext == ASSUME TypeOK, IInv, Truncate PROVE IInv' /\ (phase = "rollback" \/ Still)
<1> USE DEF history
<1> DEFINE e == Head(entries)
           n == jrn[Playing]
<1>1. /\ step = "playback" /\ entries # <<>> /\ entries' = Tail(entries)
      /\ log' = [log EXCEPT ![e[1]] = Cut(log[e[1]], e[2])]
      /\ UNCHANGED <<file, jrn, bak, copy, tmp, phase, step, tr, scope, backups, todo, buf, wrote,
                     gens, parent, before, exact, torn, failed, lost>>
  BY DEF Truncate
<1>2. /\ Playback /\ ~InProgress /\ ~Replaced /\ phase # "idle" /\ ~Active
      /\ n \in Seq(Entry) /\ n # NoFile /\ Clear(n)
      /\ \/ phase = "rollback" /\ n = U /\ ~Recoverable
         \/ phase \in {"abort", "recover"} /\ n = J /\ Recoverable
      /\ \A f \in Range(n) : f[2] <= Len(log[f[1]])
  BY <1>1, InPlayback
<1>3. /\ ~InProgress' /\ ~Replaced' /\ Playing' = Playing /\ (Recoverable' <=> Recoverable)
      /\ Playback' /\ ~Active'
  BY <1>1, <1>2 DEF InProgress, Replaced, Playing, Recoverable, Playback, Active
<1>4. e \in Entry /\ Range(entries) = {e} \cup Range(entries') /\ e \in Range(n)
  <2>1. entries \in Seq(Entry)
    BY DEF TypeOK
  <2>2. e \in Entry /\ Range(entries) = {e} \cup Range(entries')
    BY <1>1, <2>1, HeadTail
  <2>3. Range(entries) \subseteq Range(n)
    BY <1>1, <1>2 DEF IInv, Played
  <2> QED BY <2>2, <2>3
<1> HIDE DEF e, n
<1>5. J' = J /\ U' = U /\ B' = B /\ V' = V /\ n' = n
  BY <1>1, <1>3 DEF J, U, B, V, n
<1>6. /\ log \in [Log -> Seq(Version)] /\ log' \in [Log -> Seq(Version)]
      /\ log'[e[1]] = Cut(log[e[1]], e[2]) /\ Len(log'[e[1]]) = e[2]
      /\ \A l \in Log : l # e[1] => log'[l] = log[l]
  <2>1. log \in [Log -> Seq(Version)]
    BY DEF TypeOK
  <2>2. e[1] \in Log /\ e[2] \in Nat /\ log[e[1]] \in Seq(Version)
    BY <1>4, <2>1 DEF Entry
  <2>3. Cut(log[e[1]], e[2]) \in Seq(Version) /\ Len(Cut(log[e[1]], e[2])) = e[2]
    BY <2>2, CutIs
  <2> QED BY <1>1, <2>1, <2>2, <2>3
<1>7. LogsBack(log', n) = LogsBack(log, n)
  BY <1>1, <1>2, <1>4, <1>6, CutAgain
<1>8. Files0' = Files0 /\ Files1' = Files1
  BY <1>1, <1>3, <1>5 DEF Files0, Files1
<1>9. (phase # "rollback" => Logs0' = Logs0) /\ Logs1' = Logs1
  <2>1. CASE phase = "rollback"
    <3>1. Logs0 = log /\ Logs0' = log' /\ n = U
      BY <1>2, <1>3, <2>1 DEF Logs0
    <3> QED BY <1>5, <1>7, <2>1, <3>1 DEF Logs1
  <2>2. CASE phase # "rollback"
    <3>1. Logs0 = LogsBack(log, J) /\ Logs0' = LogsBack(log', J) /\ n = J
      BY <1>2, <1>3, <1>5, <2>2 DEF Logs0
    <3> QED BY <1>5, <1>7, <2>2, <3>1 DEF Logs1
  <2> QED BY <2>1, <2>2
<1>10. \A f \in Range(n) : \/ f = e /\ Len(log'[f[1]]) = f[2]
                           \/ f # e /\ log'[f[1]] = log[f[1]]
  <2> SUFFICES ASSUME NEW f \in Range(n), f # e PROVE log'[f[1]] = log[f[1]]
    BY <1>6
  <2>1. f[1] # e[1]
    BY <1>2, <1>4 DEF Clear
  <2>2. f[1] \in Log
    BY <1>2, RangeType DEF Entry
  <2> QED BY <1>6, <2>1, <2>2
<1>11. Shape'
  BY <1>1, <1>2, <1>3, <1>5 DEF IInv, Shape
<1>12. Scopes' /\ Progress'
  BY <1>1, <1>2, <1>3 DEF Scopes, Progress, Active
<1>13. Notes'
  <2>1. \A f \in Range(n) : f[2] <= Len(log'[f[1]])
    <3> SUFFICES ASSUME NEW f \in Range(n) PROVE f[2] <= Len(log'[f[1]])
      OBVIOUS
    <3>1. f[2] \in Nat
      BY <1>2, RangeType DEF Entry
    <3>2. CASE Len(log'[f[1]]) = f[2]
      BY <3>1, <3>2
    <3>3. CASE log'[f[1]] = log[f[1]]
      BY <1>2, <3>3
    <3> QED BY <1>10, <3>2, <3>3
  <2>2. phase = "rollback" => Logs0' = log'
    BY <1>2, <1>3 DEF Logs0
  <2> QED BY <1>1, <1>2, <1>3, <1>5, <1>9, <2>1, <2>2 DEF IInv, Notes
<1>14. Played'
  <2>1. \A f \in Range(n) : f \in Range(entries') \/ Len(log'[f[1]]) = f[2]
    <3>1. \A f \in Range(n) : f \in Range(entries) \/ Len(log[f[1]]) = f[2]
      BY <1>1, <1>2 DEF IInv, Played, n
    <3> QED BY <1>4, <1>10, <3>1
  <2>2. Range(entries') \subseteq Range(n)
    BY <1>1, <1>2, <1>4 DEF IInv, Played, n
  <2> QED BY <1>1, <1>2, <1>3, <1>5, <1>8, <2>1, <2>2 DEF IInv, Played, n
<1>15. Logs' /\ Files'
  BY <1>1, <1>2, <1>3, <1>8, <1>9 DEF IInv, Logs, Files, Complete
<1>16. Parent'
  BY <1>1, <1>2, <1>3, <1>8, <1>9 DEF IInv, Parent, KnownTo
<1>30. Copies'
  BY <1>1, <1>5, CopiesSame DEF Undoable
<1>20. (phase = "rollback" \/ Still)
  BY <1>8, <1>9 DEF Still
<1> QED BY <1>11, <1>12, <1>13, <1>14, <1>15, <1>16, <1>20, <1>30 DEF IInv

LEMMA RestoreNext == ASSUME TypeOK, IInv, Restore PROVE IInv' /\ (phase = "rollback" \/ Still) /\ Logs0' = Logs0
<1> USE DEF history
<1> DEFINE e == Head(backups)
           m == bak[Playing]
<1>1. /\ step = "playback" /\ entries = <<>> /\ backups # <<>> /\ backups' = Tail(backups)
      /\ \/ e[1] = Tmp /\ file' = file
         \/ e[1] # Tmp /\ file' = [file EXCEPT ![e[1]] = e[2]]
      /\ UNCHANGED <<log, jrn, bak, copy, phase, step, tr, scope, entries, todo, buf, wrote,
                     gens, parent, before, exact, torn, failed, lost>>
  BY DEF Restore
<1>2. /\ Playback /\ ~InProgress /\ ~Replaced /\ phase # "idle" /\ ~Active
      /\ m # NoFile => Clear(m)
      /\ \/ phase = "rollback" /\ m = V /\ ~Recoverable
         \/ phase \in {"abort", "recover"} /\ m = B /\ Recoverable
  BY <1>1, InPlayback
<1>3. /\ ~InProgress' /\ ~Replaced' /\ Playing' = Playing /\ (Recoverable' <=> Recoverable)
      /\ Playback' /\ ~Active'
  BY <1>1, <1>2 DEF InProgress, Replaced, Playing, Recoverable, Playback, Active
<1>4. e \in Saved /\ Range(backups) = {e} \cup Range(backups') /\ e \in Range(m) /\ m # NoFile /\ m \in Seq(Saved)
  <2>1. backups \in Seq(Saved)
    BY DEF TypeOK
  <2>2. e \in Saved /\ Range(backups) = {e} \cup Range(backups')
    BY <1>1, <2>1, HeadTail
  <2>3. m # NoFile /\ Range(backups) \subseteq Range(m)
    BY <1>1, <1>2 DEF IInv, Played
  <2>4. m \in Seq(Saved) \cup {NoFile}
    BY <1>1, InPlayback
  <2> QED BY <2>2, <2>3, <2>4
<1> HIDE DEF e, m
<1>5. J' = J /\ U' = U /\ B' = B /\ V' = V /\ m' = m
  BY <1>1, <1>3 DEF J, U, B, V, m
<1>6. FilesBack(file', m) = FilesBack(file, m)
  <2>1. file \in [File -> Version]
    BY DEF TypeOK
  <2>2. Noted(m, e[1])
    BY <1>4 DEF Noted
  <2>3. CASE file' = file
    BY <2>3
  <2>4. CASE file' = [file EXCEPT ![e[1]] = e[2]]
    BY <2>1, <2>2, <2>4, PutAgain
  <2> QED BY <1>1, <2>3, <2>4
<1>7. Logs0' = Logs0 /\ Logs1' = Logs1
  BY <1>1, <1>3, <1>5 DEF Logs0, Logs1
<1>8. (phase # "rollback" => Files0' = Files0) /\ Files1' = Files1
  <2>1. CASE phase = "rollback"
    <3>1. Files0 = file /\ Files0' = file' /\ m = V
      BY <1>2, <1>3, <2>1 DEF Files0
    <3> QED BY <1>5, <1>6, <2>1, <3>1 DEF Files1
  <2>2. CASE phase # "rollback"
    <3>1. Files0 = FilesBack(file, B) /\ Files0' = FilesBack(file', B) /\ m = B
      BY <1>2, <1>3, <1>5, <2>2 DEF Files0
    <3> QED BY <1>5, <1>6, <2>2, <3>1 DEF Files1
  <2> QED BY <2>1, <2>2
<1>9. \A f \in Range(m) : \/ f = e /\ (e[1] = Tmp \/ file'[f[1]] = f[2])
                          \/ f # e /\ (f[1] = Tmp \/ file'[f[1]] = file[f[1]])
  <2>1. file \in [File -> Version] /\ \A f \in Range(m) : f[1] \in File \cup {Tmp}
    <3>1. Range(m) \subseteq Saved
      BY <1>4, RangeType
    <3>2. \A f \in Saved : f[1] \in File \cup {Tmp}
      BY DEF Saved
    <3>3. file \in [File -> Version]
      BY DEF TypeOK
    <3> QED BY <3>1, <3>2, <3>3
  <2>2. \A f \in Range(m) : f # e => f[1] # e[1]
    BY <1>2, <1>4 DEF Clear
  <2> QED BY <1>1, <1>4, <2>1, <2>2
<1>10. Shape'
  BY <1>1, <1>2, <1>3, <1>5 DEF IInv, Shape
<1>11. Scopes' /\ Progress'
  BY <1>1, <1>2, <1>3 DEF Scopes, Progress, Active
<1>12. Notes'
  BY <1>1, <1>3, <1>5, <1>7 DEF IInv, Notes
<1>13. Played'
  <2>1. \A f \in Range(m) : f \in Range(backups') \/ f[1] \in failed \cup {Tmp} \/ file'[f[1]] = f[2]
    <3>1. \A f \in Range(m) : f \in Range(backups) \/ f[1] \in failed \cup {Tmp} \/ file[f[1]] = f[2]
      BY <1>1, <1>2, <1>4 DEF IInv, Played, m
    <3> QED BY <1>4, <1>9, <3>1
  <2>2. Range(backups') \subseteq Range(m)
    BY <1>1, <1>2, <1>4 DEF IInv, Played, m
  <2>3. phase = "abort" => \A f \in failed : file'[f] \in {0, Files0'[f]}
    <3> SUFFICES ASSUME phase = "abort", NEW f \in failed PROVE file'[f] \in {0, Files0'[f]}
      OBVIOUS
    <3>1. file[f] \in {0, Files0[f]} /\ Files0' = Files0 /\ f \in File /\ file \in [File -> Version]
      BY <1>8 DEF IInv, Played, TypeOK
    <3>2. CASE file'[f] = file[f]
      BY <3>1, <3>2
    <3>3. CASE file'[f] # file[f]
      <4>1. e[1] = f /\ f # Tmp /\ file'[f] = e[2]
        BY <1>1, <3>1, <3>3
      <4>2. FilesBack(file, m)[f] = e[2]
        BY <1>2, <1>4, <3>1, <4>1, FilesBackIs
      <4>3. Files0 = FilesBack(file, m)
        BY <1>2 DEF Files0
      <4> QED BY <3>1, <4>1, <4>2, <4>3
    <3> QED BY <3>2, <3>3
  <2> QED BY <1>1, <1>2, <1>3, <1>4, <1>5, <2>1, <2>2, <2>3 DEF IInv, Played, m
<1>14. Logs' /\ Files'
  BY <1>1, <1>2, <1>3, <1>7, <1>8 DEF IInv, Logs, Files, Complete
<1>15. Parent'
  BY <1>1, <1>2, <1>3, <1>7, <1>8 DEF IInv, Parent, KnownTo
<1>30. Copies'
  BY <1>1, <1>5, CopiesSame DEF Undoable
<1>20. (phase = "rollback" \/ Still) /\ Logs0' = Logs0
  BY <1>7, <1>8 DEF Still
<1> QED BY <1>10, <1>11, <1>12, <1>13, <1>14, <1>15, <1>20, <1>30 DEF IInv

LEMMA RestoreFailsNext == ASSUME TypeOK, IInv, RestoreFails PROVE IInv' /\ (phase = "rollback" \/ Still) /\ Logs0' = Logs0
<1> USE DEF history
<1> DEFINE e == Head(backups)
           m == bak[Playing]
<1>1. /\ step = "playback" /\ entries = <<>> /\ backups # <<>> /\ backups' = Tail(backups)
      /\ \/ file' = [file EXCEPT ![e[1]] = 0]
         \/ phase # "abort" /\ file' = file
      /\ failed' = failed \cup ({e[1]} \cap File)
      /\ UNCHANGED <<log, jrn, bak, copy, phase, tmp, step, tr, scope, entries, todo, buf,
                     wrote, gens, parent, before, exact, torn, lost>>
  BY DEF RestoreFails
<1>2. /\ Playback /\ ~InProgress /\ ~Replaced /\ phase # "idle" /\ ~Active
      /\ m # NoFile => Clear(m)
      /\ \/ phase = "rollback" /\ m = V /\ ~Recoverable
         \/ phase \in {"abort", "recover"} /\ m = B /\ Recoverable
  BY <1>1, InPlayback
<1>3. /\ ~InProgress' /\ ~Replaced' /\ Playing' = Playing /\ (Recoverable' <=> Recoverable)
      /\ Playback' /\ ~Active'
  BY <1>1, <1>2 DEF InProgress, Replaced, Playing, Recoverable, Playback, Active
<1>4. e \in Saved /\ Range(backups) = {e} \cup Range(backups') /\ e \in Range(m) /\ m # NoFile /\ m \in Seq(Saved)
  <2>1. backups \in Seq(Saved)
    BY DEF TypeOK
  <2>2. e \in Saved /\ Range(backups) = {e} \cup Range(backups')
    BY <1>1, <2>1, HeadTail
  <2>3. m # NoFile /\ Range(backups) \subseteq Range(m)
    BY <1>1, <1>2 DEF IInv, Played
  <2>4. m \in Seq(Saved) \cup {NoFile}
    BY <1>1, InPlayback
  <2> QED BY <2>2, <2>3, <2>4
<1> HIDE DEF e, m
<1>5. J' = J /\ U' = U /\ B' = B /\ V' = V /\ m' = m
  BY <1>1, <1>3 DEF J, U, B, V, m
<1>6. FilesBack(file', m) = FilesBack(file, m)
  <2>1. file \in [File -> Version]
    BY DEF TypeOK
  <2>2. Noted(m, e[1])
    BY <1>4 DEF Noted
  <2>3. CASE file' = file
    BY <2>3
  <2>4. CASE file' = [file EXCEPT ![e[1]] = 0]
    BY <2>1, <2>2, <2>4, PutAgain
  <2> QED BY <1>1, <2>3, <2>4
<1>7. Logs0' = Logs0 /\ Logs1' = Logs1
  BY <1>1, <1>3, <1>5 DEF Logs0, Logs1
<1>8. (phase # "rollback" => Files0' = Files0) /\ Files1' = Files1
  <2>1. CASE phase = "rollback"
    <3>1. Files0 = file /\ Files0' = file' /\ m = V
      BY <1>2, <1>3, <2>1 DEF Files0
    <3> QED BY <1>5, <1>6, <2>1, <3>1 DEF Files1
  <2>2. CASE phase # "rollback"
    <3>1. Files0 = FilesBack(file, B) /\ Files0' = FilesBack(file', B) /\ m = B
      BY <1>2, <1>3, <1>5, <2>2 DEF Files0
    <3> QED BY <1>5, <1>6, <2>2, <3>1 DEF Files1
  <2> QED BY <2>1, <2>2
<1>9. \A f \in Range(m) : f = e \/ f[1] = Tmp \/ file'[f[1]] = file[f[1]]
  <2>1. file \in [File -> Version] /\ \A f \in Range(m) : f[1] \in File \cup {Tmp}
    <3>1. Range(m) \subseteq Saved
      BY <1>4, RangeType
    <3>2. \A f \in Saved : f[1] \in File \cup {Tmp}
      BY DEF Saved
    <3>3. file \in [File -> Version]
      BY DEF TypeOK
    <3> QED BY <3>1, <3>2, <3>3
  <2>2. \A f \in Range(m) : f # e => f[1] # e[1]
    BY <1>2, <1>4 DEF Clear
  <2> QED BY <1>1, <1>4, <2>1, <2>2
<1>10. Shape'
  BY <1>1, <1>2, <1>3, <1>5 DEF IInv, Shape
<1>11. Scopes' /\ Progress'
  BY <1>1, <1>2, <1>3 DEF Scopes, Progress, Active
<1>12. Notes'
  BY <1>1, <1>3, <1>5, <1>7 DEF IInv, Notes
<1>13. Played'
  <2>1. \A f \in Range(m) : f \in Range(backups') \/ f[1] \in failed' \cup {Tmp} \/ file'[f[1]] = f[2]
    <3>1. \A f \in Range(m) : f \in Range(backups) \/ f[1] \in failed \cup {Tmp} \/ file[f[1]] = f[2]
      BY <1>1, <1>2, <1>4 DEF IInv, Played, m
    <3>2. e[1] \in failed' \cup {Tmp} /\ failed \subseteq failed'
      BY <1>1, <1>4 DEF Saved
    <3> QED BY <1>4, <1>9, <3>1, <3>2
  <2>2. Range(backups') \subseteq Range(m)
    BY <1>1, <1>2, <1>4 DEF IInv, Played, m
  <2>3. phase = "abort" => \A f \in failed' : file'[f] \in {0, Files0'[f]}
    <3> SUFFICES ASSUME phase = "abort", NEW f \in failed' PROVE file'[f] \in {0, Files0'[f]}
      OBVIOUS
    <3>1. file' = [file EXCEPT ![e[1]] = 0] /\ Files0' = Files0 /\ file \in [File -> Version]
      BY <1>1, <1>8 DEF TypeOK
    <3>2. f \in File /\ (f = e[1] \/ file[f] \in {0, Files0[f]})
      BY <1>1 DEF IInv, Played, TypeOK
    <3> QED BY <3>1, <3>2
  <2> QED BY <1>1, <1>2, <1>3, <1>4, <1>5, <2>1, <2>2, <2>3 DEF IInv, Played, m
<1>14. Logs' /\ Files'
  BY <1>1, <1>2, <1>3, <1>7, <1>8 DEF IInv, Logs, Files, Complete
<1>15. Parent'
  BY <1>1, <1>2, <1>3, <1>7, <1>8 DEF IInv, Parent, KnownTo
<1>30. Copies'
  BY <1>1, <1>5, CopiesSame DEF Undoable
<1>20. (phase = "rollback" \/ Still) /\ Logs0' = Logs0
  BY <1>7, <1>8 DEF Still
<1> QED BY <1>10, <1>11, <1>12, <1>13, <1>14, <1>15, <1>20, <1>30 DEF IInv

LEMMA UnlinkBackupsNext == ASSUME TypeOK, IInv, UnlinkBackups 
    PROVE IInv' /\ Logs0' = Logs0 /\ \A f \in Store \ failed : Files0'[f] = Files0[f]
<1> USE DEF history, memory
<1>1. /\ step = "playback" /\ entries = <<>> /\ backups = <<>> /\ step' = "unlinked"
      /\ bak' = [bak EXCEPT ![Playing] = NoFile]
      /\ UNCHANGED <<log, file, jrn, copy, tmp, phase, tr, scope, entries, backups, todo, buf,
                     wrote, gens, parent, before, exact, failed>>
      /\ lost' = (IF exact THEN lost \cup (failed \cap Store) ELSE lost)
      /\ torn' = (IF phase = "recover" /\ Dirstate \in failed THEN torn \cup {"dirstate"} ELSE torn)
  BY DEF UnlinkBackups, Lose
<1>2. /\ Playback /\ ~InProgress /\ ~Replaced /\ phase # "idle" /\ ~Active
      /\ \/ phase = "rollback" /\ Playing = "undo" /\ ~Recoverable /\ bak[Playing] = V
         \/ phase \in {"abort", "recover"} /\ Playing = "journal" /\ Recoverable /\ bak[Playing] = B
      /\ bak[Playing] \in Seq(Saved) \cup {NoFile} /\ (bak[Playing] # NoFile => Clear(bak[Playing]))
  BY <1>1, InPlayback
<1>3. /\ ~InProgress' /\ ~Replaced' /\ Playing' = Playing /\ (Recoverable' <=> Recoverable)
      /\ Playback' /\ ~Active'
  BY <1>1, <1>2 DEF InProgress, Replaced, Playing, Recoverable, Playback, Active
<1>4. /\ J' = J /\ U' = U
      /\ phase = "rollback" => B' = B /\ V' = NoFile
      /\ phase # "rollback" => B' = NoFile /\ V' = V
  BY <1>1, <1>2 DEF J, U, B, V, TypeOK, Name
<1>5. (\A f \in File \ failed : FilesBack(file, bak[Playing])[f] = file[f]) /\ FilesBack(file, NoFile) = file
  <2>1. file \in [File -> Version] /\ Range(<<>>) = {}
    BY RangeType DEF TypeOK
  <2>2. bak[Playing] # NoFile =>
            \A e \in Range(bak[Playing]) : e[1] \in failed \cup {Tmp} \/ file[e[1]] = e[2]
    BY <1>1, <1>2, <2>1 DEF IInv, Played
  <2>3. CASE bak[Playing] = NoFile
    BY <2>1, <2>3, BackNothing
  <2>4. CASE bak[Playing] # NoFile
    BY <1>2, <2>1, <2>2, <2>4, AllPut, BackNothing
  <2> QED BY <2>3, <2>4
<1>6. Logs0' = Logs0 /\ Logs1' = Logs1
  BY <1>1, <1>3, <1>4 DEF Logs0, Logs1
<1>7. \A f \in File \ failed : Files0'[f] = Files0[f] /\ Files1'[f] = Files1[f]
  <2>1. CASE phase = "rollback"
    <3>1. Files0 = file /\ Files0' = file /\ Files1 = FilesBack(file, V) /\ Files1' = FilesBack(file, NoFile)
      BY <1>1, <1>2, <1>3, <1>4, <2>1 DEF Files0, Files1
    <3> QED BY <1>2, <1>5, <2>1, <3>1
  <2>2. CASE phase # "rollback"
    <3>1. Files0 = FilesBack(file, B) /\ Files0' = FilesBack(file, NoFile)
      BY <1>1, <1>2, <1>3, <1>4, <2>2 DEF Files0
    <3>2. \A f \in File \ failed : Files0'[f] = Files0[f]
      BY <1>2, <1>5, <2>2, <3>1
    <3> QED BY <1>4, <2>2, <3>2 DEF Files1, FilesBack
  <2> QED BY <2>1, <2>2
<1>8. Shape'
  BY <1>1, <1>2, <1>3, <1>4 DEF IInv, Shape
<1>9. Scopes' /\ Progress'
  BY <1>1, <1>2, <1>3 DEF Scopes, Progress, Active
<1>10. Notes'
  BY <1>1, <1>3, <1>4, <1>6 DEF IInv, Notes
<1>11. Played'
  <2>1. Range(entries) = {}
    BY <1>1, RangeType
  <2>2. phase = "abort" => Files0' = file
    <3>1. phase = "abort" => B' = NoFile /\ Recoverable' /\ file' = file
      BY <1>1, <1>2, <1>3, <1>4
    <3> QED BY <1>5, <3>1 DEF Files0
  <2> QED BY <1>1, <1>2, <1>3, <2>1, <2>2 DEF IInv, Played
<1>12. Logs' /\ Files'
  <2>1. "store" \in torn' <=> "store" \in torn
    BY <1>1
  <2>2. exact => Store \ lost' = (Store \ lost) \ failed
    BY <1>1
  <2> QED BY <1>1, <1>2, <1>3, <1>6, <1>7, <2>1, <2>2, Kinds DEF IInv, Logs, Files, Complete
<1>13. Parent'
  <2>1. "dirstate" \notin torn' => "dirstate" \notin torn /\ (phase = "recover" => Dirstate \notin failed)
    BY <1>1
  <2>2. "dirstate" \notin torn' /\ phase # "rollback" => Files0'[Dirstate] \in KnownTo(Logs0)
    <3> SUFFICES ASSUME "dirstate" \notin torn', phase # "rollback"
                 PROVE  Files0'[Dirstate] \in KnownTo(Logs0)
      OBVIOUS
    <3>1. Files0[Dirstate] \in KnownTo(Logs0)
      BY <2>1 DEF IInv, Parent
    <3>2. CASE Dirstate \notin failed
      BY <1>7, <3>1, <3>2, Kinds
    <3>3. CASE Dirstate \in failed
      <4>1. phase = "abort" /\ Files0' = file
        <5>1. phase = "abort" /\ B' = NoFile /\ Recoverable' /\ file' = file
          BY <1>1, <1>2, <1>3, <1>4, <2>1, <3>3
        <5> QED BY <1>5, <5>1 DEF Files0
      <4>2. file[Dirstate] \in {0, Files0[Dirstate]}
        BY <3>3, <4>1 DEF IInv, Played
      <4> QED BY <3>1, <4>1, <4>2 DEF KnownTo
    <3> QED BY <3>2, <3>3
  <2> QED BY <1>1, <1>2, <1>3, <1>6, <2>1, <2>2 DEF IInv, Parent, KnownTo
<1>30. Copies'
  BY <1>1, <1>2, <1>4, CopiesSame DEF Undoable
<1>20. Logs0' = Logs0 /\ \A f \in Store \ failed : Files0'[f] = Files0[f]
  BY <1>6, <1>7, Kinds
<1> QED BY <1>8, <1>9, <1>10, <1>11, <1>12, <1>13, <1>20, <1>30 DEF IInv

LEMMA UnlinkJournalNext == ASSUME TypeOK, IInv, UnlinkJournal PROVE IInv' /\ Still
<1> USE DEF history
<1>1. /\ step = "unlinked" /\ step' = "dropped" /\ jrn' = [jrn EXCEPT ![Playing] = NoFile]
      /\ todo' = (IF phase = "rollback" THEN SetToSeq(Gen) ELSE <<>>)
      /\ UNCHANGED <<log, file, bak, copy, tmp, phase, tr, scope, entries, backups, buf,
                     wrote, gens, parent, before, exact, torn, failed, lost>>
  BY DEF UnlinkJournal
<1>2. /\ Playback /\ ~InProgress /\ ~Replaced /\ phase # "idle" /\ ~Active
      /\ \/ phase = "rollback" /\ Playing = "undo" /\ ~Recoverable /\ jrn[Playing] = U /\ J = NoFile
         \/ phase \in {"abort", "recover"} /\ Playing = "journal" /\ Recoverable /\ jrn[Playing] = J
      /\ jrn[Playing] \in Seq(Entry) /\ jrn[Playing] # NoFile /\ Clear(jrn[Playing])
  BY <1>1, InPlayback
<1>3. /\ B' = B /\ V' = V /\ J' = NoFile
      /\ phase = "rollback" => U' = NoFile
      /\ phase # "rollback" => U' = U
  BY <1>1, <1>2 DEF J, U, B, V, TypeOK, Name
<1>4. ~InProgress' /\ ~Replaced' /\ ~Recoverable' /\ Playback' /\ ~Active'
  BY <1>1, <1>2, <1>3 DEF InProgress, Replaced, Recoverable, Playback, Active, J
<1>5. log \in [Log -> Seq(Version)] /\ file \in [File -> Version]
  BY DEF TypeOK
<1>6. LogsBack(log, jrn[Playing]) = log /\ LogsBack(log, NoFile) = log
  <2>1. \A e \in Range(jrn[Playing]) : Len(log[e[1]]) = e[2]
    BY <1>1, <1>2 DEF IInv, Played
  <2> QED BY <1>2, <1>5, <2>1, AllCut, BackNothing
<1>7. Logs0' = Logs0 /\ Logs0 = log
  BY <1>1, <1>2, <1>4, <1>6 DEF Logs0
<1>8. Logs1' = Logs1
  <2>1. CASE phase = "rollback"
    BY <1>2, <1>3, <1>6, <1>7, <2>1 DEF Logs1
  <2>2. CASE phase # "rollback"
    BY <1>3, <1>7, <2>2 DEF Logs1
  <2> QED BY <2>1, <2>2
<1>9. Files0' = Files0 /\ Files1' = Files1
  <2>1. phase # "rollback" => B = NoFile
    BY <1>1, <1>2 DEF IInv, Shape
  <2>2. Files0' = Files0
    BY <1>1, <1>2, <1>4, <1>5, <2>1, BackNothing DEF Files0
  <2> QED BY <1>3, <2>2 DEF Files1
<1>10. Shape'
  <2>1. phase = "rollback" =>
           IsInjective(todo') /\ Range(todo') \subseteq Copied /\ Dirstate \notin Range(todo')
    BY <1>1, ToRename, Kinds
  <2> QED BY <1>1, <1>2, <1>3, <1>4, <2>1 DEF IInv, Shape
<1>11. Scopes' /\ Progress' /\ Played'
  BY <1>1, <1>2, <1>4, <1>9 DEF IInv, Scopes, Progress, Active, Played
<1>12. Notes'
  BY <1>1, <1>3, <1>4, <1>7 DEF IInv, Notes
<1>13. Logs' /\ Files' /\ Parent'
  BY <1>1, <1>2, <1>4, <1>7, <1>8, <1>9 DEF IInv, Logs, Files, Complete, Parent, KnownTo
<1>30. Copies'
  BY <1>1, <1>2, <1>3, CopiesSame DEF Undoable
<1>20. Still
  BY <1>7, <1>9 DEF Still
<1> QED BY <1>10, <1>11, <1>12, <1>13, <1>20, <1>30 DEF IInv

LEMMA RestoreCopyNext == ASSUME TypeOK, IInv, RestoreCopy PROVE IInv' /\ Logs0' = Logs0
<1> USE DEF history
<1> DEFINE h == Head(todo)
<1>1. /\ phase = "rollback" /\ step = "dropped" /\ todo # <<>> /\ todo' = Tail(todo)
      /\ \/ copy["undo"][h] = NoFile /\ UNCHANGED <<file, copy, lost>>
         \/ /\ copy["undo"][h] # NoFile
            /\ file' = [file EXCEPT ![h] = copy["undo"][h]]
            /\ copy' = [copy EXCEPT !["undo"][h] = NoFile] /\ lost' = lost \ {h}
      /\ UNCHANGED <<log, jrn, bak, tmp, phase, step, tr, scope, entries, backups, buf, wrote,
                     gens, parent, before, exact, torn, failed>>
  BY DEF RestoreCopy
<1>2. /\ IsInjective(todo) /\ Range(todo) \subseteq Copied /\ Dirstate \notin Range(todo)
      /\ J = NoFile /\ U = NoFile /\ V = NoFile
  BY <1>1 DEF IInv, Shape
<1>3. h \in Gen /\ Range(todo') \subseteq Range(todo) /\ IsInjective(todo')
  <2>1. todo \in Seq(File \cup {Changelog})
    BY DEF TypeOK
  <2> QED BY <1>1, <1>2, <2>1, HeadTail, Kinds
<1> HIDE DEF h
<1>4. J' = J /\ U' = U /\ B' = B /\ V' = V
  BY <1>1 DEF J, U, B, V
<1>5. ~InProgress' /\ ~Replaced' /\ ~Replaced /\ ~Recoverable /\ ~Recoverable'
  BY <1>1, <1>2, <1>4 DEF InProgress, Recoverable, Replaced, J
<1>6. Logs0' = Logs0 /\ Logs1' = Logs1
  BY <1>1, <1>4, <1>5 DEF Logs0, Logs1
<1>7. \A f \in File : Files1[f] = file[f] /\ Files1'[f] = file'[f]
  <2>1. Files0 = file /\ Files0' = file'
    BY <1>5 DEF Files0
  <2> QED BY <1>2, <1>4, <2>1, NothingNoted DEF Files1, FilesBack
<1>8. /\ \A f \in File : file'[f] = file[f] \/ (f = h /\ copy["undo"][h] # NoFile /\ file'[f] = copy["undo"][h])
      /\ lost' = lost \/ (lost' = lost \ {h} /\ copy["undo"][h] # NoFile /\ file'[h] = copy["undo"][h])
      /\ \A f \in Copied : copy'["undo"][f] = copy["undo"][f] \/ (f = h /\ copy'["undo"][f] = NoFile)
  <2>1. file \in [File -> Version] /\ copy \in [Name -> [Copied -> Version \cup {NoFile}]]
    BY DEF TypeOK
  <2>2. CASE UNCHANGED <<file, copy, lost>>
    BY <2>2
  <2>3. CASE /\ copy["undo"][h] # NoFile
             /\ file' = [file EXCEPT ![h] = copy["undo"][h]]
             /\ copy' = [copy EXCEPT !["undo"][h] = NoFile] /\ lost' = lost \ {h}
    <3>1. copy["undo"] \in [Copied -> Version \cup {NoFile}]
      BY <2>1 DEF Name
    <3>2. copy'["undo"] = [copy["undo"] EXCEPT ![h] = NoFile]
      BY <2>1, <2>3 DEF Name
    <3> QED BY <1>3, <2>1, <2>3, <3>1, <3>2, Kinds
  <2> QED BY <1>1, <2>2, <2>3
<1>9. Shape'
  BY <1>1, <1>2, <1>3, <1>4 DEF IInv, Shape, Active, Playback, InProgress, Replaced
<1>10. Scopes' /\ Notes' /\ Played' /\ Progress'
  BY <1>1, <1>4, <1>5, <1>6 DEF IInv, Scopes, Notes, Played, Progress
<1>11. Logs'
  BY <1>1, <1>5, <1>6 DEF IInv, Logs, Complete
<1>12. Files'
  <2>1. exact => \A f \in Store \ lost : file[f] = before.file[f]
    BY <1>7, Kinds DEF IInv, Files
  <2>2. exact => \A f \in Gen : copy["undo"][f] \in {NoFile, before.file[f]}
    BY DEF IInv, Files
  <2>3. exact => \A f \in Store \ lost' : file'[f] = before.file[f]
    BY <1>3, <1>8, <2>1, <2>2, Kinds
  <2>4. exact => \A f \in Gen : copy'["undo"][f] \in {NoFile, before.file[f]}
    BY <1>8, <2>2, Kinds
  <2> QED BY <1>1, <1>5, <1>7, <2>3, <2>4, Kinds DEF Files
<1>13. Parent'
  <2>1. copy'["undo"][Dirstate] = copy["undo"][Dirstate]
    BY <1>3, <1>8, Kinds
  <2> QED BY <1>1, <1>5, <1>6, <2>1 DEF IInv, Parent, KnownTo
<1>30. Copies'
  <2>1. copy'["undo"][Dirstate] = copy["undo"][Dirstate]
    BY <1>3, <1>8, Kinds
  <2> QED BY <1>1, <1>4, <2>1, CopiesSame DEF Undoable
<1>20. Logs0' = Logs0
  BY <1>6
<1> QED BY <1>9, <1>10, <1>11, <1>12, <1>13, <1>20, <1>30 DEF IInv

-----------------------------------------------------------------------------
(* The invariant holds                                                     *)

LEMMA InvInit == Init => IInv
<1> SUFFICES ASSUME Init PROVE IInv
  OBVIOUS
<1>1. /\ log = [l \in Log |-> <<>>] /\ file = [f \in File |-> 0]
      /\ J = NoFile /\ U = NoFile /\ B = NoFile /\ V = NoFile
      /\ copy = [n \in Name |-> [f \in Copied |-> NoFile]]
      /\ phase = "idle" /\ step = "" /\ scope = NoScope /\ entries = <<>> /\ backups = <<>>
      /\ todo = <<>> /\ buf = "none" /\ wrote = {} /\ gens = {} /\ parent = 0
      /\ exact = FALSE /\ torn = {} /\ failed = {} /\ lost = {}
  BY DEF Init, J, U, B, V, Name
<1>2. ~Recoverable /\ ~InProgress /\ ~Replaced /\ ~Active /\ ~Playback
  BY <1>1 DEF Recoverable, J, InProgress, Replaced, Active, Playback
<1>3. log \in [Log -> Seq(Version)] /\ file \in [File -> Version]
  BY TypesInit DEF TypeOK
<1>4. Logs0 = log /\ Files0 = file
  BY <1>2 DEF Logs0, Files0
<1>5. Logs1 = log
  BY <1>1, <1>3, <1>4, BackNothing DEF Logs1
<1>6. Shape
  BY <1>1, <1>2, Kinds DEF Shape
<1>7. Scopes /\ Notes /\ Played /\ Progress
  BY <1>1, <1>2 DEF Scopes, Notes, Played, Progress
<1>8. Complete(log)
  <2>1. Range(log[Changelog]) = {}
    BY <1>1, RangeType, Kinds
  <2> QED BY <2>1 DEF Complete
<1>9. Logs /\ Files
  BY <1>1, <1>2, <1>4, <1>5, <1>8 DEF Logs, Files
<1>10. Parent
  <2>1. file[Dirstate] = 0 /\ copy["undo"][Dirstate] = NoFile
    BY <1>1, Kinds DEF Name
  <2> QED BY <1>1, <1>2, <1>4, <2>1 DEF Parent, KnownTo
<1>11. Copies
  BY <1>1 DEF Copies, Undoable, DirstateDue
<1> QED BY <1>6, <1>7, <1>9, <1>10, <1>11 DEF IInv

LEMMA InvNext == ASSUME TypeOK, IInv, Faults, Next PROVE IInv'
<1>1. ASSUME NEW l \in Log, Add(l) \/ WriteData(l) PROVE IInv'
  BY <1>1, AddNext, WriteDataNext
<1>2. CASE Begin \/ OpenJournal \/ OpenBackups
  BY <1>2, BeginNext, OpenJournalNext, OpenBackupsNext
<1>3. CASE (\E f \in File : AddGenerator(f)) \/ SetParent \/ Nest \/ CloseInner \/ ReleaseInner
  BY <1>3, InsideNext
<1>4. CASE WriteChangeset \/ WritePending
  BY <1>4, WriteChangesetNext, WritePendingNext
<1>5. CASE Close \/ AddBackup \/ Generate \/ Finalize \/ CleanUp \/ OpenUndo \/ CloseUndo
  BY <1>5, CloseNext, AddBackupNext, GenerateNext, FinalizeNext, CleanUpNext, WriteUndoNext
<1>6. CASE RenameJournal \/ RenameCopy \/ DropBackups \/ Release
  BY <1>6, RenameJournalNext, RenameCopyNext, DropBackupsNext, ReleaseNext
<1>7. CASE Abort \/ CloseIncomplete \/ Recover \/ Rollback
  BY <1>7, AbortNext, StartNext
<1>8. CASE Truncate \/ Restore \/ RestoreFails \/ UnlinkBackups \/ UnlinkJournal
  BY <1>8, TruncateNext, RestoreNext, RestoreFailsNext, UnlinkBackupsNext, UnlinkJournalNext
<1>9. CASE AbortFails \/ EndAbort \/ EndRecover \/ RestoreCopy \/ EndRollback
  BY <1>9, AbortFailsNext, EndAbortNext, DieNext, RestoreCopyNext, EndRollbackNext
<1>10. CASE Update \/ Die
  BY <1>10, UpdateNext, DieNext
<1> QED BY <1>1, <1>2, <1>3, <1>4, <1>5, <1>6, <1>7, <1>8, <1>9, <1>10 DEF Next

\* A step that changes nothing.
LEMMA InvStutter == ASSUME TypeOK, IInv, UNCHANGED vars PROVE TypeOK' /\ IInv' /\ Still
<1> USE DEF vars, disk, memory, history
<1>1. UNCHANGED <<J, U, B, V, Logs0, Logs1, Files0, Files1>>
  <2>1. Recoverable' <=> Recoverable
    BY DEF Recoverable
  <2> QED BY <2>1, SameViews
<1>2. TypeOK'
  BY DEF TypeOK
<1>3. Shape' /\ Scopes' /\ Notes' /\ Played'
  <2>1. Shape' /\ Scopes'
    BY <1>1 DEF IInv, Shape, Scopes, Active, Playback, InProgress, Replaced
  <2>2. Notes'
    BY <1>1 DEF IInv, Notes, Recoverable
  <2>3. Played'
    BY <1>1 DEF IInv, Played, Playback, Playing
  <2> QED BY <2>1, <2>2, <2>3
<1>4. Progress'
  BY <1>1 DEF IInv, Progress, InProgress, Appended, Generated, New
<1>5. Logs' /\ Files' /\ Parent' /\ Copies'
  <2>4. Copies'
    BY <1>1 DEF IInv, Copies, Undoable, DirstateDue
  <2>1. Logs'
    BY <1>1 DEF IInv, Logs, Complete, KnownTo, InProgress, Replaced
  <2>2. Files'
    BY <1>1 DEF IInv, Files, KnownTo, InProgress, Replaced
  <2>3. Parent'
    BY <1>1 DEF IInv, Parent, KnownTo, InProgress, Replaced
  <2> QED BY <2>1, <2>2, <2>3, <2>4
<1> QED BY <1>1, <1>2, <1>3, <1>4, <1>5 DEF IInv, Still

LEMMA Invariance == ASSUME Faults PROVE Spec => [](TypeOK /\ IInv)
<1>1. Init => TypeOK /\ IInv
  BY TypesInit, InvInit
<1>2. TypeOK /\ IInv /\ [Next]_vars => (TypeOK /\ IInv)'
  BY TypesNext, InvNext, InvStutter
<1> QED BY <1>1, <1>2, PTL DEF Spec

\* Every variable always has its type.
THEOREM TypeCorrect == ASSUME Faults PROVE Spec => []TypeOK
BY Invariance, PTL

\* No transaction is committed one of whose nested scopes was left without
\* having been closed (transaction.nest, close, release).
THEOREM NestedWholeHolds == ASSUME Faults PROVE Spec => []NestedWhole
<1>1. IInv => NestedWhole
  BY DEF IInv, Scopes, NestedWhole
<1> QED BY <1>1, Invariance, PTL

\* After commands, aborts, crashes and recoveries the working directory is
\* based on a changeset that exists, although the dirstate is no part of the
\* store (releasefn, _rollback, recover).  Excepted are three mishaps, until
\* an exact rollback has ended: a rollback was killed; one went back over a
\* commit that was killed between renaming the journal and journal.dirstate;
\* recover could not restore the dirstate, and went on.
THEOREM DirstateKnownHolds == ASSUME Faults PROVE Spec => []DirstateKnown
<1>1. ASSUME TypeOK, IInv PROVE DirstateKnown
  <2> SUFFICES ASSUME phase = "idle", J = NoFile, "dirstate" \notin torn
               PROVE  file[Dirstate] \in Known
    BY DEF DirstateKnown, J
  <2>1. ~Recoverable
    BY DEF Recoverable, J
  <2>2. Logs0 = log /\ Files0 = file
    BY <2>1 DEF Logs0, Files0
  <2> QED BY <1>1, <2>2 DEF IInv, Parent, KnownTo, Known
<1>2. TypeOK /\ IInv => DirstateKnown
  BY <1>1
<1> QED BY <1>2, Invariance, PTL

\* Readers, who take no lock, find the data of every changeset they see,
\* whenever no playback is going on or due (delayupdate, _finalize).
THEOREM VisibleCompleteHolds == ASSUME Faults PROVE Spec => []VisibleComplete
<1>1. ASSUME TypeOK, IInv PROVE VisibleComplete
  <2> SUFFICES ASSUME "store" \notin torn, ~Playback, ~(phase = "idle" /\ J # NoFile)
               PROVE  Complete(log)
    BY DEF VisibleComplete, Playback, J, Complete
  <2>1. Complete(Logs0)
    BY <1>1 DEF IInv, Logs, Playback
  <2>2. CASE InProgress
    <3>1. \A l \in Log : Range(log[l]) = Range(Logs0[l]) \cup (IF Appended(l) THEN {tr} ELSE {})
      <4>1. \A l \in Log : log[l] = IF Appended(l) THEN Append(Logs0[l], tr) ELSE Logs0[l]
        BY <1>1, <2>2 DEF IInv, Progress
      <4>2. \A l \in Log : Range(Append(Logs0[l], tr)) = Range(Logs0[l]) \cup {tr}
        BY <1>1, ViewTypes, Parts, RangeAppend DEF IInv
      <4> QED BY <4>1, <4>2
    <3>2. Appended(Changelog) => \A d \in Data : Appended(d)
      <4>1. CASE phase = "transaction"
        BY <1>1, <4>1 DEF IInv, Progress, Appended
      <4>2. CASE phase # "transaction"
        BY <1>1, <2>2, <4>2, Kinds DEF IInv, Progress, Appended, InProgress
      <4> QED BY <4>1, <4>2
    <3>3. tr > 0
      BY <1>1, <2>2 DEF IInv, Shape, Active, InProgress
    <3> QED BY <2>1, <3>1, <3>2, <3>3, Kinds DEF Complete
  <2>3. CASE ~InProgress
    <3>1. ~Recoverable
      BY <1>1, <2>3 DEF IInv, Shape, InProgress, Playback, Replaced, Recoverable, J, TypeOK, Phase
    <3> QED BY <2>1, <3>1 DEF Logs0
  <2> QED BY <2>2, <2>3
<1>2. TypeOK /\ IInv => VisibleComplete
  BY <1>1
<1> QED BY <1>2, Invariance, PTL

\* `hg rollback' brings back the store from before the last commit, whatever
\* was begun, aborted, killed and recovered since then (localrepo._rollback),
\* for as long as undo is complete and about that commit, and but for files
\* that could not be restored and went unnoticed: where exact and lost of the
\* model say so.
THEOREM RollbackExactHolds == ASSUME Faults PROVE Spec => RollbackExact
<1> DEFINE Back == phase = "rollback" /\ step = "dropped" /\ exact /\ ~exact'
                     => log' = before.log /\ \A f \in Store \ lost : file'[f] = before.file[f]
<1>1. ASSUME TypeOK, IInv, Next PROVE Back
  <2> SUFFICES ASSUME phase = "rollback", step = "dropped", exact, ~exact'
               PROVE  log' = before.log /\ \A f \in Store \ lost : file'[f] = before.file[f]
    OBVIOUS
  <2>1. EndRollback
    BY <1>1 DEF Next, Begin, OpenJournal, OpenBackups, Add, WriteData, WriteChangeset, WritePending,
         SetParent, AddGenerator, Nest, CloseInner, ReleaseInner, Close, AddBackup, Generate,
         Finalize, CleanUp, OpenUndo, CloseUndo, RenameJournal, RenameCopy, DropBackups, Release,
         Abort, CloseIncomplete, Recover, Rollback, Truncate, Restore, RestoreFails,
         UnlinkBackups, UnlinkJournal, Lose,
         AbortFails, EndAbort, EndRecover, RestoreCopy, Update, Die, Open, history
  <2>2. J = NoFile /\ U = NoFile /\ V = NoFile
    BY <1>1 DEF IInv, Shape
  <2>3. ~Recoverable
    BY <2>2 DEF Recoverable, J
  <2>4. Logs1 = log /\ Files1 = file
    BY <1>1, <2>2, <2>3, BackNothing DEF Logs1, Files1, Logs0, Files0, TypeOK
  <2>5. log = before.log /\ \A f \in Store \ lost : file[f] = before.file[f]
    BY <1>1, <2>4 DEF IInv, Logs, Files
  <2>6. log' = log /\ \A f \in Store : file'[f] = file[f]
    BY <1>1, <2>1, Kinds DEF EndRollback, TypeOK
  <2> QED BY <2>5, <2>6
<1>2. TypeOK /\ IInv /\ [Next]_vars => [Back]_vars
  BY <1>1
<1> QED BY <1>2, Invariance, PTL DEF Spec, RollbackExact

-----------------------------------------------------------------------------
(* Transactions are atomic updates                                         *)

\* The transaction under way, as AtomicUpdate sees it.
Work == IF InProgress
        THEN [id |-> tr, logs |-> wrote, files |-> gens \cap Store]
        ELSE [id |-> 0, logs |-> {}, files |-> {}]

LEMMA RecoveredNext ==
    /\ RecoveredLogs' = [l \in Log |-> Logs0'[l]]
    /\ RecoveredFiles' = [f \in Store |-> Files0'[f]]
<1>1. (RecoveredLogs = [l \in Log |-> Logs0[l]] /\ RecoveredFiles = [f \in Store |-> Files0[f]])'
  BY RecoveredAre, PTL
<1> QED BY <1>1

LEMMA StillUpdate == ASSUME Still PROVE UNCHANGED <<RecoveredLogs, RecoveredFiles>>
BY RecoveredAre, RecoveredNext DEF Still

\* What AtomicUpdate's actions say of a step here.
LEMMA UpdateStutter ==
    ASSUME Still, Work' = Work, (phase = "rollback")' <=> phase = "rollback",
           failed' \cap Store = failed \cap Store
    PROVE  UNCHANGED Update1!vars
BY StillUpdate DEF Update1!vars, Work

LEMMA UpdateStep == ASSUME TypeOK, IInv, Faults, Next PROVE [Update1!Next]_(Update1!vars)
<1> USE DEF memory, disk, history
<1>1. Work # Update1!Nothing <=> InProgress
  <2>1. ASSUME InProgress PROVE Work # Update1!Nothing
    <3>1. tr > 0
      BY <2>1 DEF IInv, Shape, Active, InProgress
    <3>2. Work.id = tr
      BY <2>1 DEF Work
    <3>3. Update1!Nothing.id = 0
      BY DEF Update1!Nothing
    <3> QED BY <3>1, <3>2, <3>3
  <2>2. ASSUME ~InProgress PROVE Work = Update1!Nothing
    BY <2>2 DEF Work, Update1!Nothing
  <2> QED BY <2>1, <2>2
<1>0. InProgress => failed = {}
  BY DEF IInv, Shape, InProgress, Playback
<1>2. CASE Begin \/ OpenJournal
  <2>1. Still
    BY <1>2, BeginNext, OpenJournalNext
  <2>2. ~InProgress /\ ~InProgress' /\ phase # "rollback" /\ phase' # "rollback" /\ failed' = failed
    BY <1>2 DEF Begin, OpenJournal, InProgress
  <2> QED BY <2>1, <2>2, UpdateStutter DEF Work
<1>3. CASE OpenBackups
  <2>1. Still
    BY <1>3, OpenBackupsNext
  <2>2. ~InProgress /\ InProgress' /\ phase # "rollback" /\ phase' # "rollback"
        /\ wrote' = {} /\ gens' = {} /\ tr' = tr /\ tr > 0 /\ failed' = failed
    BY <1>3 DEF OpenBackups, InProgress, IInv, Shape, Active
  <2>3. Work' = [id |-> tr, logs |-> {}, files |-> {}] /\ Work = [id |-> 0, logs |-> {}, files |-> {}]
    BY <2>2 DEF Work
  <2> HIDE DEF memory, disk, history
  <2>4. Update1!Begin
    BY <2>1, <2>2, <2>3, StillUpdate DEF Update1!Begin, Update1!Nothing, Work
  <2> QED BY <2>4 DEF Update1!Next
<1>4. ASSUME NEW l \in Log, Add(l) PROVE [Update1!Next]_(Update1!vars)
  <2>1. Still
    BY <1>4, AddNext
  <2>2. Work' = Work /\ phase' = phase /\ failed' = failed
    BY <1>4 DEF Add, Open, Work, InProgress
  <2> QED BY <2>1, <2>2, UpdateStutter
<1>5. ASSUME NEW l \in Log, WriteData(l) \/ (WriteChangeset /\ l = Changelog)
      PROVE  [Update1!Next]_(Update1!vars)
  <2>1. Still
    BY <1>5, WriteDataNext, WriteChangesetNext
  <2>2. /\ phase = "transaction" /\ phase' = phase /\ InProgress /\ InProgress' 
        /\ tr' = tr /\ gens' = gens /\ wrote' = wrote \cup {l} /\ failed' = failed
    BY <1>5 DEF WriteData, WriteChangeset, IInv, Shape, InProgress, Playback, TypeOK, Phase
  <2>3. /\ Work = [id |-> tr, logs |-> wrote, files |-> gens \cap Store]
        /\ Work' = [id |-> tr, logs |-> wrote \cup {l}, files |-> gens \cap Store]
    BY <2>2 DEF Work
  <2>4. Work' = [Work EXCEPT !.logs = @ \cup {l}]
    BY <2>3
  <2>5. Update1!Append1(l)
    BY <1>1, <2>1, <2>2, <2>4, StillUpdate DEF Update1!Append1, Work
  <2> QED BY <2>5 DEF Update1!Next
<1>6. ASSUME NEW f \in File, AddGenerator(f) PROVE [Update1!Next]_(Update1!vars)
  <2>1. Still
    BY <1>6, InsideNext
  <2>2. /\ phase = "transaction" /\ phase' = phase /\ InProgress /\ InProgress'
        /\ tr' = tr /\ gens' = gens \cup {f} /\ wrote' = wrote /\ failed' = failed
    BY <1>6 DEF AddGenerator, Open, InProgress
  <2>3. /\ Work = [id |-> tr, logs |-> wrote, files |-> gens \cap Store]
        /\ Work' = [id |-> tr, logs |-> wrote, files |-> (gens \cup {f}) \cap Store]
    BY <2>2 DEF Work
  <2>4. CASE f \in Store
    <3>1. Work' = [Work EXCEPT !.files = @ \cup {f}]
      BY <2>3, <2>4
    <3>2. Update1!Replace1(f)
      BY <1>1, <2>1, <2>2, <3>1, StillUpdate DEF Update1!Replace1, Work
    <3> QED BY <2>4, <3>2 DEF Update1!Next
  <2>5. CASE f \notin Store
    <3>1. Work' = Work
      BY <2>3, <2>5
    <3> QED BY <2>1, <2>2, <3>1, UpdateStutter
  <2> QED BY <2>4, <2>5
<1>7. CASE WritePending \/ SetParent \/ Nest \/ CloseInner \/ ReleaseInner
  <2>1. Still
    BY <1>7, WritePendingNext, InsideNext
  <2>2. Work' = Work /\ phase' = phase /\ failed' = failed
    BY <1>7 DEF WritePending, SetParent, Nest, CloseInner, ReleaseInner, Open, Work, InProgress
  <2> QED BY <2>1, <2>2, UpdateStutter
<1>8. CASE Close \/ AddBackup \/ Generate \/ Finalize \/ CleanUp \/ OpenUndo \/ CloseUndo
  <2>1. Still
    BY <1>8, CloseNext, AddBackupNext, GenerateNext, FinalizeNext, CleanUpNext, WriteUndoNext
  <2>2. /\ InProgress /\ InProgress' /\ phase # "rollback" /\ phase' # "rollback"
        /\ UNCHANGED <<tr, wrote, gens, failed>>
    BY <1>8 DEF Close, AddBackup, Generate, Finalize, CleanUp, OpenUndo, CloseUndo, Open, InProgress
  <2>3. Work' = Work
    BY <2>2 DEF Work
  <2> QED BY <2>1, <2>2, <2>3, UpdateStutter
<1>9. CASE RenameJournal
  <2>1. Logs0' = log /\ Files0' = file
    BY <1>9, RenameJournalNext
  <2>2. /\ phase = "after" /\ step = "" /\ phase' = phase /\ InProgress /\ ~InProgress'
        /\ failed' = failed
    BY <1>9 DEF RenameJournal, InProgress
  <2>3. RecoveredLogs' = [l \in Log |-> IF l \in wrote THEN Append(RecoveredLogs[l], tr) ELSE RecoveredLogs[l]]
    <3>1. \A l \in Log : Logs0'[l] = IF l \in wrote THEN Append(RecoveredLogs[l], tr) ELSE RecoveredLogs[l]
      BY <2>1, <2>2, Appending, RecoveredAre
    <3> QED BY <3>1, RecoveredNext
  <2>4. RecoveredFiles' = [f \in Store |-> IF f \in gens \cap Store THEN tr ELSE RecoveredFiles[f]]
    <3>1. todo = <<>>
      BY <2>2 DEF IInv, Progress
    <3>2. Range(todo) = {}
      BY <3>1 DEF Range
    <3>3. \A f \in Store : Files0'[f] = IF f \in gens \cap Store THEN tr ELSE RecoveredFiles[f]
      BY <2>1, <2>2, <3>2, RecoveredAre, Kinds DEF IInv, Progress, Generated, New
    <3> QED BY <3>3, RecoveredNext
  <2>5. Work = [id |-> tr, logs |-> wrote, files |-> gens \cap Store] /\ Work' = Update1!Nothing
    BY <2>2 DEF Work, Update1!Nothing
  <2>6. Work.id = tr /\ Work.logs = wrote /\ Work.files = gens \cap Store
    BY <2>5
  <2>7. Update1!Commit
    BY <1>1, <2>2, <2>3, <2>4, <2>5, <2>6 DEF Update1!Commit, Work
  <2> QED BY <2>7 DEF Update1!Next
<1>10. CASE RenameCopy \/ DropBackups \/ Release
  <2>1. Still
    BY <1>10, RenameCopyNext, DropBackupsNext, ReleaseNext
  <2>2. ~InProgress /\ ~InProgress' /\ phase # "rollback" /\ phase' # "rollback" /\ failed' = failed
    BY <1>10 DEF RenameCopy, DropBackups, Release, Forget, InProgress
  <2>3. Work' = Work
    BY <2>2 DEF Work
  <2> QED BY <2>1, <2>2, <2>3, UpdateStutter
<1>11. CASE Abort \/ CloseIncomplete
  <2>1. Still
    BY <1>11, AbortNext
  <2>2. InProgress /\ ~InProgress' /\ phase # "rollback" /\ phase' # "rollback" /\ failed' = failed
    BY <1>11 DEF Abort, CloseIncomplete, Open, InProgress
  <2>3. Work' = Update1!Nothing
    BY <2>2 DEF Work, Update1!Nothing
  <2>4. Update1!Abort
    BY <1>1, <2>1, <2>2, <2>3, StillUpdate DEF Update1!Abort, Work
  <2> QED BY <2>4 DEF Update1!Next
<1>12. CASE Recover
  <2>1. Still
    BY <1>12, StartNext
  <2>2. ~InProgress /\ ~InProgress' /\ phase # "rollback" /\ phase' # "rollback" /\ failed' = failed
    BY <1>12 DEF Recover, InProgress
  <2>3. Work' = Work
    BY <2>2 DEF Work
  <2> QED BY <2>1, <2>2, <2>3, UpdateStutter
<1>13. CASE Rollback
  <2>1. Still
    BY <1>13, StartNext
  <2>2. ~InProgress /\ ~InProgress' /\ phase # "rollback" /\ phase' = "rollback" /\ failed = {}
    BY <1>13 DEF Rollback, InProgress, IInv, Shape, Playback
  <2>3. Work' = Work
    BY <2>2 DEF Work
  <2>4. Update1!StartUndo
    BY <1>1, <2>1, <2>2, <2>3, StillUpdate DEF Update1!StartUndo, Work
  <2> QED BY <2>4 DEF Update1!Next
<1>14. CASE Truncate \/ Restore \/ RestoreFails \/ RestoreCopy
  <2>1. /\ ~InProgress /\ ~InProgress' /\ phase' = phase
    BY <1>14 DEF Truncate, Restore, RestoreFails, RestoreCopy, IInv, Shape, InProgress
  <2>2. Work' = Work
    BY <2>1 DEF Work
  <2>3. phase = "rollback" \/ Still
    BY <1>14, TruncateNext, RestoreNext, RestoreFailsNext DEF RestoreCopy
  <2>4. CASE phase # "rollback"
    <3>1. CASE failed' \cap Store = failed \cap Store
      BY <2>1, <2>2, <2>3, <2>4, <3>1, UpdateStutter
    <3>2. CASE failed' \cap Store # failed \cap Store
      <4>1. PICK f \in Store : failed' \cap Store = (failed \cap Store) \cup {f}
        <5>1. failed' = failed \cup ({Head(backups)[1]} \cap File)
          BY <1>14, <3>2 DEF Truncate, Restore, RestoreFails, RestoreCopy
        <5> QED BY <3>2, <5>1
      <4>2. Update1!Fault(f)
        BY <1>1, <2>1, <2>2, <2>3, <2>4, <4>1, StillUpdate DEF Update1!Fault, Work
      <4> QED BY <4>1, <4>2 DEF Update1!Next
    <3> QED BY <3>1, <3>2
  <2>5. CASE phase = "rollback"
    <3>1. \A l \in Log : IsPrefix(Logs0'[l], Logs0[l])
      <4>1. \A l \in Log : IsPrefix(Logs0[l], Logs0[l])
        BY ViewTypes DEF IInv, IsPrefix
      <4>2. CASE Restore \/ RestoreFails \/ RestoreCopy
        BY <4>1, <4>2, RestoreNext, RestoreFailsNext, RestoreCopyNext
      <4>3. CASE Truncate
        <5> DEFINE e == Head(entries)
        <5>1. ~Recoverable /\ ~Recoverable'
          BY <2>5, <4>3 DEF IInv, Shape, Recoverable, J, Truncate
        <5>2. Logs0 = log /\ Logs0' = log'
          BY <5>1 DEF Logs0
        <5>3. e \in Range(entries) /\ entries \in Seq(Entry)
          BY <4>3, HeadTail DEF Truncate, TypeOK
        <5>4. e \in Range(jrn[Playing]) /\ e \in Entry
          BY <4>3, <5>3, RangeType DEF Truncate, IInv, Shape, Active, Played, Playback, TypeOK, Phase
        <5>5. e[1] \in Log /\ e[2] \in Nat /\ e[2] <= Len(log[e[1]])
          BY <4>3, <5>4, InPlayback DEF Truncate, Entry
        <5>6. log \in [Log -> Seq(Version)]
          BY DEF TypeOK
        <5>7. log' = [log EXCEPT ![e[1]] = Cut(log[e[1]], e[2])]
          BY <4>3 DEF Truncate
        <5> HIDE DEF e
        <5>8. IsPrefix(Cut(log[e[1]], e[2]), log[e[1]])
          BY <5>5, <5>6, CutIs
        <5> QED BY <4>1, <5>2, <5>5, <5>6, <5>7, <5>8
      <4> QED BY <1>14, <4>2, <4>3
    <3>2. \A l \in Log : IsPrefix(RecoveredLogs'[l], RecoveredLogs[l])
      BY <3>1, RecoveredAre, RecoveredNext
    <3>3. Update1!Undo
      BY <2>1, <2>2, <2>5, <3>2 DEF Update1!Undo, Update1!IsPrefix, IsPrefix, Work
    <3> QED BY <3>3 DEF Update1!Next
  <2> QED BY <2>4, <2>5
<1>20. CASE UnlinkBackups
  <2>1. Logs0' = Logs0 /\ \A f \in Store \ failed : Files0'[f] = Files0[f]
    BY <1>20, UnlinkBackupsNext
  <2>2. RecoveredLogs' = RecoveredLogs
    BY <2>1, RecoveredAre, RecoveredNext
  <2>3. \A f \in Store \ failed : RecoveredFiles'[f] = RecoveredFiles[f]
    BY <2>1, RecoveredAre, RecoveredNext
  <2>4. /\ ~InProgress /\ ~InProgress' /\ phase' = phase /\ failed' = failed
    BY <1>20 DEF UnlinkBackups, IInv, Shape, InProgress
  <2>5. Work' = Work
    BY <2>4 DEF Work
  <2>6. CASE phase = "rollback"
    <3>1. \A l \in Log : IsPrefix(RecoveredLogs'[l], RecoveredLogs[l])
      BY <2>2, RecoveredAre, ViewTypes DEF IInv, IsPrefix
    <3>2. Update1!Undo
      BY <2>4, <2>5, <2>6, <3>1 DEF Update1!Undo, Update1!IsPrefix, IsPrefix, Work
    <3> QED BY <3>2 DEF Update1!Next
  <2>7. CASE phase # "rollback"
    <3>1. Update1!Lose
      BY <1>1, <2>2, <2>3, <2>4, <2>5, <2>7 DEF Update1!Lose, Work
    <3> QED BY <3>1 DEF Update1!Next
  <2> QED BY <2>6, <2>7
<1>15. CASE UnlinkJournal \/ AbortFails
  <2>1. Still
    BY <1>15, UnlinkJournalNext, AbortFailsNext
  <2>2. /\ ~InProgress /\ ~InProgress' /\ phase' = phase /\ failed' = failed
    BY <1>15 DEF UnlinkJournal, AbortFails, IInv, Shape, InProgress
  <2>3. Work' = Work
    BY <2>2 DEF Work
  <2> QED BY <2>1, <2>2, <2>3, UpdateStutter
<1>16. CASE EndAbort \/ EndRecover \/ Update
  <2>1. Still
    BY <1>16, EndAbortNext, DieNext, UpdateNext
  <2>2. ~InProgress /\ ~InProgress' /\ phase # "rollback" /\ phase' # "rollback"
    BY <1>16 DEF EndAbort, EndRecover, Update, Forget, InProgress
  <2>3. Work' = Work
    BY <2>2 DEF Work
  <2>4. failed' = {}
    BY <1>16 DEF EndAbort, EndRecover, Update, IInv, Shape, Playback
  <2>5. Update1!Retry
    BY <2>1, <2>2, <2>3, <2>4, StillUpdate DEF Update1!Retry, Work
  <2> QED BY <2>5 DEF Update1!Next
<1>17. CASE EndRollback \/ Die
  <2>1. Still
    BY <1>17, EndRollbackNext, DieNext
  <2>2. phase' = "idle" /\ ~InProgress' /\ failed' = {}
    BY <1>17 DEF EndRollback, Die, Forget, InProgress
  <2>3. Work' = Update1!Nothing
    BY <2>2 DEF Work, Update1!Nothing
  <2>4. CASE phase = "rollback"
    <3>1. Work = Work'
      BY <2>2, <2>4 DEF Work, InProgress
    <3>2. Update1!EndUndo
      BY <2>1, <2>2, <2>4, <3>1, StillUpdate DEF Update1!EndUndo, Work
    <3> QED BY <3>2 DEF Update1!Next
  <2>5. CASE phase # "rollback" /\ InProgress
    <3>1. Update1!Abort
      BY <1>0, <1>1, <2>1, <2>2, <2>3, <2>5, StillUpdate DEF Update1!Abort, Work
    <3> QED BY <3>1 DEF Update1!Next
  <2>6. CASE phase # "rollback" /\ ~InProgress
    <3>1. Work' = Work
      BY <2>2, <2>6 DEF Work
    <3>2. Update1!Retry
      BY <2>1, <2>2, <2>6, <3>1, StillUpdate DEF Update1!Retry, Work
    <3> QED BY <3>2 DEF Update1!Next
  <2> QED BY <2>4, <2>5, <2>6
<1>18. (\E l \in Log : Add(l) \/ WriteData(l)) \/ WriteChangeset => [Update1!Next]_(Update1!vars)
  BY <1>4, <1>5, Kinds
<1>19. (\E f \in File : AddGenerator(f)) => [Update1!Next]_(Update1!vars)
  BY <1>6
<1> QED
  BY <1>2, <1>3, <1>7, <1>8, <1>9, <1>10, <1>11, <1>12, <1>13, <1>14, <1>15, <1>16, <1>17,
     <1>18, <1>19, <1>20 DEF Next

LEMMA UpdateInit == Init => Update1!Init
<1> SUFFICES ASSUME Init PROVE Update1!Init
  OBVIOUS
<1>1. ~Recoverable /\ ~InProgress /\ phase # "rollback"
  BY DEF Init, Recoverable, InProgress, Name
<1>2. log = [l \in Log |-> <<>>] /\ file = [f \in File |-> 0] /\ failed = {}
  BY DEF Init
<1>3. RecoveredLogs = [l \in Log |-> <<>>] /\ RecoveredFiles = [f \in Store |-> 0]
  BY <1>1, <1>2, Kinds, RecoveredAre DEF Logs0, Files0
<1> QED BY <1>1, <1>2, <1>3 DEF Update1!Init, Update1!Nothing

\* The store, as `hg recover' would leave it, changes in one step and by all
\* that a transaction wrote, or not at all; only `hg rollback' is seen half
\* done (transaction.close, _abort, localrepo.recover, rollback), and only
\* files that an abort or a recovery could not put back are lost (_playback).
THEOREM UpdatesAreAtomic == ASSUME Faults PROVE Spec => Atomic
<1>1. TypeOK /\ IInv /\ [Next]_vars => [Update1!Next]_(Update1!vars)
  <2> SUFFICES ASSUME TypeOK, IInv, UNCHANGED vars PROVE UNCHANGED Update1!vars
    BY UpdateStep
  <2>1. Work' = Work /\ phase' = phase /\ failed' = failed
    BY DEF vars, memory, history, Work, InProgress
  <2> QED BY <2>1, InvStutter, UpdateStutter
<1> QED BY <1>1, UpdateInit, Invariance, PTL DEF Spec, Atomic, Update1!Spec

=============================================================================
