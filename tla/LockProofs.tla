--------------------------- MODULE LockProofs ---------------------------
(***************************************************************************)
(* Proofs about Lock, for any processes and bounds: types, that no live    *)
(* process leaves a lock file behind, that until a process dies who made   *)
(* the lock file keeps it and who inherits a lock does so from him, and    *)
(* that lock() ends with the lock or an exception.                         *)
(***************************************************************************)
EXTENDS Lock, SequenceTheorems, FiniteSetTheorems, TLAPS

\* What the place of a process says of its lock object.
Shape(p) ==
    /\ pc[p] = "make" => tries[p][Len(tries[p])] > 0
    /\ pc[p] \in {"idle", "make", "read", "test", "dead"} =>
          held[p] = 0 /\ ~parentheld[p] /\ pid[p] = p
    /\ pc[p] \in {"break", "unbreak", "abort"} => Len(tries[p]) >= 2 /\ pid[p] = p
    /\ pc[p] = "releasing" => held[p] = 1 /\ pid[p] = p

\* Nothing is broken unless somebody has died.
NoBreaking == Dead = {} => \A p \in Proc : Len(tries[p]) <= 1

\* The inductive invariant
IInv ==
    /\ TypeOK
    /\ \A p \in Proc : Shape(p)
    /\ NoLeak
    /\ NoBreaking
    /\ FileOwned

-----------------------------------------------------------------------------
(* Sequences of attempts                                                   *)

\* An attempt is used up, a level is entered, a level is left (_trylock).
LEMMA TriesFacts ==
    ASSUME NEW S, NEW q \in Seq(S), q # <<>>, NEW e \in S
    PROVE  /\ Len(q) \in Nat /\ Len(q) >= 1 /\ q[Len(q)] \in S
           /\ [q EXCEPT ![Len(q)] = e] \in Seq(S)
           /\ Len([q EXCEPT ![Len(q)] = e]) = Len(q)
           /\ Append(q, e) \in Seq(S)
           /\ Len(Append(q, e)) = Len(q) + 1
           /\ Append(q, e)[Len(q) + 1] = e
           /\ <<e>> \in Seq(S) /\ Len(<<e>>) = 1 /\ <<e>>[1] = e /\ <<e>> # <<>>
<1>1. Len(q) \in Nat /\ Len(q) >= 1 /\ q[Len(q)] \in S
  OBVIOUS
<1>2. [q EXCEPT ![Len(q)] = e] \in Seq(S) /\ Len([q EXCEPT ![Len(q)] = e]) = Len(q)
  OBVIOUS
<1>3. /\ Append(q, e) \in Seq(S)
      /\ Len(Append(q, e)) = Len(q) + 1
      /\ Append(q, e)[Len(q) + 1] = e
  OBVIOUS
<1>4. <<e>> \in Seq(S) /\ Len(<<e>>) = 1 /\ <<e>>[1] = e /\ <<e>> # <<>>
  OBVIOUS
<1> QED BY <1>1, <1>2, <1>3, <1>4

LEMMA FrontFacts ==
    ASSUME NEW S, NEW q \in Seq(S), Len(q) >= 2
    PROVE  /\ SubSeq(q, 1, Len(q) - 1) \in Seq(S)
           /\ Len(SubSeq(q, 1, Len(q) - 1)) = Len(q) - 1
           /\ SubSeq(q, 1, Len(q) - 1) # <<>>
<1>1. Len(q) \in Nat /\ 1 \in Int /\ Len(q) - 1 \in Int
  OBVIOUS
<1>2. \A i \in 1..(Len(q) - 1) : q[i] \in S
  OBVIOUS
<1>3. /\ SubSeq(q, 1, Len(q) - 1) \in Seq(S)
      /\ Len(SubSeq(q, 1, Len(q) - 1)) = IF 1 <= Len(q) - 1 THEN (Len(q) - 1) - 1 + 1 ELSE 0
  BY <1>1, <1>2, SubSeqProperties
<1> DEFINE r == SubSeq(q, 1, Len(q) - 1)
<1> HIDE DEF r
<1>4. r \in Seq(S) /\ Len(r) = Len(q) - 1
  BY <1>1, <1>3 DEF r
<1>5. r # <<>>
  BY <1>1, <1>4
<1> QED BY <1>4, <1>5 DEF r

-----------------------------------------------------------------------------
(* Initial states                                                          *)

LEMMA InitInv == Init => IInv
<1> SUFFICES ASSUME Init PROVE IInv
  OBVIOUS
<1> USE DEF Init
<1>1. TypeOK
  BY BoundAssumption, SMT DEF TypeOK, Level, Place, Trying
<1>2. \A p \in Proc : Shape(p)
  BY DEF Shape
<1>3. NoLeak
  BY ProcAssumption DEF NoLeak
<1>4. NoBreaking
  BY DEF NoBreaking
<1>5. FileOwned
  BY DEF FileOwned, Made, Uses
<1> QED BY <1>1, <1>2, <1>3, <1>4, <1>5 DEF IInv

-----------------------------------------------------------------------------
(* Numbers of attempts                                                     *)

\* Arithmetic about the length of tries[p].
LEMMA CountFacts ==
    \A n \in Nat : /\ n >= 1 /\ n <= 1 => n = 1
                   /\ n >= 1 /\ n # 1 => n >= 2
                   /\ n = 1 => n <= 1
                   /\ n >= 2 => n # 1
  OBVIOUS

\* While a process tries, it is at some level (_trylock, _testlock).
LEMMA TryingFacts ==
    ASSUME IInv, NEW p \in Proc, pc[p] \in Trying
    PROVE  /\ tries[p] \in Seq(0..Retries) /\ tries[p] # <<>>
           /\ Len(tries[p]) \in 1..(MaxLevel + 1) /\ Top(p) \in Level
           /\ \A n \in 0..Retries : [tries[p] EXCEPT ![Len(tries[p])] = n] \in Seq(0..Retries)
           /\ <<>> \in Seq(0..Retries) /\ Len(<<>>) = 0
           /\ Retries \in 1..Retries /\ <<Retries>> \in Seq(0..Retries)
           /\ Len(<<Retries>>) = 1 /\ <<Retries>>[1] = Retries /\ <<Retries>> # <<>>
           /\ Dead = {} => Len(tries[p]) = 1
<1>1. tries[p] \in Seq(0..Retries) /\ tries[p] # <<>> /\ Len(tries[p]) <= MaxLevel + 1
  BY DEF IInv, TypeOK
<1>2. Len(tries[p]) \in 1..(MaxLevel + 1) /\ Top(p) \in Level
  BY <1>1, BoundAssumption DEF Level, Top
<1>3. Retries \in 1..Retries /\ Retries \in 0..Retries
  BY BoundAssumption
<1>4. \A n \in 0..Retries : [tries[p] EXCEPT ![Len(tries[p])] = n] \in Seq(0..Retries)
  BY <1>1, TriesFacts
<1>5. /\ <<Retries>> \in Seq(0..Retries)
      /\ Len(<<Retries>>) = 1 /\ <<Retries>>[1] = Retries /\ <<Retries>> # <<>>
  BY <1>3
<1>6. ASSUME Dead = {} PROVE Len(tries[p]) = 1
  <2>1. Len(tries[p]) <= 1
    BY <1>6 DEF IInv, NoBreaking
  <2>2. Len(tries[p]) \in Nat /\ Len(tries[p]) >= 1
    BY <1>2, BoundAssumption
  <2> QED BY <2>1, <2>2, CountFacts, Zenon
<1> QED BY <1>1, <1>2, <1>3, <1>4, <1>5, <1>6

-----------------------------------------------------------------------------
(* Steps of one process                                                    *)

\* Only p moves.
Local(p) ==
    \A x \in Proc \ {p} :
        /\ pc'[x] = pc[x] /\ tries'[x] = tries[x] /\ pid'[x] = pid[x]
        /\ held'[x] = held[x] /\ parentheld'[x] = parentheld[x]

\* p has made the lock file of level l, as NoLeak says of a live process.
Owns(p, l) ==
    \/ l = 0 /\ Made(p)
    \/ /\ pc[p] \in {"break", "unbreak", "abort"}
       /\ l = Top(p) /\ held[p] = 1 /\ ~parentheld[p]

\* What a step of p has to show: the invariant for p alone, and that the files
\* of others are at most removed, and not before somebody has died.
LEMMA LocalStep ==
    ASSUME IInv, NEW p \in Proc, TypeOK', Local(p), pc[p] # "dead", Shape(p)',
           \A l \in Level : file'[l] \in {file[l], NoProc, p},
           \A l \in Level : file'[l] = p => pc'[p] = "dead" \/ Owns(p, l)',
           Dead = {} => /\ Len(tries'[p]) <= 1
                        /\ file'[0] = file[0] \/ file[0] \in {NoProc, p}
                        /\ Made(p)' => file'[0] = p
    PROVE  IInv'
<1>1. \A x \in Proc \ {p} : Shape(x)'
  BY DEF Local, Shape, IInv
<1>2. NoLeak'
  <2> SUFFICES ASSUME NEW l \in Level, NEW x \in Proc, file'[l] = x
               PROVE  pc'[x] = "dead" \/ Owns(x, l)'
    BY DEF NoLeak, Owns
  <2>1. CASE x = p
    BY <2>1
  <2>2. CASE x # p
    <3>1. file[l] = x
      BY <2>2, ProcAssumption
    <3>2. pc[x] = "dead" \/ Owns(x, l)
      BY <3>1 DEF IInv, NoLeak, Owns
    <3> QED BY <2>2, <3>2 DEF Local, Owns, Made, Uses, Top
  <2> QED BY <2>1, <2>2
<1>3. Dead' = {} => Dead = {}
  BY DEF Dead, Local
<1>4. NoBreaking'
  BY <1>3 DEF NoBreaking, Local, IInv
<1>5. FileOwned'
  <2> SUFFICES ASSUME Dead' = {}, NEW x \in Proc, Made(x)'
               PROVE  file'[0] = x
    BY DEF FileOwned
  <2>1. CASE x = p
    BY <2>1, <1>3
  <2>2. CASE x # p
    <3>1. Made(x)
      BY <2>2 DEF Local, Made, Uses
    <3>2. file[0] = x
      BY <3>1, <1>3 DEF IInv, FileOwned
    <3> QED BY <2>2, <3>2, <1>3, ProcAssumption
  <2> QED BY <2>1, <2>2
<1> QED BY <1>1, <1>2, <1>4, <1>5 DEF IInv

\* A command that leaves the lock behind, or dies, keeps the invariant if its
\* file is gone or it is dead.
LEMMA LeaveKeeps ==
    ASSUME IInv, NEW p \in Proc, NEW place \in {"idle", "dead"}, pc[p] # "dead",
           Leave(p, place),
           file' \in [Level -> Proc \cup {NoProc}],
           env' \in [Proc -> Proc \cup {NoProc}],
           child' \in [Proc -> Proc \cup {NoProc}],
           \A l \in Level : file'[l] \in {file[l], NoProc},
           \A l \in Level : file'[l] = p => place = "dead",
           Dead = {} => file'[0] = file[0] \/ file[0] \in {NoProc, p}
    PROVE  IInv'
<1>1. /\ pc' = [pc EXCEPT ![p] = place]
      /\ tries' = [tries EXCEPT ![p] = <<>>]
      /\ locker' = [locker EXCEPT ![p] = NoProc]
      /\ held' = [held EXCEPT ![p] = 0]
      /\ parentheld' = [parentheld EXCEPT ![p] = FALSE]
      /\ parentlock' = [parentlock EXCEPT ![p] = NoProc]
      /\ pid' = [pid EXCEPT ![p] = p]
      /\ patience' = [patience EXCEPT ![p] = 0]
  BY DEF Leave
<1>2. TypeOK'
  <2>1. <<>> \in Seq(0..Retries) /\ Len(<<>>) = 0 /\ 0 <= MaxLevel + 1
    BY BoundAssumption
  <2> QED BY <1>1, <2>1, BoundAssumption DEF IInv, TypeOK, Place, Trying
<1>3. /\ pc'[p] = place /\ tries'[p] = <<>> /\ held'[p] = 0
      /\ parentheld'[p] = FALSE /\ pid'[p] = p
  BY <1>1 DEF IInv, TypeOK
<1>4. Local(p) /\ Shape(p)'
  BY <1>1, <1>3 DEF IInv, TypeOK, Local, Shape
<1>5. ~Made(p)'
  BY <1>3 DEF Made, Uses
<1>6. Len(tries'[p]) <= 1
  BY <1>3
<1> QED BY <1>2, <1>3, <1>4, <1>5, <1>6, LocalStep

\* LockHeld keeps it, whether it is raised or lock() tries again.
LEMMA RefuseKeeps ==
    ASSUME IInv, NEW p \in Proc, pc[p] \in {"make", "test"}, Refuse(p),
           UNCHANGED <<file, family>>
    PROVE  IInv'
<1>1. pc[p] \in Trying /\ pc[p] # "dead"
  BY DEF Trying
<1>2. held[p] = 0 /\ ~parentheld[p] /\ pid[p] = p
  BY DEF IInv, Shape
<1>3. \A l \in Level : file[l] # p
  BY <1>1, <1>2 DEF IInv, NoLeak, Made, Uses, Trying
<1>4. CASE patience[p] > 0
  <2>1. /\ pc' = [pc EXCEPT ![p] = "make"]
        /\ tries' = [tries EXCEPT ![p] = <<Retries>>]
        /\ locker' = [locker EXCEPT ![p] = NoProc]
        /\ patience' = [patience EXCEPT ![p] = patience[p] - 1]
        /\ parentlock' = [parentlock EXCEPT ![p] = NoProc]
        /\ UNCHANGED <<file, held, parentheld, pid, env, child>>
    BY <1>4 DEF Refuse, family
  <2>2. /\ <<Retries>> \in Seq(0..Retries) /\ Len(<<Retries>>) = 1
        /\ <<Retries>>[1] = Retries /\ <<Retries>> # <<>>
    BY <1>1, TryingFacts
  <2>3. TypeOK'
    BY <1>4, <2>1, <2>2, BoundAssumption DEF IInv, TypeOK, Place, Trying
  <2>4. pc'[p] = "make" /\ tries'[p] = <<Retries>>
    BY <2>1 DEF IInv, TypeOK
  <2>5. Local(p) /\ Shape(p)'
    BY <1>2, <2>1, <2>2, <2>4, BoundAssumption DEF IInv, TypeOK, Local, Shape
  <2>6. ~Made(p)'
    BY <2>4 DEF Made, Uses
  <2>7. \A l \in Level : file'[l] = file[l] /\ file'[l] # p
    BY <1>3, <2>1
  <2>8. Len(tries'[p]) <= 1 /\ file'[0] = file[0]
    <3>1. Len(tries'[p]) = 1 /\ 1 \in Nat
      BY <2>2, <2>4, Zenon
    <3> QED BY <2>1, <3>1, CountFacts, Zenon
  <2> QED BY <1>1, <2>3, <2>5, <2>6, <2>7, <2>8, LocalStep
<1>5. CASE ~(patience[p] > 0)
  <2>1. Leave(p, "idle")
    BY <1>5 DEF Refuse
  <2> QED
    BY <1>1, <1>3, <2>1, LeaveKeeps DEF IInv, TypeOK, family
<1> QED BY <1>4, <1>5

\* The loop of _trylock keeps it, if p has no file: it goes on, or ends without
\* the lock.
LEMMA LoopKeeps ==
    ASSUME IInv, NEW p \in Proc, pc[p] \in Trying, NEW ts \in Seq(0..Retries),
           ts # <<>>, Len(ts) <= MaxLevel + 1, Dead = {} => Len(ts) = 1,
           Loop(p, ts),
           file' \in [Level -> Proc \cup {NoProc}],
           \A l \in Level : file'[l] \in {file[l], NoProc} /\ file'[l] # p,
           Dead = {} => file'[0] = file[0] \/ file[0] \in {NoProc, p},
           held' = [held EXCEPT ![p] = 0],
           parentheld' = [parentheld EXCEPT ![p] = FALSE], pid[p] = p,
           UNCHANGED <<locker, parentlock, pid, patience, family>>
    PROVE  IInv'
<1>1. Len(ts) \in Nat /\ Len(ts) >= 1 /\ ts[Len(ts)] \in 0..Retries
  <2>1. 0 \in 0..Retries
    BY BoundAssumption
  <2> QED BY <2>1, TriesFacts
<1>2. UNCHANGED <<env, child>>
  BY DEF family
<1>3. /\ held'[p] = 0 /\ parentheld'[p] = FALSE /\ pid'[p] = p
      /\ \A x \in Proc \ {p} : /\ pid'[x] = pid[x] /\ held'[x] = held[x]
                               /\ parentheld'[x] = parentheld[x]
  BY DEF IInv, TypeOK
<1>4. CASE ts[Len(ts)] > 0
  <2>1. pc' = [pc EXCEPT ![p] = "make"] /\ tries' = [tries EXCEPT ![p] = ts]
    BY <1>4 DEF Loop
  <2>2. TypeOK'
    BY <1>2, <2>1, BoundAssumption DEF IInv, TypeOK, Place, Trying
  <2>3. pc'[p] = "make" /\ tries'[p] = ts
    BY <2>1 DEF IInv, TypeOK
  <2>4. Local(p) /\ Shape(p)'
    BY <1>3, <1>4, <2>1, <2>3 DEF IInv, TypeOK, Local, Shape
  <2>5. ~Made(p)'
    BY <2>3 DEF Made, Uses
  <2>6. Dead = {} => Len(tries'[p]) <= 1
    BY <1>1, <2>3, CountFacts, Zenon
  <2> QED BY <2>2, <2>4, <2>5, <2>6, LocalStep DEF Trying
<1>5. CASE ~(ts[Len(ts)] > 0) /\ Len(ts) = 1
  <2>1. pc' = [pc EXCEPT ![p] = "crit"] /\ tries' = [tries EXCEPT ![p] = <<>>]
    BY <1>5 DEF Loop
  <2>2. TypeOK'
    <3>1. <<>> \in Seq(0..Retries) /\ Len(<<>>) = 0 /\ 0 <= MaxLevel + 1
      BY BoundAssumption
    <3> QED BY <1>2, <2>1, <3>1, BoundAssumption DEF IInv, TypeOK, Place, Trying
  <2>3. pc'[p] = "crit" /\ tries'[p] = <<>>
    BY <2>1 DEF IInv, TypeOK
  <2>4. Local(p) /\ Shape(p)'
    BY <1>3, <2>1, <2>3 DEF IInv, TypeOK, Local, Shape
  <2>5. ~Made(p)'
    BY <1>3 DEF Made, Uses
  <2>6. Len(tries'[p]) <= 1
    BY <2>3
  <2> QED BY <2>2, <2>4, <2>5, <2>6, LocalStep DEF Trying
<1>6. CASE ~(ts[Len(ts)] > 0) /\ Len(ts) # 1
  <2>1. pc' = [pc EXCEPT ![p] = "break"] /\ tries' = [tries EXCEPT ![p] = ts]
    BY <1>6 DEF Loop
  <2>2. TypeOK'
    BY <1>2, <2>1, BoundAssumption DEF IInv, TypeOK, Place, Trying
  <2>3. pc'[p] = "break" /\ tries'[p] = ts
    BY <2>1 DEF IInv, TypeOK
  <2>4. Local(p) /\ Shape(p)'
    <3>1. Len(ts) >= 2
      BY <1>1, <1>6, CountFacts, Zenon
    <3> QED BY <1>3, <2>1, <2>3, <3>1 DEF IInv, TypeOK, Local, Shape
  <2>5. ~Made(p)'
    BY <2>3 DEF Made, Uses
  <2> QED BY <1>6, <2>2, <2>3, <2>4, <2>5, LocalStep DEF Trying
<1> QED BY <1>4, <1>5, <1>6


\* Until p has made a file there is none of it (NoLeak).
LEMMA NoFile ==
    ASSUME IInv, NEW p \in Proc, pc[p] \in {"idle", "make", "read", "test"}
    PROVE  /\ \A l \in Level : file[l] # p
           /\ held[p] = 0 /\ ~parentheld[p] /\ pid[p] = p
<1>1. held[p] = 0 /\ ~parentheld[p] /\ pid[p] = p
  BY DEF IInv, Shape
<1>2. \A l \in Level : file[l] # p
  BY <1>1 DEF IInv, NoLeak, Made, Uses
<1> QED BY <1>1, <1>2

-----------------------------------------------------------------------------
(* Taking the lock                                                         *)

\* Calling lock() keeps the invariant (wlock, _lock).
LEMMA LockKeeps ==
    ASSUME IInv, NEW p \in Proc, Lock(p)
    PROVE  IInv'
<1>1. /\ pc' = [pc EXCEPT ![p] = "make"]
      /\ tries' = [tries EXCEPT ![p] = <<Retries>>]
      /\ parentlock' = [parentlock EXCEPT ![p] = env[p]]
      /\ patience' \in [Proc -> 0..(MaxTimeout + 1)]
      /\ UNCHANGED <<file, locker, held, parentheld, pid, env, child>>
  BY BoundAssumption DEF Lock, family, IInv, TypeOK
<1>2. /\ Retries \in 1..Retries /\ <<Retries>> \in Seq(0..Retries)
      /\ Len(<<Retries>>) = 1 /\ <<Retries>>[1] = Retries /\ <<Retries>> # <<>>
  BY BoundAssumption
<1>3. TypeOK'
  BY <1>1, <1>2, BoundAssumption DEF IInv, TypeOK, Place, Trying
<1>4. pc'[p] = "make" /\ tries'[p] = <<Retries>>
  BY <1>1 DEF IInv, TypeOK
<1>5. /\ \A l \in Level : file[l] # p
      /\ held[p] = 0 /\ ~parentheld[p] /\ pid[p] = p
  BY NoFile DEF Lock
<1>6. Local(p) /\ Shape(p)'
  BY <1>1, <1>2, <1>4, <1>5, BoundAssumption DEF IInv, TypeOK, Local, Shape
<1>7. ~Made(p)'
  BY <1>4 DEF Made, Uses
<1>8. Len(tries'[p]) <= 1
  <2>1. Len(tries'[p]) = 1 /\ 1 \in Nat
    BY <1>2, <1>4, Zenon
  <2> QED BY <2>1, CountFacts, Zenon
<1>9. pc[p] # "dead" /\ file' = file
  BY <1>1 DEF Lock
<1> QED BY <1>3, <1>5, <1>6, <1>7, <1>8, <1>9, LocalStep

\* Creating the file: the lock is p's, or the .break lock is (makelock).
LEMMA MakeLockKeeps ==
    ASSUME IInv, NEW p \in Proc, MakeLock(p)
    PROVE  IInv'
<1>1. /\ pc[p] = "make" /\ pc[p] \in Trying
      /\ file[Top(p)] = NoProc
      /\ file' = [file EXCEPT ![Top(p)] = p]
      /\ held' = [held EXCEPT ![p] = 1]
      /\ UNCHANGED <<locker, parentheld, parentlock, pid, patience, env, child>>
  BY DEF MakeLock, family, Trying
<1>2. /\ \A l \in Level : file[l] # p
      /\ held[p] = 0 /\ ~parentheld[p] /\ pid[p] = p
  BY <1>1, NoFile
<1>3. Top(p) \in Level /\ tries[p] \in Seq(0..Retries) /\ Len(tries[p]) \in 1..(MaxLevel + 1)
  BY <1>1, TryingFacts
<1>4. /\ held'[p] = 1 /\ ~parentheld'[p] /\ pid'[p] = p
      /\ file'[Top(p)] = p
      /\ \A l \in Level \ {Top(p)} : file'[l] = file[l] /\ file'[l] # p
  BY <1>1, <1>2, <1>3 DEF IInv, TypeOK
<1>5. \A l \in Level : file'[l] \in {file[l], NoProc, p}
  BY <1>4
<1>6. /\ file' \in [Level -> Proc \cup {NoProc}]
      /\ held' \in [Proc -> 0..MaxNest]
  <2>1. 1 \in 0..MaxNest
    BY BoundAssumption
  <2> QED BY <1>1, <2>1 DEF IInv, TypeOK
<1>7. CASE Top(p) = 0
  <2>1. /\ pc' = [pc EXCEPT ![p] = "crit"]
        /\ tries' = [tries EXCEPT ![p] = <<>>]
    BY <1>7 DEF MakeLock, Enter
  <2>2. <<>> \in Seq(0..Retries) /\ Len(<<>>) = 0 /\ 0 <= MaxLevel + 1
    BY BoundAssumption
  <2>3. TypeOK'
    BY <1>1, <1>6, <2>1, <2>2 DEF IInv, TypeOK, Place, Trying
  <2>4. pc'[p] = "crit" /\ tries'[p] = <<>>
    BY <2>1 DEF IInv, TypeOK
  <2>5. Local(p) /\ Shape(p)'
    BY <1>1, <1>4, <2>1, <2>4 DEF IInv, TypeOK, Local, Shape
  <2>6. Made(p)' /\ file'[0] = p
    BY <1>4, <1>7, <2>4 DEF Made, Uses
  <2>7. \A l \in Level : file'[l] = p => Owns(p, l)'
    BY <1>4, <1>7, <2>6 DEF Owns
  <2>8. Len(tries'[p]) <= 1
    BY <2>2, <2>4
  <2> QED BY <1>1, <1>5, <1>7, <2>3, <2>5, <2>6, <2>7, <2>8, LocalStep
<1>8. CASE Top(p) # 0
  <2>1. pc' = [pc EXCEPT ![p] = "break"] /\ tries' = tries
    BY <1>8 DEF MakeLock, Enter
  <2>2. TypeOK'
    BY <1>1, <1>6, <2>1 DEF IInv, TypeOK, Place, Trying
  <2>3. pc'[p] = "break" /\ tries'[p] = tries[p] /\ Top(p)' = Top(p)
    BY <2>1 DEF IInv, TypeOK, Top
  <2>4. Local(p)
    BY <1>1, <2>1 DEF IInv, TypeOK, Local
  <2>5. Shape(p)'
    <3>1. Len(tries[p]) \in Nat /\ Len(tries[p]) >= 1 /\ Len(tries[p]) # 1
      BY <1>3, <1>8, BoundAssumption DEF Top
    <3>2. Len(tries[p]) >= 2
      BY <3>1, CountFacts, Zenon
    <3> QED BY <1>4, <2>3, <3>2 DEF Shape
  <2>6. ~Made(p)'
    BY <2>3 DEF Made, Uses
  <2>7. \A l \in Level : file'[l] = p => Owns(p, l)'
    BY <1>4, <2>3 DEF Owns
  <2>8. Dead # {}
    BY <1>1, <1>3, <1>8, TryingFacts DEF Top
  <2> QED BY <1>1, <1>5, <2>2, <2>4, <2>5, <2>6, <2>7, <2>8, LocalStep
<1> QED BY <1>7, <1>8

\* The file is there already (makelock raises EEXIST).
LEMMA LockExistsKeeps ==
    ASSUME IInv, NEW p \in Proc, LockExists(p)
    PROVE  IInv'
<1>1. /\ pc[p] = "make" /\ pc[p] \in Trying /\ pc[p] # "dead"
      /\ pc' = [pc EXCEPT ![p] = "read"]
      /\ UNCHANGED <<file, locker, held, parentheld, parentlock, pid, patience, env, child>>
  BY DEF LockExists, family, object, Trying
<1> DEFINE n == tries[p][Len(tries[p])] - 1
           ts == [tries[p] EXCEPT ![Len(tries[p])] = n]
<1>2. tries' = [tries EXCEPT ![p] = ts]
  BY DEF LockExists, IInv, TypeOK
<1>3. /\ tries[p] \in Seq(0..Retries) /\ tries[p] # <<>>
      /\ Len(tries[p]) \in 1..(MaxLevel + 1)
  BY <1>1, TryingFacts
<1>4. n \in 0..Retries
  <2>1. tries[p][Len(tries[p])] > 0
    BY <1>1 DEF IInv, Shape
  <2>2. 0 \in 0..Retries
    BY BoundAssumption
  <2>3. tries[p][Len(tries[p])] \in 0..Retries
    BY <1>3, <2>2, TriesFacts
  <2> QED BY <2>1, <2>3, BoundAssumption
<1> HIDE DEF n
<1>5. ts \in Seq(0..Retries) /\ Len(ts) = Len(tries[p])
  BY <1>3, <1>4, TriesFacts
<1> HIDE DEF ts
<1>6. ts # <<>> /\ Len(ts) <= MaxLevel + 1
  BY <1>3, <1>5, BoundAssumption
<1>7. TypeOK'
  BY <1>1, <1>2, <1>5, <1>6, BoundAssumption DEF IInv, TypeOK, Place, Trying
<1>8. pc'[p] = "read" /\ tries'[p] = ts
  BY <1>1, <1>2 DEF IInv, TypeOK
<1>9. /\ \A l \in Level : file[l] # p
      /\ held[p] = 0 /\ ~parentheld[p] /\ pid[p] = p
  BY <1>1, NoFile
<1>10. Local(p) /\ Shape(p)'
  BY <1>1, <1>2, <1>8, <1>9 DEF IInv, TypeOK, Local, Shape
<1>11. ~Made(p)'
  BY <1>8 DEF Made, Uses
<1>12. Dead = {} => Len(tries'[p]) <= 1
  <2>1. Dead = {} => Len(tries'[p]) = 1
    BY <1>1, <1>5, <1>8, TryingFacts
  <2>2. 1 \in Nat
    OBVIOUS
  <2> QED BY <2>1, <2>2, CountFacts, Zenon
<1> QED BY <1>1, <1>7, <1>9, <1>10, <1>11, <1>12, LocalStep

\* The file cannot be created (LockUnavailable).
LEMMA LockUnavailableKeeps ==
    ASSUME IInv, NEW p \in Proc, LockUnavailable(p)
    PROVE  IInv'
<1>1. pc[p] = "make" /\ UNCHANGED <<file, family>>
  BY DEF LockUnavailable
<1>2. CASE Top(p) = 0
  <2>1. Leave(p, "idle")
    BY <1>2 DEF LockUnavailable
  <2>2. \A l \in Level : file[l] # p
    BY <1>1, NoFile
  <2> QED BY <1>1, <2>1, <2>2, LeaveKeeps DEF IInv, TypeOK, family
<1>3. CASE Top(p) # 0
  <2>1. Refuse(p)
    BY <1>3 DEF LockUnavailable
  <2> QED BY <1>1, <2>1, RefuseKeeps
<1> QED BY <1>2, <1>3


\* Reading the file: it is the parent's lock, or it has gone, or it names a
\* locker to be tested (_readlock).
LEMMA ReadLockKeeps ==
    ASSUME IInv, NEW p \in Proc, ReadLock(p)
    PROVE  IInv'
<1>1. /\ pc[p] = "read" /\ pc[p] \in Trying /\ pc[p] # "dead"
      /\ UNCHANGED <<file, parentlock, pid, patience, env, child>>
  BY DEF ReadLock, family, Trying
<1>2. /\ \A l \in Level : file[l] # p /\ file'[l] = file[l]
      /\ held[p] = 0 /\ ~parentheld[p] /\ pid[p] = p
  BY <1>1, NoFile
<1>3. /\ Top(p) \in Level /\ tries[p] \in Seq(0..Retries) /\ tries[p] # <<>>
      /\ Len(tries[p]) \in 1..(MaxLevel + 1)
      /\ Dead = {} => Len(tries[p]) = 1
  BY <1>1, TryingFacts
<1>4. CASE file[Top(p)] = ParentLock(p) /\ Top(p) = 0
  <2>1. /\ pc' = [pc EXCEPT ![p] = "crit"]
        /\ tries' = [tries EXCEPT ![p] = <<>>]
        /\ parentheld' = [parentheld EXCEPT ![p] = TRUE]
        /\ held' = [held EXCEPT ![p] = 1]
        /\ UNCHANGED locker
    BY <1>4 DEF ReadLock, Enter
  <2>2. /\ <<>> \in Seq(0..Retries) /\ Len(<<>>) = 0 /\ 0 <= MaxLevel + 1
        /\ 1 \in 0..MaxNest
    BY BoundAssumption
  <2>3. TypeOK'
    BY <1>1, <2>1, <2>2 DEF IInv, TypeOK, Place, Trying
  <2>4. pc'[p] = "crit" /\ tries'[p] = <<>> /\ parentheld'[p]
    BY <2>1 DEF IInv, TypeOK
  <2>5. Local(p) /\ Shape(p)'
    BY <1>1, <1>2, <2>1, <2>4 DEF IInv, TypeOK, Local, Shape
  <2>6. ~Made(p)'
    BY <2>4 DEF Made, Uses
  <2>7. Len(tries'[p]) <= 1
    BY <2>2, <2>4
  <2> QED BY <1>1, <1>2, <2>3, <2>5, <2>6, <2>7, LocalStep
<1>5. CASE file[Top(p)] = ParentLock(p) /\ Top(p) # 0
  <2>1. /\ pc' = [pc EXCEPT ![p] = "break"]
        /\ parentheld' = [parentheld EXCEPT ![p] = TRUE]
        /\ held' = [held EXCEPT ![p] = 1]
        /\ UNCHANGED <<tries, locker>>
    BY <1>5 DEF ReadLock, Enter
  <2>2. 1 \in 0..MaxNest
    BY BoundAssumption
  <2>3. TypeOK'
    BY <1>1, <2>1, <2>2 DEF IInv, TypeOK, Place, Trying
  <2>4. pc'[p] = "break" /\ tries'[p] = tries[p]
    BY <2>1 DEF IInv, TypeOK
  <2>5. Local(p)
    BY <1>1, <2>1 DEF IInv, TypeOK, Local
  <2>6. Shape(p)'
    <3>1. Len(tries[p]) \in Nat /\ Len(tries[p]) >= 1 /\ Len(tries[p]) # 1
      BY <1>3, <1>5, BoundAssumption DEF Top
    <3>2. Len(tries[p]) >= 2
      BY <3>1, CountFacts, Zenon
    <3> QED BY <1>1, <1>2, <2>4, <3>2 DEF Shape
  <2>7. ~Made(p)'
    BY <2>4 DEF Made, Uses
  <2>8. Dead # {}
    BY <1>3, <1>5 DEF Top
  <2> QED BY <1>1, <1>2, <2>3, <2>5, <2>6, <2>7, <2>8, LocalStep
<1>6. CASE file[Top(p)] # ParentLock(p) /\ file[Top(p)] = NoProc
  <2>1. Loop(p, tries[p]) /\ UNCHANGED <<locker, held, parentheld>>
    BY <1>6 DEF ReadLock
  <2>2. /\ held' = [held EXCEPT ![p] = 0]
        /\ parentheld' = [parentheld EXCEPT ![p] = FALSE]
    BY <1>2, <2>1 DEF IInv, TypeOK
  <2>3. Len(tries[p]) <= MaxLevel + 1
    BY DEF IInv, TypeOK
  <2>4. file' \in [Level -> Proc \cup {NoProc}] /\ file'[0] = file[0]
    BY <1>1 DEF IInv, TypeOK
  <2> QED BY <1>1, <1>2, <1>3, <2>1, <2>2, <2>3, <2>4, LoopKeeps DEF family
<1>7. CASE file[Top(p)] # ParentLock(p) /\ file[Top(p)] # NoProc
  <2>1. /\ pc' = [pc EXCEPT ![p] = "test"]
        /\ locker' = [locker EXCEPT ![p] = file[Top(p)]]
        /\ UNCHANGED <<tries, held, parentheld>>
    BY <1>7 DEF ReadLock
  <2>2. file[Top(p)] \in Proc
    BY <1>3, <1>7 DEF IInv, TypeOK
  <2>3. TypeOK'
    BY <1>1, <2>1, <2>2 DEF IInv, TypeOK, Place, Trying
  <2>4. pc'[p] = "test" /\ tries'[p] = tries[p]
    BY <2>1 DEF IInv, TypeOK
  <2>5. Local(p) /\ Shape(p)'
    BY <1>1, <1>2, <2>1, <2>4 DEF IInv, TypeOK, Local, Shape
  <2>6. ~Made(p)'
    BY <2>4 DEF Made, Uses
  <2>7. Dead = {} => Len(tries'[p]) <= 1
    <3>1. Dead = {} => Len(tries'[p]) = 1
      BY <1>3, <2>4
    <3>2. 1 \in Nat
      OBVIOUS
    <3> QED BY <3>1, <3>2, CountFacts, Zenon
  <2> QED BY <1>1, <1>2, <2>3, <2>5, <2>6, <2>7, LocalStep
<1> QED BY <1>4, <1>5, <1>6, <1>7

\* Testing whether the locker is alive (_testlock).
LEMMA TestLockKeeps ==
    ASSUME IInv, NEW p \in Proc, TestLock(p)
    PROVE  IInv'
<1>1. /\ pc[p] = "test" /\ pc[p] \in Trying /\ pc[p] # "dead"
      /\ UNCHANGED <<file, family>>
  BY DEF TestLock, Trying
<1>2. CASE locker[p] \in Dead
  <2>1. /\ Top(p) < MaxLevel
        /\ pc' = [pc EXCEPT ![p] = "make"]
        /\ locker' = [locker EXCEPT ![p] = NoProc]
        /\ UNCHANGED <<file, held, parentheld, parentlock, pid, patience, env, child>>
    BY <1>1, <1>2 DEF TestLock, object, family
  <2> DEFINE ts == Append(tries[p], Retries)
  <2>2. tries' = [tries EXCEPT ![p] = ts]
    BY <1>2 DEF TestLock, IInv, TypeOK
  <2>3. tries[p] \in Seq(0..Retries) /\ tries[p] # <<>> /\ Retries \in 0..Retries
    BY <1>1, TryingFacts, BoundAssumption
  <2>4. ts \in Seq(0..Retries) /\ Len(ts) = Len(tries[p]) + 1 /\ ts[Len(ts)] = Retries
    BY <2>3, TriesFacts
  <2> HIDE DEF ts
  <2>5. ts # <<>> /\ Len(ts) <= MaxLevel + 1
    BY <2>1, <2>3, <2>4, BoundAssumption DEF Top
  <2>6. TypeOK'
    BY <2>1, <2>2, <2>4, <2>5 DEF IInv, TypeOK, Place, Trying
  <2>7. pc'[p] = "make" /\ tries'[p] = ts
    BY <2>1, <2>2 DEF IInv, TypeOK
  <2>8. /\ \A l \in Level : file[l] # p /\ file'[l] = file[l]
        /\ held[p] = 0 /\ ~parentheld[p] /\ pid[p] = p
    BY <1>1, <2>1, NoFile
  <2>9. Local(p)
    BY <2>1, <2>2 DEF IInv, TypeOK, Local
  <2>10. Shape(p)'
    <3>1. ts[Len(ts)] > 0
      BY <2>4, BoundAssumption
    <3> QED BY <2>1, <2>7, <2>8, <3>1 DEF Shape
  <2>11. ~Made(p)'
    BY <2>7 DEF Made, Uses
  <2> QED BY <1>1, <1>2, <2>6, <2>8, <2>9, <2>10, <2>11, LocalStep
<1>3. CASE locker[p] \notin Dead
  <2>1. Refuse(p)
    BY <1>3 DEF TestLock
  <2> QED BY <1>1, <2>1, RefuseKeeps
<1> QED BY <1>2, <1>3


\* Who has a .break lock is above level 0, and has no other file; somebody has
\* died (_testlock).
LEMMA BreakFacts ==
    ASSUME IInv, NEW p \in Proc, pc[p] \in {"break", "unbreak", "abort"}
    PROVE  /\ pc[p] \in Trying /\ pc[p] # "dead" /\ Dead # {} /\ pid[p] = p
           /\ tries[p] \in Seq(0..Retries) /\ tries[p] # <<>>
           /\ Len(tries[p]) >= 2 /\ Len(tries[p]) \in 1..(MaxLevel + 1)
           /\ Top(p) \in Level /\ Top(p) - 1 \in Level
           /\ \A l \in Level : file[l] = p =>
                 l = Top(p) /\ held[p] = 1 /\ ~parentheld[p]
<1>1. pc[p] \in Trying /\ pc[p] # "dead"
  BY DEF Trying
<1>2. Len(tries[p]) >= 2 /\ pid[p] = p
  BY DEF IInv, Shape
<1>3. /\ tries[p] \in Seq(0..Retries) /\ tries[p] # <<>> /\ Top(p) \in Level
      /\ Len(tries[p]) \in 1..(MaxLevel + 1)
      /\ Dead = {} => Len(tries[p]) = 1
  BY <1>1, TryingFacts
<1>4. Len(tries[p]) \in Nat
  BY <1>3, BoundAssumption
<1>5. Dead # {}
  BY <1>2, <1>3, <1>4, CountFacts, Zenon
<1>6. Top(p) - 1 \in Level
  <2> DEFINE n == Len(tries[p])
  <2>1. n \in 1..(MaxLevel + 1) /\ n >= 2
    BY <1>2, <1>3
  <2> HIDE DEF n
  <2>2. n - 1 - 1 \in 0..MaxLevel
    BY <2>1, BoundAssumption
  <2> QED BY <2>2 DEF n, Top, Level
<1>7. \A l \in Level : file[l] = p =>
         l = Top(p) /\ held[p] = 1 /\ ~parentheld[p]
  BY DEF IInv, NoLeak, Made, Uses
<1> QED BY <1>1, <1>2, <1>3, <1>5, <1>6, <1>7

\* Removing the file of the level below (_testlock).
LEMMA BreakLockKeeps ==
    ASSUME IInv, NEW p \in Proc, BreakLock(p)
    PROVE  IInv'
<1>1. /\ pc[p] = "break"
      /\ file' = [file EXCEPT ![Top(p) - 1] = NoProc]
      /\ UNCHANGED <<tries, locker, held, parentheld, parentlock, pid, patience, env, child>>
  BY DEF BreakLock, object, family
<1>2. PICK place \in {"unbreak", "abort"} : pc' = [pc EXCEPT ![p] = place]
  BY DEF BreakLock
<1>3. /\ pc[p] # "dead" /\ Dead # {} /\ pid[p] = p /\ tries[p] # <<>>
      /\ Len(tries[p]) >= 2 /\ Top(p) \in Level /\ Top(p) - 1 \in Level
      /\ \A l \in Level : file[l] = p =>
            l = Top(p) /\ held[p] = 1 /\ ~parentheld[p]
  BY <1>1, BreakFacts
<1>4. TypeOK'
  BY <1>1, <1>2, <1>3 DEF IInv, TypeOK, Place, Trying
<1>5. pc'[p] = place /\ tries'[p] = tries[p] /\ Top(p)' = Top(p)
  BY <1>1, <1>2 DEF IInv, TypeOK, Top
<1>6. Local(p) /\ Shape(p)'
  BY <1>1, <1>2, <1>3, <1>5 DEF IInv, TypeOK, Local, Shape
<1>7. \A l \in Level : /\ file'[l] \in {file[l], NoProc}
                       /\ file'[l] = p => file[l] = p
  BY <1>1, <1>3, ProcAssumption DEF IInv, TypeOK
<1>8. \A l \in Level : file'[l] = p => Owns(p, l)'
  BY <1>1, <1>3, <1>5, <1>7 DEF Owns
<1> QED BY <1>3, <1>4, <1>6, <1>7, <1>8, LocalStep

\* Releasing the .break lock and going on one level below (_testlock, release).
LEMMA ReleaseBreakKeeps ==
    ASSUME IInv, NEW p \in Proc, ReleaseBreak(p)
    PROVE  IInv'
<1> DEFINE ts == SubSeq(tries[p], 1, Len(tries[p]) - 1)
<1>1. /\ pc[p] = "unbreak"
      /\ file' = Removed(p, Top(p))
      /\ held' = [held EXCEPT ![p] = 0]
      /\ parentheld' = [parentheld EXCEPT ![p] = FALSE]
      /\ Loop(p, ts)
      /\ UNCHANGED <<locker, parentlock, pid, patience, family>>
  BY DEF ReleaseBreak
<1>2. /\ pc[p] \in Trying /\ Dead # {} /\ pid[p] = p /\ Top(p) \in Level
      /\ tries[p] \in Seq(0..Retries) /\ Len(tries[p]) >= 2
      /\ Len(tries[p]) \in 1..(MaxLevel + 1)
      /\ \A l \in Level : file[l] = p =>
            l = Top(p) /\ held[p] = 1 /\ ~parentheld[p]
  BY <1>1, BreakFacts
<1>3. ts \in Seq(0..Retries) /\ Len(ts) = Len(tries[p]) - 1 /\ ts # <<>>
  BY <1>2, FrontFacts
<1> HIDE DEF ts
<1>4. Len(ts) <= MaxLevel + 1
  BY <1>2, <1>3, BoundAssumption
<1>5. file' \in [Level -> Proc \cup {NoProc}]
  BY <1>1 DEF Removed, IInv, TypeOK
<1>6. \A l \in Level : file'[l] \in {file[l], NoProc} /\ file'[l] # p
  BY <1>1, <1>2, ProcAssumption DEF Removed, IInv, TypeOK
<1> QED BY <1>1, <1>2, <1>3, <1>4, <1>5, <1>6, LoopKeeps

\* The exception of a file that has gone releases the .break lock (__del__).
LEMMA AbortBreakKeeps ==
    ASSUME IInv, NEW p \in Proc, AbortBreak(p)
    PROVE  IInv'
<1>1. pc[p] = "abort" /\ file' = Removed(p, Top(p)) /\ Leave(p, "idle") /\ UNCHANGED family
  BY DEF AbortBreak
<1>2. /\ pc[p] # "dead" /\ Dead # {} /\ Top(p) \in Level
      /\ \A l \in Level : file[l] = p =>
            l = Top(p) /\ held[p] = 1 /\ ~parentheld[p]
  BY <1>1, BreakFacts
<1>3. file' \in [Level -> Proc \cup {NoProc}]
  BY <1>1 DEF Removed, IInv, TypeOK
<1>4. \A l \in Level : file'[l] \in {file[l], NoProc} /\ file'[l] # p
  BY <1>1, <1>2, ProcAssumption DEF Removed, IInv, TypeOK
<1> QED BY <1>1, <1>2, <1>3, <1>4, LeaveKeeps DEF family, IInv, TypeOK


-----------------------------------------------------------------------------
(* Using and releasing it                                                  *)

\* A step of a holder that leaves the file alone keeps the invariant, if p
\* goes on relying on the lock just as it did.
LEMMA HolderKeeps ==
    ASSUME IInv, NEW p \in Proc, pc[p] \in {"crit", "system", "releasing"},
           UNCHANGED <<file, tries>>, TypeOK', Local(p), Shape(p)',
           Made(p)' = Made(p)
    PROVE  IInv'
<1>1. pc[p] # "dead" /\ \A l \in Level : file'[l] = file[l]
  OBVIOUS
<1>2. \A l \in Level : file'[l] = p => Owns(p, l)'
  BY DEF IInv, NoLeak, Owns
<1>3. Dead = {} => Len(tries'[p]) <= 1
  BY DEF IInv, NoBreaking
<1>4. Dead = {} => file'[0] = file[0] /\ (Made(p)' => file'[0] = p)
  BY DEF IInv, FileOwned
<1> QED BY <1>1, <1>2, <1>3, <1>4, LocalStep

\* Taking the lock again (_trylock).
LEMMA RelockKeeps ==
    ASSUME IInv, NEW p \in Proc, Relock(p)
    PROVE  IInv'
<1>1. /\ pc[p] = "crit" /\ held[p] \in 1..(MaxNest - 1)
      /\ held' = [held EXCEPT ![p] = held[p] + 1]
      /\ UNCHANGED <<file, pc, tries, locker, parentheld, parentlock, pid, patience, env, child>>
  BY DEF Relock, family
<1>2. held[p] + 1 \in 0..MaxNest /\ held[p] > 0 /\ held[p] + 1 > 0
  BY <1>1, BoundAssumption
<1>3. TypeOK'
  BY <1>1, <1>2 DEF IInv, TypeOK
<1>4. held'[p] = held[p] + 1 /\ pc'[p] = "crit"
  BY <1>1 DEF IInv, TypeOK
<1>5. Local(p) /\ Shape(p)'
  BY <1>1, <1>4 DEF IInv, TypeOK, Local, Shape
<1>6. Made(p)' = Made(p)
  BY <1>1, <1>2, <1>4 DEF Made, Uses
<1> QED BY <1>1, <1>3, <1>5, <1>6, HolderKeeps

\* Releasing a lock that was taken several times (release).
LEMMA ReleaseNestedKeeps ==
    ASSUME IInv, NEW p \in Proc, ReleaseNested(p)
    PROVE  IInv'
<1>1. /\ pc[p] = "crit" /\ held[p] > 1
      /\ held' = [held EXCEPT ![p] = held[p] - 1]
      /\ UNCHANGED <<file, pc, tries, locker, parentheld, parentlock, pid, patience, env, child>>
  BY DEF ReleaseNested, family
<1>2. held[p] - 1 \in 0..MaxNest /\ held[p] > 0 /\ held[p] - 1 > 0
  BY <1>1, BoundAssumption DEF IInv, TypeOK
<1>3. TypeOK'
  BY <1>1, <1>2 DEF IInv, TypeOK
<1>4. held'[p] = held[p] - 1 /\ pc'[p] = "crit"
  BY <1>1 DEF IInv, TypeOK
<1>5. Local(p) /\ Shape(p)'
  BY <1>1, <1>4 DEF IInv, TypeOK, Local, Shape
<1>6. Made(p)' = Made(p)
  BY <1>1, <1>2, <1>4 DEF Made, Uses
<1> QED BY <1>1, <1>3, <1>5, <1>6, HolderKeeps

\* The outermost release, up to the end of releasefn (release).
LEMMA ReleaseLockKeeps ==
    ASSUME IInv, NEW p \in Proc, ReleaseLock(p)
    PROVE  IInv'
<1>1. /\ pc[p] = "crit" /\ held[p] = 1 /\ pid[p] = p
      /\ pc' = [pc EXCEPT ![p] = "releasing"]
      /\ UNCHANGED <<file, tries, locker, held, parentheld, parentlock, pid, patience, env, child>>
  BY DEF ReleaseLock, object, family
<1>2. TypeOK'
  BY <1>1 DEF IInv, TypeOK, Place, Trying
<1>3. pc'[p] = "releasing"
  BY <1>1 DEF IInv, TypeOK
<1>4. Local(p) /\ Shape(p)'
  BY <1>1, <1>3 DEF IInv, TypeOK, Local, Shape
<1>5. Made(p)' = Made(p)
  BY <1>1, <1>3 DEF Made, Uses
<1> QED BY <1>1, <1>2, <1>4, <1>5, HolderKeeps

\* A process that has nothing to release leaves the file (release).
LEMMA ReleaseNothingKeeps ==
    ASSUME IInv, NEW p \in Proc, ReleaseNothing(p)
    PROVE  IInv'
<1>1. /\ pc[p] = "crit" /\ (held[p] = 0 \/ pid[p] # p)
      /\ Leave(p, "idle") /\ UNCHANGED <<file, family>>
  BY DEF ReleaseNothing
<1>2. \A l \in Level : file[l] # p
  BY <1>1 DEF IInv, NoLeak, Made, Uses
<1> QED BY <1>1, <1>2, LeaveKeeps DEF IInv, TypeOK, family

\* Removing the file, unless it is a parent's (release).  Until somebody dies
\* it is p's.
LEMMA UnlinkLockKeeps ==
    ASSUME IInv, NEW p \in Proc, UnlinkLock(p)
    PROVE  IInv'
<1>1. pc[p] = "releasing" /\ file' = Removed(p, 0) /\ Leave(p, "idle") /\ UNCHANGED family
  BY DEF UnlinkLock
<1>2. held[p] = 1 /\ pid[p] = p
  BY <1>1 DEF IInv, Shape
<1>3. /\ \A l \in Level : file[l] = p => l = 0 /\ ~parentheld[p]
      /\ Dead = {} => parentheld[p] \/ file[0] = p
  BY <1>1, <1>2 DEF IInv, NoLeak, FileOwned, Made, Uses
<1>4. file' \in [Level -> Proc \cup {NoProc}]
  BY <1>1 DEF Removed, IInv, TypeOK
<1>5. 0 \in Level
  BY BoundAssumption DEF Level
<1>6. \A l \in Level : file'[l] \in {file[l], NoProc} /\ file'[l] # p
  BY <1>1, <1>2, <1>3, <1>5, ProcAssumption DEF Removed, IInv, TypeOK
<1>7. Dead = {} => file'[0] = file[0] \/ file[0] \in {NoProc, p}
  BY <1>1, <1>3 DEF Removed
<1> QED BY <1>1, <1>4, <1>6, <1>7, LeaveKeeps DEF IInv, TypeOK, family

\* Telling a subprocess of the lock (inherit).
LEMMA InheritKeeps ==
    ASSUME IInv, NEW p \in Proc, NEW q \in Proc \ {p}, Inherit(p, q)
    PROVE  IInv'
<1>1. /\ pc[p] = "crit" /\ held[p] > 0 /\ pid[p] = p
      /\ pc' = [pc EXCEPT ![p] = "system"]
      /\ child' = [child EXCEPT ![p] = q]
      /\ env' = [env EXCEPT ![q] = IF parentheld[p] THEN parentlock[p] ELSE p]
      /\ UNCHANGED <<file, tries, locker, held, parentheld, parentlock, pid, patience>>
  BY DEF Inherit, object
<1>2. TypeOK'
  BY <1>1 DEF IInv, TypeOK, Place, Trying
<1>3. pc'[p] = "system"
  BY <1>1 DEF IInv, TypeOK
<1>4. Local(p) /\ Shape(p)'
  BY <1>1, <1>3 DEF IInv, TypeOK, Local, Shape
<1>5. Made(p)' = Made(p)
  BY <1>1, <1>3 DEF Made, Uses
<1> QED BY <1>1, <1>2, <1>4, <1>5, HolderKeeps

\* The subprocess has ended (inherit).
LEMMA InheritEndKeeps ==
    ASSUME IInv, NEW p \in Proc, InheritEnd(p)
    PROVE  IInv'
<1>1. /\ pc[p] = "system"
      /\ pc' = [pc EXCEPT ![p] = "crit"]
      /\ child' = [child EXCEPT ![p] = NoProc]
      /\ env' = [env EXCEPT ![child[p]] = NoProc]
      /\ UNCHANGED <<file, tries, locker, held, parentheld, parentlock, pid, patience>>
  BY DEF InheritEnd, object
<1>2. TypeOK'
  <2>1. env' \in [Proc -> Proc \cup {NoProc}]
    BY <1>1 DEF IInv, TypeOK
  <2>2. child' \in [Proc -> Proc \cup {NoProc}] /\ pc' \in [Proc -> Place]
    BY <1>1 DEF IInv, TypeOK, Place
  <2> QED BY <1>1, <2>1, <2>2 DEF IInv, TypeOK, Trying
<1>3. pc'[p] = "crit"
  BY <1>1 DEF IInv, TypeOK
<1>4. Local(p) /\ Shape(p)'
  BY <1>1, <1>3 DEF IInv, TypeOK, Local, Shape
<1>5. Made(p)' = Made(p)
  BY <1>1, <1>3 DEF Made, Uses
<1> QED BY <1>1, <1>2, <1>4, <1>5, HolderKeeps

\* Forking: the copy of the lock object has the pid of its maker, so the new
\* process does not rely on the file (lock.pid).
LEMMA ForkKeeps ==
    ASSUME IInv, NEW p \in Proc, NEW q \in Proc \ {p}, Fork(p, q)
    PROVE  IInv'
<1>1. /\ pc[q] = "idle" /\ pid[p] # q
      /\ pc' = [pc EXCEPT ![q] = "crit"]
      /\ held' = [held EXCEPT ![q] = held[p]]
      /\ parentheld' = [parentheld EXCEPT ![q] = parentheld[p]]
      /\ parentlock' = [parentlock EXCEPT ![q] = parentlock[p]]
      /\ pid' = [pid EXCEPT ![q] = pid[p]]
      /\ UNCHANGED <<file, tries, locker, patience, env, child>>
  BY DEF Fork, Free, family
<1>2. tries[q] = <<>>
  BY <1>1 DEF IInv, TypeOK, Trying
<1>3. TypeOK'
  BY <1>1, <1>2 DEF IInv, TypeOK, Place, Trying
<1>4. pc'[q] = "crit" /\ pid'[q] # q
  BY <1>1 DEF IInv, TypeOK
<1>5. Local(q) /\ Shape(q)'
  BY <1>1, <1>4 DEF IInv, TypeOK, Local, Shape
<1>6. ~Made(q)'
  BY <1>4 DEF Made, Uses
<1>7. \A l \in Level : file'[l] = file[l] /\ file[l] # q
  BY <1>1, NoFile
<1>8. Dead = {} => Len(tries'[q]) <= 1 /\ file'[0] = file[0]
  BY <1>1 DEF IInv, NoBreaking
<1> QED BY <1>1, <1>3, <1>5, <1>6, <1>7, <1>8, LocalStep

\* Dying leaves the files as they are.
LEMMA CrashKeeps ==
    ASSUME IInv, NEW p \in Proc, Crash(p)
    PROVE  IInv'
<1>1. /\ pc[p] # "dead" /\ Leave(p, "dead") /\ file' = file
      /\ env' \in [Proc -> Proc \cup {NoProc}]
      /\ child' \in [Proc -> Proc \cup {NoProc}]
  BY DEF Crash, IInv, TypeOK
<1> QED BY <1>1, LeaveKeeps DEF IInv, TypeOK

-----------------------------------------------------------------------------
(* Every step                                                              *)

LEMMA NextKeeps == IInv /\ [Next]_vars => IInv'
<1> SUFFICES ASSUME IInv, [Next]_vars PROVE IInv'
  OBVIOUS
<1>1. CASE UNCHANGED vars
  BY <1>1 DEF vars, object, family, IInv, TypeOK, Shape, NoLeak, NoBreaking,
              FileOwned, Dead, Made, Uses, Top
<1>2. CASE Next
  <2> PICK p \in Proc : Lock(p) \/ TryStep(p) \/ UseStep(p) \/ Crash(p)
    BY <1>2 DEF Next
  <2>1. CASE Lock(p)
    BY <2>1, LockKeeps
  <2>2. CASE TryStep(p)
    BY <2>2, MakeLockKeeps, LockExistsKeeps, LockUnavailableKeeps, ReadLockKeeps,
       TestLockKeeps, BreakLockKeeps, ReleaseBreakKeeps, AbortBreakKeeps
       DEF TryStep
  <2>3. CASE UseStep(p)
    BY <2>3, RelockKeeps, ReleaseNestedKeeps, ReleaseLockKeeps,
       ReleaseNothingKeeps, UnlinkLockKeeps, InheritEndKeeps, InheritKeeps,
       ForkKeeps DEF UseStep
  <2>4. CASE Crash(p)
    BY <2>4, CrashKeeps
  <2> QED BY <2>1, <2>2, <2>3, <2>4
<1> QED BY <1>1, <1>2

-----------------------------------------------------------------------------
(* Locks that are inherited                                                *)

\* What a process knows of its parent's lock.
Family ==
    /\ \A p \in Proc : child[p] # NoProc <=> pc[p] = "system"
    /\ \A p \in Proc : pc[p] = "system" => held[p] > 0 /\ pid[p] = p
    /\ \A p \in Proc : pc[p] \in {"idle", "dead"} => parentlock[p] = NoProc
    /\ \A p \in Proc : pid[p] = p /\ parentlock[p] # NoProc => parentlock[p] = env[p]

\* Until a process dies, who is named in an environment has the file and waits,
\* and everybody who has such an environment descends from the one who has the
\* file: each set that is closed under "child" contains him.
Closed(T) == \A y \in Proc : (y \in T \/ y = file[0]) /\ child[y] # NoProc => child[y] \in T
Heirs ==
    Dead = {} =>
        /\ \A q, r \in Proc :
              env[q] = r => Made(r) /\ pc[r] = "system" /\ file[0] = r
        /\ \A T \in SUBSET Proc : Closed(T) => \A q \in Proc : env[q] # NoProc => q \in T

\* Only m moves, and at most makes the file or removes it.
Moves(m) ==
    /\ Local(m) /\ pc[m] # "dead" /\ file'[0] \in {file[0], NoProc, m}
    /\ \A x \in Proc \ {m} : locker'[x] = locker[x] /\ parentlock'[x] = parentlock[x]

\* A step of p that leaves the others' knowledge alone, and lets p at most
\* forget its parent.
Quiet(p) ==
    /\ pc[p] \notin {"idle", "system", "dead"} /\ pc'[p] \notin {"system", "dead"}
    /\ UNCHANGED <<env, child>>
    /\ \/ parentlock'[p] = parentlock[p] /\ pid'[p] = pid[p] /\ pc'[p] # "idle"
       \/ parentlock'[p] = NoProc

LEMMA TryQuiet ==
    ASSUME IInv, NEW p \in Proc, TryStep(p)
    PROVE  Moves(p) /\ Quiet(p)
<1> USE DEF Moves, Local, Quiet, family, object
<1>0. 0 \in Level
  BY BoundAssumption DEF Level
<1>1. CASE MakeLock(p)
  <2>1. file'[0] \in {file[0], p}
    BY <1>0, <1>1 DEF MakeLock, IInv, TypeOK
  <2> QED BY <1>1, <2>1 DEF MakeLock, Enter, IInv, TypeOK
<1>2. CASE LockExists(p)
  BY <1>2 DEF LockExists, IInv, TypeOK
<1>3. CASE LockUnavailable(p)
  BY <1>3 DEF LockUnavailable, Refuse, Leave, IInv, TypeOK
<1>4. CASE ReadLock(p)
  BY <1>4 DEF ReadLock, Enter, Loop, IInv, TypeOK
<1>5. CASE TestLock(p)
  BY <1>5 DEF TestLock, Refuse, Leave, IInv, TypeOK
<1>6. CASE BreakLock(p)
  <2>1. file'[0] \in {file[0], NoProc}
    BY <1>0, <1>6 DEF BreakLock, IInv, TypeOK
  <2> QED BY <1>6, <2>1 DEF BreakLock, IInv, TypeOK
<1>7. CASE ReleaseBreak(p)
  <2>1. file'[0] \in {file[0], NoProc}
    BY <1>0, <1>7 DEF ReleaseBreak, Removed, IInv, TypeOK
  <2> QED BY <1>7, <2>1 DEF ReleaseBreak, Loop, IInv, TypeOK
<1>8. CASE AbortBreak(p)
  <2>1. file'[0] \in {file[0], NoProc}
    BY <1>0, <1>8 DEF AbortBreak, Removed, IInv, TypeOK
  <2> QED BY <1>8, <2>1 DEF AbortBreak, Leave, IInv, TypeOK
<1> QED BY <1>1, <1>2, <1>3, <1>4, <1>5, <1>6, <1>7, <1>8 DEF TryStep

LEMMA UseQuiet ==
    ASSUME IInv, NEW p \in Proc,
           Relock(p) \/ ReleaseNested(p) \/ ReleaseLock(p) \/ ReleaseNothing(p) \/ UnlinkLock(p)
    PROVE  Moves(p) /\ Quiet(p)
<1> USE DEF Moves, Local, Quiet, family, object
<1>0. 0 \in Level
  BY BoundAssumption DEF Level
<1>1. CASE Relock(p) \/ ReleaseNested(p) \/ ReleaseLock(p)
  BY <1>1 DEF Relock, ReleaseNested, ReleaseLock, IInv, TypeOK
<1>2. CASE ReleaseNothing(p)
  BY <1>2 DEF ReleaseNothing, Leave, IInv, TypeOK
<1>3. CASE UnlinkLock(p)
  <2>1. file'[0] \in {file[0], NoProc}
    BY <1>0, <1>3 DEF UnlinkLock, Removed, IInv, TypeOK
  <2> QED BY <1>3, <2>1 DEF UnlinkLock, Leave, IInv, TypeOK
<1> QED BY <1>1, <1>2, <1>3

LEMMA QuietKeeps ==
    ASSUME IInv, IInv', Family, Heirs, NEW p \in Proc, Moves(p), Quiet(p)
    PROVE  Family' /\ Heirs'
<1>1. Family'
  BY DEF Family, Moves, Local, Quiet
<1>2. Heirs'
  <2> SUFFICES ASSUME Dead' = {}, NEW q \in Proc, NEW r \in Proc, env[q] = r
               PROVE  /\ Made(r)' /\ pc'[r] = "system" /\ file'[0] = r
                      /\ \A T \in SUBSET Proc : Closed(T)' => q \in T
    BY DEF Heirs, Quiet, IInv, TypeOK
  <2>1. Dead = {}
    BY DEF Dead, Moves, Local
  <2>2. Made(r) /\ pc[r] = "system" /\ file[0] = r
    BY <2>1 DEF Heirs
  <2>3. r # p
    BY <2>2 DEF Quiet
  <2>4. Made(r)' /\ pc'[r] = "system"
    BY <2>2, <2>3 DEF Made, Uses, Moves, Local
  <2>5. file'[0] = r
    BY <2>2, <2>4 DEF IInv, FileOwned
  <2>6. ASSUME NEW T \in SUBSET Proc, Closed(T)' PROVE q \in T
    <3>1. Closed(T)
      BY <2>2, <2>5, <2>6 DEF Closed, Quiet
    <3> QED BY <2>1, <3>1, ProcAssumption DEF Heirs
  <2> QED BY <2>4, <2>5, <2>6
<1> QED BY <1>1, <1>2

\* Calling lock() takes over the name of the parent from the environment.
LEMMA LockFamily ==
    ASSUME IInv, IInv', Family, Heirs, NEW p \in Proc, Lock(p)
    PROVE  Moves(p) /\ Family' /\ Heirs'
<1>1. /\ pc[p] = "idle" /\ pc' = [pc EXCEPT ![p] = "make"]
      /\ tries' = [tries EXCEPT ![p] = <<Retries>>]
      /\ parentlock' = [parentlock EXCEPT ![p] = env[p]]
      /\ UNCHANGED <<file, locker, held, parentheld, pid, env, child>>
  BY DEF Lock, family
<1>2. Moves(p)
  BY <1>1 DEF Moves, Local, IInv, TypeOK
<1>3. Family'
  BY <1>1 DEF Family, IInv, TypeOK
<1>4. Heirs'
  <2>0. \A x \in Proc : env'[x] \in Proc \cup {NoProc}
    BY DEF IInv, TypeOK
  <2> SUFFICES ASSUME Dead' = {}, NEW x \in Proc, NEW r \in Proc, env[x] = r
               PROVE  /\ Made(r)' /\ pc'[r] = "system" /\ file[0] = r
                      /\ \A T \in SUBSET Proc : Closed(T)' => x \in T
    BY <1>1, <2>0 DEF Heirs
  <2>1. Dead = {}
    BY <1>2 DEF Dead, Moves, Local
  <2>2. Made(r) /\ pc[r] = "system" /\ file[0] = r
    BY <2>1 DEF Heirs
  <2>3. Made(r)' /\ pc'[r] = "system"
    BY <1>1, <2>2 DEF Made, Uses, IInv, TypeOK
  <2>4. ASSUME NEW T \in SUBSET Proc, Closed(T)' PROVE x \in T
    <3>1. Closed(T)
      BY <1>1, <2>4 DEF Closed
    <3> QED BY <2>1, <3>1, ProcAssumption DEF Heirs
  <2> QED BY <2>2, <2>3, <2>4
<1> QED BY <1>2, <1>3, <1>4

\* A subprocess is told of the lock.
LEMMA InheritFamily ==
    ASSUME IInv, IInv', Family, Heirs, NEW p \in Proc, NEW q \in Proc \ {p}, Inherit(p, q)
    PROVE  Moves(p) /\ Family' /\ Heirs'
<1>1. /\ pc[p] = "crit" /\ held[p] > 0 /\ pid[p] = p /\ pc' = [pc EXCEPT ![p] = "system"]
      /\ child' = [child EXCEPT ![p] = q]
      /\ pc[q] = "idle" /\ env[q] = NoProc /\ (parentheld[p] => parentlock[p] # NoProc)
      /\ UNCHANGED <<file, tries, locker, held, parentheld, parentlock, pid>>
  BY DEF Inherit, Free, object
<1>2. PICK r \in Proc : /\ env' = [env EXCEPT ![q] = r]
                        /\ ~parentheld[p] => r = p
                        /\ parentheld[p] => r = parentlock[p]
  BY DEF Inherit, IInv, TypeOK
<1>3. Moves(p)
  BY <1>1 DEF Moves, Local, IInv, TypeOK
<1>4. child[p] = NoProc /\ child[q] = NoProc /\ parentlock[q] = NoProc
  BY <1>1 DEF Family
<1>5. /\ \A x \in Proc \ {p} : child'[x] = child[x] /\ pc'[x] = pc[x]
      /\ child'[p] = q /\ pc'[p] = "system"
      /\ \A x \in Proc \ {q} : env'[x] = env[x]
      /\ env'[q] = r
  BY <1>1, <1>2 DEF IInv, TypeOK
<1>6. Family'
  BY <1>1, <1>4, <1>5, ProcAssumption DEF Family
<1>7. Heirs'
  <2> SUFFICES ASSUME Dead' = {}
               PROVE  /\ \A x, y \in Proc : env'[x] = y =>
                            Made(y)' /\ pc'[y] = "system" /\ file[0] = y
                      /\ \A T \in SUBSET Proc : Closed(T)' =>
                            \A x \in Proc : env'[x] # NoProc => x \in T
    BY <1>1 DEF Heirs
  <2>1. Dead = {}
    BY <1>3 DEF Dead, Moves, Local
  <2>2. CASE ~parentheld[p]
    <3>1. r = p /\ Made(p) /\ file[0] = p
      BY <1>1, <1>2, <2>1, <2>2 DEF Made, Uses, IInv, FileOwned
    <3>2. \A x \in Proc : env[x] = NoProc
      BY <1>1, <2>1, <3>1 DEF Heirs, IInv, TypeOK
    <3>3. Made(p)' /\ pc'[p] = "system"
      BY <1>1, <1>5, <2>2 DEF Made, Uses
    <3>4. ASSUME NEW T \in SUBSET Proc, Closed(T)' PROVE q \in T
      <4>1. child'[p] # NoProc
        BY <1>5, ProcAssumption
      <4> QED BY <1>1, <1>5, <3>1, <3>4, <4>1 DEF Closed
    <3>5. \A x, y \in Proc : env'[x] = y => x = q /\ y = p
      BY <1>5, <3>1, <3>2, ProcAssumption
    <3>6. \A x \in Proc : env'[x] # NoProc => x = q
      BY <1>5, <3>2
    <3> QED BY <3>1, <3>3, <3>4, <3>5, <3>6
  <2>3. CASE parentheld[p]
    <3>1. env[p] = r /\ r \in Proc /\ r # NoProc
      BY <1>1, <1>2, <2>3, ProcAssumption DEF Family
    <3>2. Made(r) /\ pc[r] = "system" /\ file[0] = r
      BY <2>1, <3>1 DEF Heirs
    <3>3. \A x, y \in Proc : env'[x] = y => y = r
      BY <1>5, <2>1, <3>2 DEF Heirs
    <3>4. Made(r)' /\ pc'[r] = "system"
      BY <1>1, <1>5, <3>2 DEF Made, Uses
    <3>5. ASSUME NEW T \in SUBSET Proc, Closed(T)', NEW x \in Proc, env'[x] # NoProc PROVE x \in T
      <4>1. Closed(T)
        BY <1>1, <1>4, <1>5, <3>5 DEF Closed
      <4>2. \A y \in Proc : env[y] # NoProc => y \in T
        BY <2>1, <4>1 DEF Heirs
      <4>3. p \in T
        BY <3>1, <4>2
      <4>4. q \in T
        BY <1>5, <3>5, <4>3, ProcAssumption DEF Closed
      <4> QED BY <1>5, <3>5, <4>2, <4>4
    <3> QED BY <3>2, <3>3, <3>4, <3>5
  <2> QED BY <2>2, <2>3
<1> QED BY <1>3, <1>6, <1>7

\* The subprocess has ended: it has no subprocess itself, so that nobody else
\* descends from it.
LEMMA InheritEndFamily ==
    ASSUME IInv, IInv', Family, Heirs, NEW p \in Proc, InheritEnd(p)
    PROVE  Moves(p) /\ Family' /\ Heirs'
<1> DEFINE c == child[p]
<1>1. /\ pc[p] = "system" /\ pc[c] \in {"idle", "dead"} /\ pc' = [pc EXCEPT ![p] = "crit"]
      /\ child' = [child EXCEPT ![p] = NoProc] /\ env' = [env EXCEPT ![c] = NoProc]
      /\ UNCHANGED <<file, tries, locker, held, parentheld, parentlock, pid>>
  BY DEF InheritEnd, object
<1>2. c \in Proc /\ c = child[p]
  BY <1>1 DEF Family, IInv, TypeOK
<1> HIDE DEF c
<1>3. Moves(p)
  BY <1>1 DEF Moves, Local, IInv, TypeOK
<1>4. child[c] = NoProc /\ parentlock[c] = NoProc /\ c # p /\ c # NoProc
  BY <1>1, <1>2, ProcAssumption DEF Family
<1>5. /\ \A x \in Proc \ {p} : child'[x] = child[x] /\ pc'[x] = pc[x]
      /\ child'[p] = NoProc /\ pc'[p] = "crit"
      /\ \A x \in Proc \ {c} : env'[x] = env[x]
      /\ env'[c] = NoProc
  BY <1>1, <1>2 DEF IInv, TypeOK
<1>6. Family'
  BY <1>1, <1>4, <1>5, ProcAssumption DEF Family
<1>7. Heirs'
  <2>0. \A x \in Proc : env'[x] \in Proc \cup {NoProc}
    BY DEF IInv, TypeOK
  <2> SUFFICES ASSUME Dead' = {}, NEW x \in Proc, NEW r \in Proc, env'[x] = r
               PROVE  /\ Made(r)' /\ pc'[r] = "system" /\ file[0] = r
                      /\ \A T \in SUBSET Proc : Closed(T)' => x \in T
    BY <1>1, <2>0 DEF Heirs
  <2>1. Dead = {} /\ x # c /\ env[x] = r
    <3>1. Dead = {}
      BY <1>3 DEF Dead, Moves, Local
    <3> QED BY <1>5, <3>1, ProcAssumption
  <2>2. Made(r) /\ pc[r] = "system" /\ file[0] = r
    BY <2>1, ProcAssumption DEF Heirs
  <2>3. ASSUME NEW T \in SUBSET Proc, Closed(T)' PROVE x \in T
    <3>1. Closed(T \cup {c})
      BY <1>1, <1>2, <1>4, <1>5, <2>3 DEF Closed
    <3> QED BY <1>2, <2>1, <3>1, ProcAssumption DEF Heirs
  <2>4. r # p
    <3> SUFFICES ASSUME r = p PROVE FALSE
      OBVIOUS
    <3>1. Closed({c})
      BY <1>2, <1>4, <2>2 DEF Closed
    <3> QED BY <1>2, <2>1, <3>1, ProcAssumption DEF Heirs
  <2>5. Made(r)' /\ pc'[r] = "system"
    BY <1>1, <1>5, <2>2, <2>4 DEF Made, Uses
  <2> QED BY <2>2, <2>3, <2>5
<1> QED BY <1>3, <1>6, <1>7

\* The copy of a lock object does not say its own pid.
LEMMA ForkFamily ==
    ASSUME IInv, IInv', Family, Heirs, NEW p \in Proc, NEW q \in Proc \ {p}, Fork(p, q)
    PROVE  Moves(q) /\ Family' /\ Heirs'
<1>1. /\ pc[q] = "idle" /\ pid[p] # q /\ pc' = [pc EXCEPT ![q] = "crit"]
      /\ held' = [held EXCEPT ![q] = held[p]]
      /\ parentheld' = [parentheld EXCEPT ![q] = parentheld[p]]
      /\ parentlock' = [parentlock EXCEPT ![q] = parentlock[p]]
      /\ pid' = [pid EXCEPT ![q] = pid[p]]
      /\ UNCHANGED <<file, tries, locker, env, child>>
  BY DEF Fork, Free, family
<1>2. Moves(q)
  BY <1>1 DEF Moves, Local, IInv, TypeOK
<1>3. Family'
  BY <1>1 DEF Family, IInv, TypeOK
<1>4. Heirs'
  <2>0. \A x \in Proc : env'[x] \in Proc \cup {NoProc}
    BY DEF IInv, TypeOK
  <2> SUFFICES ASSUME Dead' = {}, NEW x \in Proc, NEW r \in Proc, env[x] = r
               PROVE  /\ Made(r)' /\ pc'[r] = "system" /\ file[0] = r
                      /\ \A T \in SUBSET Proc : Closed(T)' => x \in T
    BY <1>1, <2>0 DEF Heirs
  <2>1. Dead = {}
    BY <1>2 DEF Dead, Moves, Local
  <2>2. Made(r) /\ pc[r] = "system" /\ file[0] = r
    BY <2>1 DEF Heirs
  <2>3. Made(r)' /\ pc'[r] = "system"
    BY <1>1, <2>2 DEF Made, Uses, IInv, TypeOK
  <2>4. ASSUME NEW T \in SUBSET Proc, Closed(T)' PROVE x \in T
    <3>1. Closed(T)
      BY <1>1, <2>4 DEF Closed
    <3> QED BY <2>1, <3>1, ProcAssumption DEF Heirs
  <2> QED BY <2>2, <2>3, <2>4
<1> QED BY <1>2, <1>3, <1>4

LEMMA CrashFamily ==
    ASSUME IInv, Family, NEW p \in Proc, Crash(p)
    PROVE  Moves(p) /\ Family' /\ Heirs' /\ pc'[p] = "dead"
<1>1. /\ pc[p] # "dead" /\ pc' = [pc EXCEPT ![p] = "dead"] /\ file' = file
      /\ tries' = [tries EXCEPT ![p] = <<>>] /\ locker' = [locker EXCEPT ![p] = NoProc]
      /\ held' = [held EXCEPT ![p] = 0] /\ parentheld' = [parentheld EXCEPT ![p] = FALSE]
      /\ parentlock' = [parentlock EXCEPT ![p] = NoProc] /\ pid' = [pid EXCEPT ![p] = p]
      /\ env' = [env EXCEPT ![p] = NoProc] /\ child' = [child EXCEPT ![p] = NoProc]
  BY DEF Crash, Leave
<1>2. Moves(p) /\ pc'[p] = "dead"
  BY <1>1 DEF Moves, Local, IInv, TypeOK
<1>3. Family'
  BY <1>1 DEF Family, IInv, TypeOK
<1>4. Heirs'
  BY <1>2 DEF Heirs, Dead
<1> QED BY <1>2, <1>3, <1>4

LEMMA FamilyKeeps ==
    ASSUME IInv, IInv', Family, Heirs, Next
    PROVE  Family' /\ Heirs' /\ \E m \in Proc : Moves(m)
<1> PICK p \in Proc : Lock(p) \/ TryStep(p) \/ UseStep(p) \/ Crash(p)
  BY DEF Next
<1>1. CASE Lock(p)
  BY <1>1, LockFamily
<1>2. CASE TryStep(p)
  BY <1>2, TryQuiet, QuietKeeps
<1>3. CASE Relock(p) \/ ReleaseNested(p) \/ ReleaseLock(p) \/ ReleaseNothing(p) \/ UnlinkLock(p)
  BY <1>3, UseQuiet, QuietKeeps
<1>4. CASE InheritEnd(p)
  BY <1>4, InheritEndFamily
<1>5. CASE \E q \in Proc \ {p} : Inherit(p, q)
  BY <1>5, InheritFamily
<1>6. CASE \E q \in Proc \ {p} : Fork(p, q)
  BY <1>6, ForkFamily
<1>7. CASE Crash(p)
  BY <1>7, CrashFamily
<1> QED BY <1>1, <1>2, <1>3, <1>4, <1>5, <1>6, <1>7 DEF UseStep

LEMMA FamilyInit == Init => Family /\ Heirs
<1> SUFFICES ASSUME Init PROVE Family /\ Heirs
  OBVIOUS
<1>1. Family
  BY DEF Init, Family
<1>2. \A q \in Proc : env[q] = NoProc
  BY DEF Init
<1>3. Heirs
  BY <1>2, ProcAssumption DEF Heirs
<1> QED BY <1>1, <1>3

-----------------------------------------------------------------------------
(* Attempts that are lost                                                  *)

\* The dead whose lock file is gone, and the attempts that p has lost.
Gone == {d \in Dead : file[0] # d}
Spent(p) == Retries - tries[p][1]

\* Each attempt at the lock proper that p has lost has done away with the file
\* of another dead process; the attempt that is under way is about to do so,
\* and then no longer counts the dead process d that it is for.
Even(p) == Spent(p) <= Cardinality(Gone)
Ahead(p) == Spent(p) <= Cardinality(Gone) + 1
AheadOf(p, d) == Spent(p) <= Cardinality(Gone \ {d}) + 1
Breaking(p) == \E d \in Dead : AheadOf(p, d)
Losing(p) ==
    /\ Len(tries[p]) = 1 => /\ pc[p] = "make" => Even(p)
                            /\ pc[p] = "read" => Ahead(p)
                            /\ pc[p] = "test" => AheadOf(p, locker[p])
    /\ Len(tries[p]) = 2 /\ pc[p] = "unbreak" => Even(p)
    /\ Len(tries[p]) # 1 /\ ~(Len(tries[p]) = 2 /\ pc[p] = "unbreak") => Breaking(p)

Losses == \A p \in Proc : pc[p] \in Trying /\ parentlock[p] = NoProc => Losing(p)

\* RetriesSuffice of one process
Got(p) == pc[p] = "crit" /\ pid[p] = p =>
              \/ held[p] > 0
              \/ Cardinality(Dead) >= Retries
              \/ Dead # {} /\ parentlock[p] # NoProc

\* The dead stay dead, and make no files.
LEMMA Grows ==
    ASSUME IInv, NEW m \in Proc, Moves(m)
    PROVE  /\ Dead \subseteq Dead' /\ Gone \subseteq Gone'
           /\ Cardinality(Dead) \in Nat /\ Cardinality(Gone) \in Nat
           /\ Cardinality(Dead') \in Nat /\ Cardinality(Gone') \in Nat
           /\ Cardinality(Dead) <= Cardinality(Dead')
           /\ Cardinality(Gone) <= Cardinality(Gone')
           /\ \A d : /\ Cardinality(Gone \ {d}) \in Nat /\ Cardinality(Gone' \ {d}) \in Nat
                     /\ Cardinality(Gone \ {d}) <= Cardinality(Gone' \ {d})
<1>1. Dead \subseteq Dead' /\ m \notin Dead
  BY DEF Dead, Moves, Local
<1>2. Gone \subseteq Gone'
  BY <1>1, ProcAssumption DEF Gone, Moves, Dead
<1>3. \A S \in SUBSET Proc : IsFiniteSet(S) /\ Cardinality(S) \in Nat
  BY ProcAssumption, FS_Subset, FS_CardinalityType
<1>4. \A S, T \in SUBSET Proc : S \subseteq T => Cardinality(S) <= Cardinality(T)
  BY <1>3, FS_Subset
<1>5. Dead \in SUBSET Proc /\ Dead' \in SUBSET Proc /\ Gone \in SUBSET Proc /\ Gone' \in SUBSET Proc
  BY DEF Dead, Gone
<1>6. ASSUME NEW d
      PROVE  /\ Gone \ {d} \in SUBSET Proc /\ Gone' \ {d} \in SUBSET Proc
             /\ Gone \ {d} \subseteq Gone' \ {d}
  BY <1>2, <1>5
<1> HIDE DEF Dead, Gone
<1> QED BY <1>1, <1>2, <1>3, <1>4, <1>5, <1>6

\* As long as p loses no other attempt, it stays even.
LEMMA StaysEven ==
    ASSUME IInv, NEW m \in Proc, Moves(m), NEW p \in Proc, pc[p] \in Trying,
           tries'[p][1] = tries[p][1]
    PROVE  /\ Even(p) => Even(p)'
           /\ Ahead(p) => Ahead(p)'
           /\ \A d : AheadOf(p, d) => AheadOf(p, d)'
           /\ Breaking(p) => Breaking(p)'
<1>1. Spent(p) \in Int /\ Spent(p)' = Spent(p)
  BY TryingFacts, BoundAssumption DEF Spent
<1> HIDE DEF Spent
<1>2. Even(p) => Even(p)'
  BY <1>1, Grows DEF Even
<1>3. Ahead(p) => Ahead(p)'
  BY <1>1, Grows DEF Ahead
<1>4. ASSUME NEW d, AheadOf(p, d) PROVE AheadOf(p, d)'
  <2>1. /\ Cardinality(Gone \ {d}) \in Nat /\ Cardinality(Gone' \ {d}) \in Nat
        /\ Cardinality(Gone \ {d}) <= Cardinality(Gone' \ {d})
    BY Grows
  <2> QED BY <1>1, <1>4, <2>1 DEF AheadOf
<1>5. Dead \subseteq Dead'
  BY Grows
<1>6. Breaking(p) => Breaking(p)'
  BY <1>4, <1>5 DEF Breaking
<1> QED BY <1>2, <1>3, <1>4, <1>6

\* What others lose and get is not disturbed.
LEMMA OthersLose ==
    ASSUME IInv, Losses, RetriesSuffice, NEW m \in Proc, Moves(m)
    PROVE  \A x \in Proc \ {m} : /\ pc'[x] \in Trying /\ parentlock'[x] = NoProc => Losing(x)'
                                 /\ Got(x)'
<1> SUFFICES ASSUME NEW x \in Proc \ {m}
             PROVE  /\ pc'[x] \in Trying /\ parentlock'[x] = NoProc => Losing(x)'
                    /\ Got(x)'
  OBVIOUS
<1>1. /\ pc'[x] = pc[x] /\ tries'[x] = tries[x] /\ locker'[x] = locker[x]
      /\ parentlock'[x] = parentlock[x] /\ pid'[x] = pid[x] /\ held'[x] = held[x]
  BY DEF Moves, Local
<1>2. Got(x)'
  <2>1. /\ Cardinality(Dead) >= Retries => Cardinality(Dead') >= Retries
        /\ Dead # {} => Dead' # {}
    BY Grows, BoundAssumption
  <2>2. Got(x)
    BY DEF RetriesSuffice, Got
  <2> QED BY <1>1, <2>1, <2>2 DEF Got
<1>3. ASSUME pc[x] \in Trying, parentlock[x] = NoProc PROVE Losing(x)'
  <2>1. Losing(x)
    BY <1>3 DEF Losses
  <2>2. /\ Even(x) => Even(x)'
        /\ Ahead(x) => Ahead(x)'
        /\ Breaking(x) => Breaking(x)'
    BY <1>1, <1>3, StaysEven
  <2>3. ASSUME NEW d, d = locker[x], AheadOf(x, locker[x]) PROVE AheadOf(x, locker[x])'
    <3>1. AheadOf(x, d)'
      BY <1>1, <1>3, <2>3, StaysEven
    <3> QED BY <1>1, <2>3, <3>1 DEF AheadOf
  <2> QED BY <1>1, <2>1, <2>2, <2>3 DEF Losing
<1> QED BY <1>1, <1>2, <1>3

\* The attempts at the lock proper, whatever happens above it.
LEMMA FirstTries ==
    ASSUME NEW S, NEW q \in Seq(S), q # <<>>, NEW e \in S
    PROVE  /\ Len(q) \in Nat /\ Len(q) >= 1 /\ q[1] \in S
           /\ Len(q) >= 2 => /\ [q EXCEPT ![Len(q)] = e][1] = q[1]
                             /\ SubSeq(q, 1, Len(q) - 1)[1] = q[1]
           /\ Len(q) = 1 => [q EXCEPT ![Len(q)] = e][1] = e
           /\ Append(q, e)[1] = q[1]
<1>1. Len(q) \in Nat /\ Len(q) >= 1 /\ q[1] \in S
  OBVIOUS
<1>2. ASSUME Len(q) >= 2 PROVE [q EXCEPT ![Len(q)] = e][1] = q[1]
  BY <1>2
<1>3. ASSUME Len(q) >= 2 PROVE SubSeq(q, 1, Len(q) - 1)[1] = q[1]
  BY <1>1, <1>3, SubSeqProperties
<1>4. ASSUME Len(q) = 1 PROVE [q EXCEPT ![Len(q)] = e][1] = e
  BY <1>4
<1>5. Append(q, e)[1] = q[1]
  BY <1>1
<1> QED BY <1>1, <1>2, <1>3, <1>4, <1>5

\* The steps of lock().
LEMMA TryLoses ==
    ASSUME IInv, Family, Heirs, Losses, RetriesSuffice, NEW p \in Proc, TryStep(p)
    PROVE  /\ pc'[p] \in Trying /\ parentlock'[p] = NoProc => Losing(p)'
           /\ Got(p)'
<1> DEFINE q == tries[p]
<1>0. /\ pc[p] \in Trying /\ q \in Seq(0..Retries) /\ q # <<>> /\ Len(q) \in Nat /\ Len(q) >= 1
      /\ q[1] \in 0..Retries /\ Retries \in Nat /\ Retries \in 0..Retries
      /\ Top(p) = Len(q) - 1 /\ (Dead = {} => Len(q) = 1)
  <2>1. pc[p] \in Trying
    BY DEF TryStep, MakeLock, LockExists, LockUnavailable, ReadLock, TestLock, BreakLock,
       ReleaseBreak, AbortBreak, Trying
  <2>2. q \in Seq(0..Retries) /\ q # <<>> /\ Retries \in 0..Retries /\ (Dead = {} => Len(q) = 1)
    BY <2>1, TryingFacts
  <2> QED BY <2>1, <2>2, FirstTries, BoundAssumption DEF Top
<1>1. /\ Cardinality(Dead) \in Nat /\ Cardinality(Gone) \in Nat
      /\ Cardinality(Dead') \in Nat /\ Cardinality(Gone') \in Nat
      /\ Cardinality(Dead) <= Cardinality(Dead')
      /\ Cardinality(Gone) <= Cardinality(Gone') /\ Dead \subseteq Dead'
      /\ \A d : /\ Cardinality(Gone \ {d}) \in Nat /\ Cardinality(Gone' \ {d}) \in Nat
                /\ Cardinality(Gone \ {d}) <= Cardinality(Gone' \ {d})
  BY TryQuiet, Grows
<1>2. parentlock[p] = NoProc => Losing(p)
  BY <1>0 DEF Losses
<1>3. ASSUME tries'[p][1] = q[1]
      PROVE  /\ Even(p) => Even(p)'
             /\ Ahead(p) => Ahead(p)'
             /\ \A d : AheadOf(p, d) => AheadOf(p, d)'
             /\ Breaking(p) => Breaking(p)'
  BY <1>0, <1>3, TryQuiet, StaysEven
<1>4. ASSUME Refuse(p) \/ Leave(p, "idle")
      PROVE  (pc'[p] \in Trying => Losing(p)') /\ Got(p)'
  <2>1. \/ pc'[p] = "make" /\ tries'[p] = <<Retries>>
        \/ pc'[p] = "idle" /\ tries'[p] = <<>>
    BY <1>4 DEF Refuse, Leave, IInv, TypeOK
  <2>2. CASE pc'[p] = "make" /\ tries'[p] = <<Retries>>
    <3>1. Spent(p)' = 0 /\ Len(tries'[p]) = 1
      BY <1>0, <2>2 DEF Spent
    <3>2. Even(p)'
      BY <1>1, <3>1 DEF Even
    <3>3. Losing(p)'
      BY <2>2, <3>1, <3>2 DEF Losing
    <3> QED BY <2>2, <3>3 DEF Got
  <2>3. CASE pc'[p] = "idle" /\ tries'[p] = <<>>
    BY <2>3 DEF Trying, Got
  <2> QED BY <2>1, <2>2, <2>3
<1>5. CASE MakeLock(p)
  <2>1. /\ pc[p] = "make" /\ held'[p] = 1 /\ parentlock' = parentlock
        /\ \/ pc'[p] = "crit" /\ Len(q) = 1
           \/ pc'[p] = "break" /\ tries'[p] = q /\ Len(q) # 1
    BY <1>0, <1>5 DEF MakeLock, Enter, IInv, TypeOK
  <2>2. CASE pc'[p] = "crit"
    BY <2>1, <2>2 DEF Got, Trying
  <2>3. CASE pc'[p] = "break"
    <3>1. ASSUME parentlock[p] = NoProc PROVE Losing(p)'
      <4>1. Breaking(p)
        BY <1>2, <2>1, <2>3, <3>1 DEF Losing
      <4> QED BY <1>3, <2>1, <2>3, <4>1 DEF Losing
    <3> QED BY <2>1, <2>3, <3>1 DEF Got
  <2> QED BY <2>1, <2>2, <2>3
<1>6. CASE LockExists(p)
  <2> DEFINE n == q[Len(q)] - 1
  <2>1. /\ pc[p] = "make" /\ pc'[p] = "read" /\ parentlock' = parentlock /\ UNCHANGED file
        /\ tries'[p] = [q EXCEPT ![Len(q)] = n]
    BY <1>6 DEF LockExists, IInv, TypeOK, object
  <2>2. n \in 0..Retries
    <3>1. q[Len(q)] > 0
      BY <2>1 DEF IInv, Shape
    <3>2. q[Len(q)] \in 0..Retries
      BY <1>0, TriesFacts
    <3> QED BY <1>0, <3>1, <3>2
  <2> HIDE DEF n
  <2>3. Len(tries'[p]) = Len(q) /\ (Len(q) # 1 => tries'[p][1] = q[1]) /\ (Len(q) = 1 => tries'[p][1] = n)
    BY <1>0, <2>1, <2>2, TriesFacts, FirstTries
  <2>4. ASSUME parentlock[p] = NoProc PROVE Losing(p)'
    <3>1. CASE Len(q) = 1
      <4>1. Spent(p)' = Spent(p) + 1 /\ Spent(p) \in Int
        BY <1>0, <2>3, <3>1 DEF Spent, n
      <4>2. Even(p)
        BY <1>2, <2>1, <2>4, <3>1 DEF Losing
      <4>3. Ahead(p)'
        BY <1>1, <4>1, <4>2 DEF Even, Ahead
      <4> QED BY <2>1, <2>3, <3>1, <4>3 DEF Losing
    <3>2. CASE Len(q) # 1
      <4>1. Breaking(p)
        BY <1>2, <2>1, <2>4, <3>2 DEF Losing
      <4> QED BY <1>3, <2>1, <2>3, <3>2, <4>1 DEF Losing
    <3> QED BY <3>1, <3>2
  <2> QED BY <2>1, <2>4 DEF Got
<1>7. CASE LockUnavailable(p)
  BY <1>4, <1>7 DEF LockUnavailable
<1>8. CASE ReadLock(p)
  <2>0. pc[p] = "read" /\ pid[p] = p /\ UNCHANGED <<file, parentlock, pid, env>>
    BY <1>8 DEF ReadLock, family, IInv, Shape
  <2>1. CASE file[Top(p)] = ParentLock(p)
    <3>1. /\ held'[p] = 1
          /\ \/ pc'[p] = "crit" /\ Len(q) = 1
             \/ pc'[p] = "break" /\ tries'[p] = q /\ Len(q) # 1
      BY <1>0, <1>8, <2>1 DEF ReadLock, Enter, IInv, TypeOK
    <3>2. CASE pc'[p] = "crit"
      BY <3>1, <3>2 DEF Got, Trying
    <3>3. CASE pc'[p] = "break"
      <4>1. ASSUME parentlock[p] = NoProc PROVE Losing(p)'
        <5>1. Breaking(p)
          BY <1>2, <2>0, <3>1, <3>3, <4>1 DEF Losing
        <5> QED BY <1>3, <3>1, <3>3, <5>1 DEF Losing
      <4> QED BY <2>0, <3>3, <4>1 DEF Got
    <3> QED BY <3>1, <3>2, <3>3
  <2>2. CASE file[Top(p)] # ParentLock(p) /\ file[Top(p)] # NoProc
    <3>1. pc'[p] = "test" /\ locker'[p] = file[Top(p)] /\ tries'[p] = q
      BY <1>8, <2>2 DEF ReadLock, IInv, TypeOK
    <3>2. ASSUME parentlock[p] = NoProc PROVE Losing(p)'
      <4>1. CASE Len(q) = 1
        <5>1. locker'[p] = file[0]
          BY <1>0, <3>1, <4>1
        <5>2. Gone' \ {locker'[p]} = Gone'
          BY <2>0, <5>1 DEF Gone
        <5>3. Ahead(p)
          BY <1>2, <2>0, <3>2, <4>1 DEF Losing
        <5>4. Ahead(p)'
          BY <1>3, <3>1, <5>3
        <5>5. AheadOf(p, locker[p])'
          BY <5>2, <5>4 DEF Ahead, AheadOf
        <5> QED BY <3>1, <4>1, <5>5 DEF Losing
      <4>2. CASE Len(q) # 1
        <5>1. Breaking(p)
          BY <1>2, <2>0, <3>2, <4>2 DEF Losing
        <5> QED BY <1>3, <3>1, <4>2, <5>1 DEF Losing
      <4> QED BY <4>1, <4>2
    <3> QED BY <2>0, <3>1, <3>2 DEF Got
  <2>3. CASE file[Top(p)] # ParentLock(p) /\ file[Top(p)] = NoProc
    <3>1. Loop(p, q)
      BY <1>8, <2>3 DEF ReadLock
    <3>2. \/ pc'[p] = "crit" /\ Len(q) = 1
          \/ pc'[p] \in {"make", "break"} /\ tries'[p] = q
      BY <1>0, <3>1 DEF Loop, IInv, TypeOK
    <3>3. Len(q) = 1 => parentlock[p] # NoProc /\ Dead # {}
      <4> SUFFICES ASSUME Len(q) = 1 PROVE parentlock[p] # NoProc /\ Dead # {}
        OBVIOUS
      <4>1. Top(p) = 0
        BY <1>0
      <4>2. parentlock[p] # NoProc /\ file[0] = NoProc
        BY <2>3, <4>1 DEF ParentLock
      <4>3. env[p] = parentlock[p] /\ parentlock[p] \in Proc
        BY <2>0, <4>2 DEF Family, IInv, TypeOK
      <4>4. Dead = {} => file[0] = parentlock[p]
        BY <4>3 DEF Heirs
      <4> QED BY <4>2, <4>4
    <3>4. CASE pc'[p] = "crit"
      BY <1>1, <2>0, <3>2, <3>3, <3>4 DEF Got, Trying
    <3>5. CASE pc'[p] \in {"make", "break"}
      <4>1. ASSUME parentlock[p] = NoProc PROVE Losing(p)'
        <5>1. Len(q) # 1
          BY <3>3, <4>1
        <5>2. Breaking(p)
          BY <1>2, <2>0, <4>1, <5>1 DEF Losing
        <5> QED BY <1>3, <3>2, <3>5, <5>1, <5>2 DEF Losing
      <4> QED BY <2>0, <3>5, <4>1 DEF Got
    <3> QED BY <3>2, <3>4, <3>5
  <2> QED BY <2>1, <2>2, <2>3
<1>9. CASE TestLock(p)
  <2>1. CASE locker[p] \in Dead
    <3>1. /\ pc[p] = "test" /\ pc'[p] = "make" /\ parentlock' = parentlock
          /\ tries'[p] = Append(q, Retries)
      BY <1>9, <2>1 DEF TestLock, object, Refuse, IInv, TypeOK
    <3>2. Len(tries'[p]) # 1 /\ tries'[p][1] = q[1]
      BY <1>0, <3>1, TriesFacts, FirstTries
    <3>3. ASSUME parentlock[p] = NoProc PROVE Losing(p)'
      <4>1. Breaking(p)
        BY <1>2, <2>1, <3>1, <3>3 DEF Losing, Breaking
      <4> QED BY <1>3, <3>1, <3>2, <4>1 DEF Losing
    <3> QED BY <3>1, <3>3 DEF Got
  <2>2. CASE locker[p] \notin Dead
    BY <1>4, <1>9, <2>2 DEF TestLock
  <2> QED BY <2>1, <2>2
<1>10. CASE BreakLock(p)
  <2>1. /\ pc[p] = "break" /\ pc'[p] \in {"unbreak", "abort"} /\ tries'[p] = q /\ parentlock' = parentlock
        /\ file' = [file EXCEPT ![Top(p) - 1] = NoProc] /\ pc' = [pc EXCEPT ![p] = pc'[p]]
    BY <1>10 DEF BreakLock, object, IInv, TypeOK
  <2>2. Len(q) >= 2 /\ Len(q) # 1
    <3>1. Len(q) >= 2
      BY <2>1 DEF IInv, Shape
    <3> QED BY <1>0, <3>1, CountFacts, Zenon
  <2>3. ASSUME parentlock[p] = NoProc PROVE Losing(p)'
    <3>1. Breaking(p)
      BY <1>2, <2>1, <2>2, <2>3 DEF Losing
    <3>2. Breaking(p)'
      BY <1>3, <2>1, <3>1
    <3>3. ASSUME Len(q) = 2 PROVE Even(p)'
      <4>1. PICK d \in Dead : AheadOf(p, d)
        BY <3>1 DEF Breaking
      <4>2. AheadOf(p, d)' /\ d \in Dead'
        BY <1>1, <1>3, <2>1, <4>1
      <4>3. file'[0] = NoProc
        <5>1. 0 \in Level /\ Top(p) - 1 = 0
          BY <1>0, <3>3, BoundAssumption DEF Level
        <5> QED BY <2>1, <5>1 DEF IInv, TypeOK
      <4>4. d \in Gone' /\ Gone' \in SUBSET Proc
        BY <4>2, <4>3, ProcAssumption DEF Gone, Dead
      <4>5. Cardinality(Gone' \ {d}) = Cardinality(Gone') - 1
        BY <4>4, ProcAssumption, FS_Subset, FS_RemoveElement
      <4> QED BY <1>1, <4>2, <4>5 DEF AheadOf, Even
    <3> QED BY <2>1, <2>2, <3>2, <3>3 DEF Losing
  <2> QED BY <2>1, <2>3 DEF Got
<1>11. CASE ReleaseBreak(p)
  <2> DEFINE ts == SubSeq(q, 1, Len(q) - 1)
  <2>1. pc[p] = "unbreak" /\ Loop(p, ts) /\ UNCHANGED <<parentlock, pid>>
    BY <1>11 DEF ReleaseBreak
  <2>2. Len(q) >= 2 /\ Len(q) # 1 /\ Dead # {}
    <3>1. Len(q) >= 2 /\ Dead # {}
      BY <2>1, BreakFacts
    <3> QED BY <1>0, <3>1, CountFacts, Zenon
  <2>3. ts \in Seq(0..Retries) /\ Len(ts) = Len(q) - 1 /\ ts[1] = q[1] /\ (Len(ts) = 1 <=> Len(q) = 2)
    <3>1. q \in Seq(0..Retries) /\ q # <<>> /\ Len(q) \in Nat /\ 0 \in 0..Retries
      BY <1>0, <2>2, BoundAssumption
    <3> HIDE DEF q
    <3>2. ts \in Seq(0..Retries) /\ Len(ts) = Len(q) - 1
      BY <2>2, <3>1, FrontFacts
    <3>3. ts[1] = q[1]
      BY <2>2, <3>1, FirstTries
    <3> QED BY <2>2, <3>1, <3>2, <3>3
  <2> HIDE DEF ts
  <2>4. \/ pc'[p] = "crit" /\ Len(ts) = 1 /\ ~(ts[1] > 0)
        \/ pc'[p] = "make" /\ tries'[p] = ts
        \/ pc'[p] = "break" /\ tries'[p] = ts /\ Len(ts) # 1
    BY <1>0, <2>1, <2>3 DEF Loop, IInv, TypeOK
  <2>5. parentlock[p] = NoProc =>
          IF Len(ts) = 1 THEN Even(p) ELSE Breaking(p)
    BY <1>2, <2>1, <2>2, <2>3 DEF Losing
  <2>6. CASE pc'[p] = "crit"
    <3>1. ASSUME parentlock[p] = NoProc PROVE Cardinality(Dead') >= Retries
      <4>1. Even(p) /\ q[1] = 0
        BY <1>0, <2>3, <2>4, <2>5, <2>6, <3>1
      <4>2. Retries <= Cardinality(Gone)
        BY <1>0, <4>1 DEF Even, Spent
      <4>3. Cardinality(Gone) <= Cardinality(Dead)
        <5>1. IsFiniteSet(Dead) /\ Gone \subseteq Dead
          BY ProcAssumption, FS_Subset DEF Gone, Dead
        <5> QED BY <5>1, FS_Subset
      <4> QED BY <1>0, <1>1, <4>2, <4>3
    <3> QED BY <1>1, <2>1, <2>2, <2>6, <3>1 DEF Got, Trying
  <2>7. CASE tries'[p] = ts /\ pc'[p] \in {"make", "break"}
    <3>1. ASSUME parentlock[p] = NoProc PROVE Losing(p)'
      <4>1. IF Len(ts) = 1 THEN Even(p)' ELSE Breaking(p)'
        BY <1>3, <2>3, <2>5, <2>7, <3>1
      <4>2. Len(ts) = 1 => pc'[p] = "make"
        BY <2>4, <2>7
      <4> QED BY <2>7, <4>1, <4>2 DEF Losing
    <3> QED BY <2>1, <2>7, <3>1 DEF Got
  <2> QED BY <2>4, <2>6, <2>7
<1>12. CASE AbortBreak(p)
  BY <1>4, <1>12 DEF AbortBreak
<1> QED BY <1>5, <1>6, <1>7, <1>8, <1>9, <1>10, <1>11, <1>12 DEF TryStep

\* Every other step leaves the one that moves with a lock, or out of lock(), or
\* at its first attempt.
LEMMA OwnLoses ==
    ASSUME IInv, IInv', Family, Heirs, Losses, RetriesSuffice, Next
    PROVE  \E m \in Proc : /\ Moves(m)
                           /\ pc'[m] \in Trying /\ parentlock'[m] = NoProc => Losing(m)'
                           /\ Got(m)'
<1> PICK p \in Proc : Lock(p) \/ TryStep(p) \/ UseStep(p) \/ Crash(p)
  BY DEF Next
<1>1. CASE Lock(p)
  <2>1. pc'[p] = "make" /\ tries'[p] = <<Retries>>
    BY <1>1 DEF Lock, IInv, TypeOK
  <2>2. Spent(p)' = 0 /\ Len(tries'[p]) = 1
    BY <2>1, BoundAssumption DEF Spent
  <2>3. Even(p)'
    BY <1>1, <2>2, LockFamily, Grows DEF Even
  <2>4. Losing(p)'
    BY <2>1, <2>2, <2>3 DEF Losing
  <2> QED BY <1>1, <2>1, <2>4, LockFamily DEF Got
<1>2. CASE TryStep(p)
  BY <1>2, TryQuiet, TryLoses
<1>3. CASE Relock(p) \/ ReleaseNested(p) \/ ReleaseLock(p) \/ ReleaseNothing(p) \/ UnlinkLock(p)
  <2>1. pc'[p] \notin Trying
    BY <1>3 DEF Relock, ReleaseNested, ReleaseLock, ReleaseNothing, UnlinkLock, Leave, Trying,
       IInv, TypeOK
  <2>2. pc'[p] = "crit" => held'[p] > 0
    BY <1>3 DEF Relock, ReleaseNested, ReleaseLock, ReleaseNothing, UnlinkLock, Leave,
       IInv, TypeOK
  <2> QED BY <1>3, <2>1, <2>2, UseQuiet DEF Got
<1>4. CASE InheritEnd(p)
  <2>1. pc'[p] = "crit" /\ held'[p] > 0
    BY <1>4 DEF InheritEnd, object, Family, IInv, TypeOK
  <2> QED BY <1>4, <2>1, InheritEndFamily DEF Got, Trying
<1>5. CASE \E q \in Proc \ {p} : Inherit(p, q)
  <2>1. pc'[p] = "system"
    BY <1>5 DEF Inherit, IInv, TypeOK
  <2> QED BY <1>5, <2>1, InheritFamily DEF Got, Trying
<1>6. ASSUME NEW q \in Proc \ {p}, Fork(p, q)
      PROVE  /\ Moves(q) /\ pc'[q] \notin Trying /\ Got(q)'
  <2>1. pc'[q] = "crit" /\ held'[q] > 0
    BY <1>6 DEF Fork, IInv, TypeOK
  <2>2. Moves(q)
    BY <1>6 DEF Fork, Free, Moves, Local, IInv, TypeOK
  <2> QED BY <2>1, <2>2 DEF Got, Trying
<1>7. CASE Crash(p)
  <2>1. pc'[p] = "dead"
    BY <1>7 DEF Crash, Leave, IInv, TypeOK
  <2> QED BY <1>7, <2>1, CrashFamily DEF Got, Trying
<1> QED BY <1>1, <1>2, <1>3, <1>4, <1>5, <1>6, <1>7 DEF UseStep

LEMMA LossesKeeps ==
    ASSUME IInv, IInv', Family, Heirs, Losses, RetriesSuffice, Next
    PROVE  Losses' /\ RetriesSuffice'
<1>1. PICK m \in Proc : /\ Moves(m)
                        /\ pc'[m] \in Trying /\ parentlock'[m] = NoProc => Losing(m)'
                        /\ Got(m)'
  BY OwnLoses
<1>2. \A x \in Proc : /\ pc'[x] \in Trying /\ parentlock'[x] = NoProc => Losing(x)'
                      /\ Got(x)'
  BY <1>1, OthersLose
<1> QED BY <1>2 DEF Losses, RetriesSuffice, Got

\* What holds besides IInv
Descent == Family /\ Heirs /\ Losses /\ RetriesSuffice

LEMMA DescentInit == Init => Descent
<1> SUFFICES ASSUME Init PROVE Losses /\ RetriesSuffice
  BY FamilyInit DEF Descent
<1> QED BY DEF Init, Losses, RetriesSuffice, Trying

LEMMA DescentKeeps == IInv /\ IInv' /\ Descent /\ [Next]_vars => Descent'
<1> SUFFICES ASSUME IInv, IInv', Descent, [Next]_vars PROVE Descent'
  OBVIOUS
<1>1. CASE UNCHANGED vars
  <2> USE <1>1 DEF vars, object, family, Dead, Top, Made, Uses, Closed, Gone, Spent
  <2>1. Family' /\ Heirs'
    BY DEF Descent, Family, Heirs
  <2>2. Losses' /\ RetriesSuffice'
    BY DEF Descent, Losses, RetriesSuffice, Losing, Even, Ahead, AheadOf, Breaking
  <2> QED BY <2>1, <2>2 DEF Descent
<1>2. CASE Next
  BY <1>2, FamilyKeeps, LossesKeeps DEF Descent
<1> QED BY <1>1, <1>2

-----------------------------------------------------------------------------
(* Theorems                                                                *)

\* The invariant holds of every behaviour of any number of processes, whatever
\* the bounds and whoever dies.
THEOREM Invariance == Spec => []IInv
<1>1. Init => IInv
  BY InitInv
<1>2. IInv /\ [Next]_vars => IInv'
  BY NextKeeps
<1> QED BY <1>1, <1>2, PTL DEF Spec

\* The variables keep their types: counts of attempts, of nested locks and of
\* .break levels stay in their ranges (_trylock, release).
THEOREM TypeCorrect == Spec => []TypeOK
<1>1. IInv => TypeOK
  BY DEF IInv
<1> QED BY <1>1, Invariance, PTL

\* No live process leaves a lock file behind, on any path of _trylock,
\* _testlock, release and __del__, however many processes die and whosever
\* files are broken.
THEOREM NoLeakHolds == Spec => []NoLeak
<1>1. IInv => NoLeak
  BY DEF IInv
<1> QED BY <1>1, Invariance, PTL

\* Until a process dies, who made the lock file has it until the outermost
\* release is through: no fork, subprocess, nested release or breaking of locks
\* takes it away (_trylock, release, inherit).
THEOREM FileOwnedHolds == Spec => []FileOwned
<1>1. IInv => FileOwned
  BY DEF IInv
<1> QED BY <1>1, Invariance, PTL

\* So two processes that made the lock file do not rely on it together, until
\* one dies.
THEOREM MakersExclude ==
    Spec => [](Dead = {} => \A p, q \in Proc : Made(p) /\ Made(q) => p = q)
<1>1. FileOwned => (Dead = {} => \A p, q \in Proc : Made(p) /\ Made(q) => p = q)
  BY DEF FileOwned
<1> QED BY <1>1, FileOwnedHolds, PTL

\* Who may use an inherited lock, and how many attempts were lost on which dead
\* processes, in every behaviour.
THEOREM DescentHolds == Spec => []Descent
<1>1. Init => Descent
  BY DescentInit
<1>2. IInv /\ IInv' /\ Descent /\ [Next]_vars => Descent'
  BY DescentKeeps
<1> QED BY <1>1, <1>2, Invariance, PTL DEF Spec

\* Until a process dies, a process that takes the lock of its parent for its own
\* does so while the parent has the file and waits for it, through any number of
\* generations of subprocesses and forks (inherit, _trylock).
THEOREM InheritedIsHeldHolds == Spec => []InheritedIsHeld
<1>1. IInv /\ Descent => InheritedIsHeld
  <2> SUFFICES ASSUME IInv, Descent, Dead = {}, NEW q \in Proc, Uses(q),
                      parentlock[q] # NoProc
               PROVE  /\ Made(parentlock[q])
                      /\ pc[parentlock[q]] = "system"
                      /\ file[0] = parentlock[q]
    BY DEF InheritedIsHeld
  <2>1. parentlock[q] \in Proc
    BY DEF IInv, TypeOK
  <2>2. env[q] = parentlock[q]
    BY DEF Descent, Family, Uses
  <2> QED BY <2>1, <2>2 DEF Descent, Heirs
<1> QED BY <1>1, Invariance, DescentHolds, PTL

\* The attempts of _trylock are enough: lock() returns with held = 0 and no
\* exception only if as many processes have died as it makes attempts, or a
\* dead parent was expected to have the lock.
THEOREM RetriesSufficeHolds == Spec => []RetriesSuffice
<1>1. Descent => RetriesSuffice
  BY DEF Descent
<1> QED BY <1>1, DescentHolds, PTL

=============================================================================
