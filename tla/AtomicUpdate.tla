--------------------------- MODULE AtomicUpdate ---------------------------
(***************************************************************************)
(* What transactions promise about the repository: append-only logs and    *)
(* files that are replaced as a whole.  A transaction collects what it is  *)
(* going to change; either all of that happens, in one step, or nothing.   *)
(* Only `hg rollback', which undoes the last transaction, may be seen half *)
(* done; and a file may be lost if it cannot be put back as it was.        *)
(***************************************************************************)
EXTENDS Integers, Sequences, SequencesExt

CONSTANTS Log,   \* append-only files: filelogs, manifest, changelog
          File   \* files that are rewritten: bookmarks, phaseroots, fncache

VARIABLES logs,     \* the transactions that appended to each log
          files,    \* the transaction that wrote each file last, or 0
          work,     \* the transaction under way and what it changes
          undoing,  \* a rollback is under way
          faulty    \* files that an abort or a recovery cannot put back

vars == <<logs, files, work, undoing, faulty>>

Nothing == [id |-> 0, logs |-> {}, files |-> {}]

Init == /\ logs = [l \in Log |-> <<>>]
        /\ files = [f \in File |-> 0]
        /\ work = Nothing
        /\ undoing = FALSE
        /\ faulty = {}

Begin == /\ work = Nothing /\ ~undoing
         /\ work'.id > 0
         /\ work' = [Nothing EXCEPT !.id = work'.id]
         /\ UNCHANGED <<logs, files, undoing, faulty>>

Append1(l) == /\ work # Nothing
              /\ work' = [work EXCEPT !.logs = @ \cup {l}]
              /\ UNCHANGED <<logs, files, undoing, faulty>>

Replace1(f) == /\ work # Nothing
               /\ work' = [work EXCEPT !.files = @ \cup {f}]
               /\ UNCHANGED <<logs, files, undoing, faulty>>

\* All that the transaction changes appears at once.
Commit ==
    /\ work # Nothing
    /\ logs' = [l \in Log |-> IF l \in work.logs
                              THEN Append(logs[l], work.id) ELSE logs[l]]
    /\ files' = [f \in File |-> IF f \in work.files
                                THEN work.id ELSE files[f]]
    /\ work' = Nothing
    /\ UNCHANGED <<undoing, faulty>>

Abort == /\ work # Nothing
         /\ work' = Nothing
         /\ UNCHANGED <<logs, files, undoing, faulty>>

StartUndo == /\ work = Nothing /\ ~undoing
             /\ undoing' = TRUE
             /\ UNCHANGED <<logs, files, work, faulty>>

\* A rollback only ever shortens logs.
Undo == /\ undoing
        /\ \A l \in Log : IsPrefix(logs'[l], logs[l])
        /\ UNCHANGED <<work, undoing, faulty>>

\* It ends, or is interrupted.
EndUndo == /\ undoing
           /\ undoing' = FALSE
           /\ UNCHANGED <<logs, files, work, faulty>>

\* Something goes wrong when a file is put back,
Fault(f) == /\ work = Nothing /\ ~undoing
            /\ faulty' = faulty \cup {f}
            /\ UNCHANGED <<logs, files, work, undoing>>

\* and such files, and no others, are lost,
Lose == /\ work = Nothing /\ ~undoing
        /\ \A f \in File \ faulty : files'[f] = files[f]
        /\ UNCHANGED <<logs, work, undoing, faulty>>

\* unless all is well when that is done again.
Retry == /\ faulty' = {}
         /\ UNCHANGED <<logs, files, work, undoing>>

Next == \/ Begin \/ Commit \/ Abort
        \/ \E l \in Log : Append1(l)
        \/ \E f \in File : Replace1(f)
        \/ StartUndo \/ Undo \/ EndUndo
        \/ \E f \in File : Fault(f)
        \/ Lose \/ Retry

Spec == Init /\ [][Next]_vars

=============================================================================
