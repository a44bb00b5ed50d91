------------------------- MODULE CommandService -------------------------
(***************************************************************************)
(* What TortoiseHg promises to whoever runs Mercurial commands through a   *)
(* CmdAgent, without agent, worker, process or pipe:                       *)
(*                                                                         *)
(*  - sessions are served one at a time, in the order of submission;       *)
(*  - the commands of a session are executed in order, each at most once,  *)
(*    and none after one that did not return 0;                            *)
(*  - a session ends exactly once, never while a command of it is being    *)
(*    executed;                                                            *)
(*  - it ends with exit code 0 only if each command of it that was executed *)
(*    returned 0, and these are all its commands unless the user aborted it; *)
(*  - a session that has ended executes nothing any more.                  *)
(***************************************************************************)
EXTENDS Integers, Sequences, SequencesExt

CONSTANTS Sess, NCmd, NoSess

VARIABLES queue,      \* sessions submitted and not over, oldest first
          executing,  \* session whose command is being executed, or NoSess
          begun,      \* commands of each session whose execution began
          succeeded,  \* commands of each session that returned 0
          aborted,    \* sessions the user has aborted
          exitcode,   \* reported at the end of a session, 0 before
          ended       \* how many times each session was reported to be over

svars == <<queue, executing, begun, succeeded, aborted, exitcode, ended>>

Init ==
    /\ queue = <<>>
    /\ executing = NoSess
    /\ begun = [s \in Sess |-> 0]
    /\ succeeded = [s \in Sess |-> 0]
    /\ aborted = {}
    /\ exitcode = [s \in Sess |-> 0]
    /\ ended = [s \in Sess |-> 0]

Submit(s) ==
    /\ ended[s] = 0
    /\ s \notin ToSet(queue)
    /\ queue' = Append(queue, s)
    /\ UNCHANGED <<executing, begun, succeeded, aborted, exitcode, ended>>

Begin(s) ==
    /\ executing = NoSess
    /\ queue # <<>>
    /\ s = Head(queue)
    /\ begun[s] < NCmd[s]
    /\ begun[s] = succeeded[s]
    /\ executing' = s
    /\ begun' = [begun EXCEPT ![s] = @ + 1]
    /\ UNCHANGED <<queue, succeeded, aborted, exitcode, ended>>

Succeed(s) ==
    /\ executing = s
    /\ executing' = NoSess
    /\ succeeded' = [succeeded EXCEPT ![s] = @ + 1]
    /\ UNCHANGED <<queue, begun, aborted, exitcode, ended>>

Fail(s) ==
    /\ executing = s
    /\ executing' = NoSess
    /\ UNCHANGED <<queue, begun, succeeded, aborted, exitcode, ended>>

Abort(s) ==
    /\ s \in ToSet(queue)
    /\ aborted' = aborted \cup {s}
    /\ UNCHANGED <<queue, executing, begun, succeeded, exitcode, ended>>

\* The end of a session; the user may abort it at the same time.
End(s) ==
    /\ executing # s
    /\ \E i \in DOMAIN queue : queue[i] = s /\ queue' = RemoveAt(queue, i)
    /\ exitcode' \in {[exitcode EXCEPT ![s] = ret] : ret \in {-1, 0, 255}}
    /\ exitcode'[s] = 0 => /\ begun[s] > 0
                           /\ begun[s] = succeeded[s]
                           /\ succeeded[s] = NCmd[s] \/ s \in aborted
    /\ aborted' \in {aborted, aborted \cup {s}}
    /\ ended' = [ended EXCEPT ![s] = @ + 1]
    /\ UNCHANGED <<executing, begun, succeeded>>

Next ==
    \E s \in Sess :
        Submit(s) \/ Begin(s) \/ Succeed(s) \/ Fail(s) \/ Abort(s) \/ End(s)

Spec == Init /\ [][Next]_svars

=============================================================================
