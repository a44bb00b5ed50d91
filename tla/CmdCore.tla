---------------------------- MODULE CmdCore ----------------------------
(***************************************************************************)
(* How TortoiseHg runs Mercurial commands: CmdAgent, CmdSession and        *)
(* CmdServer of tortoisehg/hgqt/cmdcore.py, on top of the server process.  *)
(*                                                                         *)
(* The agent keeps a queue of sessions [active, waiting...] and hands the  *)
(* head to the worker from a zero timer.  The session attaches itself to   *)
(* the worker's signals, sends its commands one after the other, and       *)
(* emits commandFinished when it is over.  The worker owns the server      *)
(* process, and starts, stops and restarts it.                             *)
(*                                                                         *)
(* All of it runs in the GUI thread, so a slot is one action, with every   *)
(* slot it calls through a direct signal.  A slot that shows a prompt runs *)
(* a nested event loop: the prompt is opened by one action, answered by    *)
(* another, and anything may happen in between.                            *)
(***************************************************************************)
EXTENDS ServerProcess, Integers, SequencesExt

CONSTANT Interactive   \* sessions whose UiHandler shows a prompt

ASSUME InteractiveAssumption == Interactive \subseteq Sess

VARIABLES sessqueue,   \* CmdAgent._sessqueue
          runlater,    \* CmdAgent._runlater is active
          created,     \* sessions made by runCommandSequence
          attached,    \* sessions with CmdSession._worker set
          qnextp,      \* CmdSession._qnextp: commands handed to the worker
          abortbyuser, \* CmdSession._abortbyuser
          exitcode,    \* CmdSession._exitcode
          emitted,     \* history: emissions of CmdSession.commandFinished
          svc,         \* CmdServer._servicestate
          chtable,     \* CmdServer._readchtable
          uihandler,   \* CmdServer._uihandler: whose, or NoSess
          readq,       \* CmdServer._readq
          readtimer,   \* CmdServer._readtimer is active
          asking       \* nested prompts shown by getLineInput, innermost last

agentVars == <<sessqueue, runlater, created>>
sessVars == <<attached, qnextp, abortbyuser, exitcode, emitted>>
workerVars == <<svc, chtable, uihandler, readq, readtimer, asking>>
guiVars == <<agentVars, sessVars, workerVars>>
vars == <<procVars, guiVars>>

ServiceState == {"NotRunning", "Starting", "Ready", "Stopping", "Restarting"}
Prompt == [sess : Sess, inc : Nat]

\* Type invariant.  A command is handed out at most once per queue position.
TypeOK ==
    /\ ProcTypeOK
    /\ sessqueue \in Seq(Sess)
    /\ runlater \in BOOLEAN
    /\ created \in SUBSET Sess
    /\ attached \in SUBSET Sess
    /\ qnextp \in [Sess -> Nat]
    /\ \A s \in Sess : qnextp[s] <= NCmd[s]
    /\ abortbyuser \in [Sess -> BOOLEAN]
    /\ exitcode \in [Sess -> {-1, 0, 255}]
    /\ emitted \in [Sess -> Nat]
    /\ svc \in ServiceState
    /\ chtable \in {"idle", "hello", "run"}
    /\ uihandler \in Sess \cup {NoSess}
    /\ readq \in Seq(Frame)
    /\ readtimer \in BOOLEAN
    /\ asking \in Seq(Prompt)

Init ==
    /\ ProcInit
    /\ sessqueue = <<>>
    /\ runlater = FALSE
    /\ created = {}
    /\ attached = {}
    /\ qnextp = [s \in Sess |-> 0]
    /\ abortbyuser = [s \in Sess |-> FALSE]
    /\ exitcode = [s \in Sess |-> 0]
    /\ emitted = [s \in Sess |-> 0]
    /\ svc = "NotRunning"
    /\ chtable = "idle"
    /\ uihandler = NoSess
    /\ readq = <<>>
    /\ readtimer = FALSE
    /\ asking = <<>>

IsRunning(s) == s \in attached /\ qnextp[s] > 0
IsFinished(s) == qnextp[s] >= NCmd[s] /\ ~IsRunning(s)
IsCommandRunning == chtable = "run"

-----------------------------------------------------------------------------
(* Calls and slots that are parts of actions                               *)

\* Faulty variants of definitions are named <definition>_<fault>: each stands
\* right before the definition it is a variant of and is used by nothing else.
AgentOnCommandFinished_NoCleanup(s) ==
    IF s = Head(sessqueue)
    THEN sessqueue' = Tail(sessqueue) /\ runlater' = (Tail(sessqueue) # <<>>)
    ELSE UNCHANGED <<sessqueue, runlater>>

AgentOnCommandFinished_NoTimer(s) ==
    IF s = Head(sessqueue)
    THEN sessqueue' = Tail(sessqueue) /\ runlater' = FALSE
    ELSE /\ \E i \in 2..Len(sessqueue) :
              sessqueue[i] = s /\ sessqueue' = RemoveAt(sessqueue, i)
         /\ UNCHANGED runlater

\* CmdAgent._onCommandFinished, called when s emits commandFinished.  The
\* session at the head is dequeued if it is the finished one; otherwise s was
\* waiting and _cleanupWaitingSession deletes it.
AgentOnCommandFinished(s) ==
    IF s = Head(sessqueue)
    THEN /\ sessqueue' = Tail(sessqueue)
         /\ runlater' = (Tail(sessqueue) # <<>>)
    ELSE /\ \E i \in 2..Len(sessqueue) :
              sessqueue[i] = s /\ sessqueue' = RemoveAt(sessqueue, i)
         /\ UNCHANGED runlater

Finish_StayConnected(s, ret) ==
    /\ qnextp' = [qnextp EXCEPT ![s] = NCmd[s]]
    /\ UNCHANGED attached
    /\ exitcode' = [exitcode EXCEPT ![s] = ret]
    /\ emitted' = [emitted EXCEPT ![s] = @ + 1]
    /\ AgentOnCommandFinished(s)

\* CmdSession._finish
Finish(s, ret) ==
    /\ qnextp' = [qnextp EXCEPT ![s] = NCmd[s]]
    /\ attached' = attached \ {s}
    /\ exitcode' = [exitcode EXCEPT ![s] = ret]
    /\ emitted' = [emitted EXCEPT ![s] = @ + 1]
    /\ AgentOnCommandFinished(s)

\* CmdServer.startCommand on a ready service
StartCommand(s) ==
    /\ chtable' = "run"
    /\ uihandler' = s
    /\ Write([kind |-> "cmd", sess |-> s, inc |-> inc])

CommandIdle == chtable' = "idle" /\ uihandler' = NoSess

\* CmdSession._runNext while the worker is in state st with no command
\* running; later is whether the agent's timer stays active.  startCommand
\* asserts that the service is ready: the failed assertion ends the slot after
\* _qnextp was advanced.  A command line that cannot be encoded is answered
\* with -1 at once.
RunNext(s, st, later) ==
    \/ /\ st = "Ready"
       /\ StartCommand(s)
       /\ qnextp' = [qnextp EXCEPT ![s] = @ + 1]
       /\ attached' = attached \cup {s}
       /\ runlater' = later
       /\ UNCHANGED <<sessqueue, exitcode, emitted>>
    \/ /\ st = "Ready"
       /\ Finish(s, -1)
       /\ CommandIdle
       /\ UNCHANGED stdin
    \/ /\ st # "Ready"
       /\ qnextp' = [qnextp EXCEPT ![s] = @ + 1]
       /\ attached' = attached \cup {s}
       /\ runlater' = later
       /\ CommandIdle
       /\ UNCHANGED <<stdin, sessqueue, exitcode, emitted>>

SessionOnCommandFinished_OffByOne(s, ret) ==
    IF ret # 0 \/ qnextp[s] > NCmd[s]
    THEN Finish(s, ret) /\ CommandIdle /\ UNCHANGED stdin
    ELSE RunNext(s, svc, runlater)

SessionOnCommandFinished_IgnoreFailure(s, ret) ==
    IF qnextp[s] >= NCmd[s]
    THEN Finish(s, ret) /\ CommandIdle /\ UNCHANGED stdin
    ELSE RunNext(s, svc, runlater)

\* CmdSession._onCommandFinished, with the worker idle again
SessionOnCommandFinished(s, ret) ==
    IF ret # 0 \/ qnextp[s] >= NCmd[s]
    THEN /\ Finish(s, ret)
         /\ CommandIdle
         /\ UNCHANGED stdin
    ELSE RunNext(s, svc, runlater)

StartService_NoDeadline ==
    /\ Spawn
    /\ stdin' = <<>>
    /\ chtable' = "hello"
    /\ readtimer' = FALSE
    /\ svc' = "Starting"

\* CmdServer._startService.  Data the old process never read is discarded
\* with its QProcess.
StartService ==
    /\ Spawn
    /\ stdin' = <<>>
    /\ chtable' = "hello"
    /\ readtimer' = TRUE
    /\ svc' = "Starting"

StopService_NoInterruptNoEOF ==
    /\ svc' = IF svc = "NotRunning" THEN svc ELSE "Stopping"
    /\ UNCHANGED <<sigint, wclosed>>

StopService_ReportAtOnce ==
    /\ svc' = "NotRunning"
    /\ Interrupt
    /\ wclosed' = TRUE

\* CmdServer.stopService
StopService ==
    \/ /\ svc \in {"Starting", "Ready"}
       /\ svc' = "Stopping"
       /\ Interrupt
       /\ wclosed' = TRUE
    \/ /\ svc = "Restarting"
       /\ svc' = "Stopping"
       /\ UNCHANGED <<sigint, wclosed>>
    \/ /\ svc \in {"Stopping", "NotRunning"}
       /\ UNCHANGED <<svc, sigint, wclosed>>

-----------------------------------------------------------------------------
(* Actions of the clients                                                  *)

\* CmdAgent.runCommandSequence and _enqueueSession
Submit(s) ==
    /\ s \notin created
    /\ created' = created \cup {s}
    /\ sessqueue' = Append(sessqueue, s)
    /\ runlater' = (runlater \/ sessqueue = <<>>)
    /\ UNCHANGED <<procVars, sessVars, workerVars>>

AbortRunning_FinishAtOnce(s) ==
    /\ IsRunning(s)
    /\ IF IsCommandRunning THEN Interrupt ELSE UNCHANGED sigint
    /\ abortbyuser' = [abortbyuser EXCEPT ![s] = TRUE]
    /\ Finish(s, -1)
    /\ UNCHANGED <<proc, inc, stdin, wclosed, stdout, cur, asked, begun,
                   succeeded, created, workerVars>>

\* CmdSession.abort of a running session: interrupt the server if the worker
\* has a command running, and forget the rest of the queue.
AbortRunning(s) ==
    /\ IsRunning(s)
    /\ IF IsCommandRunning THEN Interrupt ELSE UNCHANGED sigint
    /\ qnextp' = [qnextp EXCEPT ![s] = NCmd[s]]
    /\ abortbyuser' = [abortbyuser EXCEPT ![s] = TRUE]
    /\ UNCHANGED <<proc, inc, stdin, wclosed, stdout, cur, asked, begun,
                   succeeded, agentVars, attached, exitcode, emitted,
                   workerVars>>

\* CmdSession.abort of a session that has not started
AbortPending(s) ==
    /\ s \in created
    /\ ~IsRunning(s)
    /\ ~IsFinished(s)
    /\ abortbyuser' = [abortbyuser EXCEPT ![s] = TRUE]
    /\ Finish(s, -1)
    /\ UNCHANGED <<procVars, created, workerVars>>

\* CmdAgent.stopService
ClientStop ==
    /\ svc \notin {"Stopping", "NotRunning"}
    /\ StopService
    /\ UNCHANGED <<proc, inc, stdin, stdout, cur, asked, begun, succeeded,
                   agentVars, sessVars, chtable, uihandler, readq, readtimer,
                   asking>>

-----------------------------------------------------------------------------
(* Slots of the GUI thread                                                 *)

RunNextSession_KeepTimer ==
    /\ runlater
    /\ svc = "Ready"
    /\ RunNext(Head(sessqueue), svc, TRUE)
    /\ UNCHANGED <<proc, inc, wclosed, stdout, sigint, cur, asked, begun,
                   succeeded, created, abortbyuser, svc, readq, readtimer,
                   asking>>

\* CmdAgent._runNextSession, with a service that is ready: the session sends
\* its first command, and startService has nothing to do.
RunNextSession ==
    /\ runlater
    /\ svc = "Ready"
    /\ RunNext(Head(sessqueue), svc, FALSE)
    /\ UNCHANGED <<proc, inc, wclosed, stdout, sigint, cur, asked, begun,
                   succeeded, created, abortbyuser, svc, readq, readtimer,
                   asking>>

\* CmdAgent._runNextSession otherwise: the session attaches itself and waits,
\* then startService starts the service, or asks for a restart.
RunNextSessionLater ==
    /\ runlater
    /\ svc # "Ready"
    /\ attached' = attached \cup {Head(sessqueue)}
    /\ runlater' = FALSE
    /\ \/ /\ svc = "NotRunning"
          /\ StartService
       \/ /\ svc = "Stopping"
          /\ svc' = "Restarting"
          /\ UNCHANGED <<procVars, chtable, readtimer>>
       \/ /\ svc \in {"Starting", "Restarting"}
          /\ UNCHANGED <<procVars, svc, chtable, readtimer>>
    /\ UNCHANGED <<sessqueue, created, qnextp, abortbyuser, exitcode, emitted,
                   uihandler, readq, asking>>

\* CmdServer._onReadyRead: every frame that is complete goes to _readq.  When
\* part of a frame is left, its rest is awaited under _readtimer.
ReadyRead ==
    /\ stdout # <<>>
    /\ \/ /\ readq' = readq \o stdout
          /\ stdout' = <<>>
          /\ readtimer' = FALSE
       \/ \E n \in 0..(Len(stdout) - 1) :
             /\ readq' = readq \o SubSeq(stdout, 1, n)
             /\ stdout' = SubSeq(stdout, n + 1, Len(stdout))
             /\ readtimer' = TRUE
    /\ UNCHANGED <<proc, inc, stdin, wclosed, sigint, cur, asked, begun,
                   succeeded, agentVars, sessVars, svc, chtable, uihandler,
                   asking>>

\* CmdServer._onReadTimeout
ReadTimeout ==
    /\ readtimer
    /\ readtimer' = FALSE
    /\ StopService
    /\ UNCHANGED <<proc, inc, stdin, stdout, cur, asked, begun, succeeded,
                   agentVars, sessVars, chtable, uihandler, readq, asking>>

\* CmdServer._dispatchRead, _processHello: the service becomes ready whatever
\* its state was, and the attached session sends its first command.
DispatchHello ==
    /\ readq # <<>>
    /\ Head(readq) = "hello"
    /\ chtable = "hello"
    /\ readq' = Tail(readq)
    /\ svc' = "Ready"
    /\ IF attached = {}
       THEN /\ chtable' = "idle"
            /\ UNCHANGED <<stdin, uihandler, sessqueue, runlater, attached,
                           qnextp, exitcode, emitted>>
       ELSE \E s \in attached : RunNext(s, "Ready", runlater)
    /\ UNCHANGED <<proc, inc, wclosed, stdout, sigint, cur, asked, begun,
                   succeeded, created, abortbyuser, readtimer, asking>>

\* CmdServer._dispatchRead, _processHello: an invalid hello message is a
\* protocol error, which stops the service.
DispatchBadHello ==
    /\ readq # <<>>
    /\ Head(readq) = "badhello"
    /\ chtable = "hello"
    /\ readq' = Tail(readq)
    /\ StopService
    /\ UNCHANGED <<proc, inc, stdin, stdout, cur, asked, begun, succeeded,
                   agentVars, sessVars, chtable, uihandler, readtimer, asking>>

\* CmdServer._dispatchRead, _processCommandResult, _finishCommand
DispatchResult ==
    /\ readq # <<>>
    /\ Head(readq) \in Result
    /\ chtable = "run"
    /\ readq' = Tail(readq)
    /\ \E s \in attached :
          SessionOnCommandFinished(s, IF Head(readq) = "ret0" THEN 0 ELSE 255)
    /\ UNCHANGED <<proc, inc, wclosed, stdout, sigint, cur, asked, begun,
                   succeeded, created, abortbyuser, svc, readtimer, asking>>

\* CmdServer._dispatchRead, _processLineRequest of a handler that shows no
\* prompt: it answers with an empty line at once.
DispatchLineRequest ==
    /\ readq # <<>>
    /\ Head(readq) = "line"
    /\ chtable = "run"
    /\ uihandler \notin Interactive
    /\ readq' = Tail(readq)
    /\ Write([kind |-> "text", sess |-> uihandler, inc |-> inc])
    /\ UNCHANGED <<proc, inc, wclosed, stdout, sigint, cur, asked, begun,
                   succeeded, agentVars, sessVars, svc, chtable, uihandler,
                   readtimer, asking>>

\* CmdServer._dispatchRead, _processLineRequest: getLineInput of an
\* interactive handler shows a prompt and runs a nested event loop.
OpenPrompt ==
    /\ readq # <<>>
    /\ Head(readq) = "line"
    /\ chtable = "run"
    /\ uihandler \in Interactive
    /\ readq' = Tail(readq)
    /\ asking' = Append(asking, [sess |-> uihandler, inc |-> inc])
    /\ UNCHANGED <<procVars, agentVars, sessVars, svc, chtable, uihandler,
                   readtimer>>

\* CmdServer._processLineRequest, after the innermost getLineInput returned:
\* the text, or an empty block if cancelled, goes to the process there is now;
\* a text that cannot be encoded aborts the command there is now.
AnswerPrompt ==
    /\ asking # <<>>
    /\ asking' = Front(asking)
    /\ \/ /\ \E kind \in {"text", "cancel"} :
                Write([kind |-> kind, sess |-> Last(asking).sess,
                       inc |-> Last(asking).inc])
          /\ UNCHANGED sigint
       \/ /\ IF IsCommandRunning THEN Interrupt ELSE UNCHANGED sigint
          /\ UNCHANGED stdin
    /\ UNCHANGED <<proc, inc, wclosed, stdout, cur, asked, begun, succeeded,
                   agentVars, sessVars, svc, chtable, uihandler, readq,
                   readtimer>>

ServiceRestarted_KeepReadQueue ==
    /\ proc = "dead"
    /\ svc = "Restarting"
    /\ StartService
    /\ uihandler' = NoSess
    /\ UNCHANGED <<agentVars, sessVars, readq, asking>>

\* CmdServer._onServiceFinished with a restart due: the attached session goes
\* on waiting for the new process.
ServiceRestarted ==
    /\ proc = "dead"
    /\ svc = "Restarting"
    /\ StartService
    /\ readq' = <<>>
    /\ uihandler' = NoSess
    /\ UNCHANGED <<agentVars, sessVars, asking>>

\* CmdServer._onServiceFinished otherwise: frames not yet dispatched are lost,
\* and the attached session is finished with -1 (_onWorkerStateChanged).
ServiceFinished ==
    /\ proc = "dead"
    /\ svc # "Restarting"
    /\ proc' = "none"
    /\ svc' = "NotRunning"
    /\ stdout' = <<>>
    /\ readq' = <<>>
    /\ readtimer' = FALSE
    /\ CommandIdle
    /\ IF attached = {}
       THEN UNCHANGED <<sessqueue, runlater, sessVars>>
       ELSE /\ \E s \in attached : Finish(s, -1)
            /\ UNCHANGED abortbyuser
    /\ UNCHANGED <<inc, stdin, wclosed, sigint, cur, asked, begun, succeeded,
                   created, asking>>

-----------------------------------------------------------------------------

Client ==
    \/ \E s \in Sess : Submit(s)
    \/ \E s \in Sess : AbortRunning(s)
    \/ \E s \in Sess : AbortPending(s)
    \/ ClientStop

Gui ==
    \/ RunNextSession
    \/ RunNextSessionLater
    \/ ReadyRead
    \/ ReadTimeout
    \/ DispatchHello
    \/ DispatchBadHello
    \/ DispatchResult
    \/ DispatchLineRequest
    \/ OpenPrompt
    \/ AnswerPrompt
    \/ ServiceRestarted
    \/ ServiceFinished

Server == ProcNext /\ UNCHANGED guiVars

Next == Client \/ Gui \/ Server

Spec == Init /\ [][Next]_vars

(* The commands of a server terminate and its blocking reads return; the   *)
(* event loop of the GUI gets round to every slot, and a user answers every *)
(* prompt.  Nothing is assumed of clients, of a server being able to say    *)
(* hello, or of its not crashing.                                           *)
Fairness ==
    /\ WF_vars(RunNextSession)
    /\ WF_vars(RunNextSessionLater)
    /\ WF_vars(ReadyRead /\ stdout' = <<>>)
    /\ WF_vars(ReadTimeout)
    /\ WF_vars(DispatchHello)
    /\ WF_vars(DispatchBadHello)
    /\ WF_vars(DispatchResult)
    /\ WF_vars(DispatchLineRequest)
    /\ WF_vars(OpenPrompt)
    /\ WF_vars(AnswerPrompt)
    /\ WF_vars(ServiceRestarted)
    /\ WF_vars(ServiceFinished)
    /\ WF_vars(SrvReadRequest /\ UNCHANGED guiVars)
    /\ WF_vars(SrvUnknownRequest /\ UNCHANGED guiVars)
    /\ WF_vars(SrvEOF /\ UNCHANGED guiVars)
    /\ WF_vars(SrvReadReply /\ UNCHANGED guiVars)
    /\ WF_vars(SrvReturn /\ UNCHANGED guiVars)
    /\ WF_vars(SrvInterrupt /\ UNCHANGED guiVars)

FairSpec == Spec /\ Fairness

-----------------------------------------------------------------------------
(* Properties                                                              *)

\* At most one session listens to the worker, and it is the head of the
\* agent's queue: a signal of the worker never reaches a waiting session or
\* one that is over, so that one session's result is never taken for
\* another's (_runNextSession, _connectWorker, _disconnectWorker).
OneActive ==
    \A s \in attached : sessqueue # <<>> /\ s = Head(sessqueue)

\* The agent's queue holds exactly the sessions that have not emitted
\* commandFinished, each once; IsFinished agrees (_enqueueSession,
\* _dequeueSession, _cleanupWaitingSession).
QueueIsPending ==
    /\ IsInjective(sessqueue)
    /\ \A s \in created : (s \in ToSet(sessqueue)) = (emitted[s] = 0)
    /\ \A s \in created : IsFinished(s) = (emitted[s] = 1)

\* No lost wakeup: when sessions are queued, either the zero timer that runs
\* the head is active, or the head listens to the worker; and a listening
\* session that has not started waits for a process that is on its way up or
\* down, never for a service that is ready or stopped (_runNextSession).
NoLostWakeup ==
    /\ sessqueue # <<>> => runlater \/ Head(sessqueue) \in attached
    /\ \A s \in attached : qnextp[s] = 0 => svc \notin {"Ready", "NotRunning"}

\* The zero timer never fires for an empty queue, for a session that already
\* ran, or (the assertion of _runNextSession) while a command is running.
RunLaterSound ==
    runlater => /\ sessqueue # <<>>
                /\ Head(sessqueue) \notin attached
                /\ ~IsCommandRunning

\* The session a server process works for, or is about to work for, is the
\* listening session, and the worker is waiting for the result: no command
\* outlives its session's commandFinished, even across stop and restart.
NoOrphanCommand ==
    /\ cur # NoSess => IsRunning(cur) /\ IsCommandRunning
    /\ proc \in Alive =>
          \A i \in DOMAIN stdin :
             stdin[i].kind = "cmd" => IsRunning(stdin[i].sess) /\ IsCommandRunning

\* "NotRunning" is the state in which the agent "can be deleted safely or
\* reconfigured" (CmdAgent.stopService): there is no server process then, and
\* there is one in every other state.
StoppedMeansNoProcess == (svc = "NotRunning") = (proc = "none")

\* Client and server agree on the framing of the pipes: the next message to
\* dispatch is one the current channel table expects, and a server that waits
\* for input never finds a request there, whose first bytes it would take for
\* the length of a block.
ProtocolInSync ==
    /\ readq # <<>> =>
          \/ chtable = "hello" /\ Head(readq) \in Hello
          \/ chtable = "run" /\ Head(readq) \in Result \cup {"line"}
    /\ proc = "ask" /\ stdin # <<>> => Head(stdin).kind # "cmd"

\* The agent, the sessions, the worker and the process together keep the
\* promises of CommandService.
Service == INSTANCE CommandService
    WITH queue <- sessqueue, executing <- cur, ended <- emitted,
         aborted <- {s \in Sess : abortbyuser[s]}

ServiceSpec == Service!Spec

\* Every session submitted emits commandFinished, whatever is aborted,
\* stopped or killed meanwhile ("all command sessions will emit
\* commandFinished").
EverySessionFinishes ==
    \A s \in Sess : (s \in created) ~> (emitted[s] = 1)

\* A service that was told to stop does: the process goes away, and is
\* followed by a new one only if a session asked for a restart.
StopCompletes == (svc = "Stopping") ~> (svc \in {"NotRunning", "Starting"})

=============================================================================
