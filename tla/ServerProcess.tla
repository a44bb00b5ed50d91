------------------------- MODULE ServerProcess -------------------------
(***************************************************************************)
(* The Mercurial command server that TortoiseHg talks to, seen from its    *)
(* pipes: "hg serve --cmdserver pipe" (mercurial/commandserver.py) with    *)
(* the dispatch wrapper of tortoisehg/util/hgdispatch.py.                  *)
(*                                                                         *)
(* The process says hello, then serves one request after the other from    *)
(* its standard input until end of file.  A running command may ask for a  *)
(* line of input and then waits for a block on the same pipe.  An          *)
(* interrupt turns a running command into result 255 and ends an idle or   *)
(* booting process.  The process may also die at any time.                 *)
(*                                                                         *)
(* What the front end does to the process (spawn it, write to it,          *)
(* interrupt it, close its input) are the operators at the end; module     *)
(* CmdCore uses them in its own actions.                                   *)
(***************************************************************************)
EXTENDS Naturals, Sequences

CONSTANTS Sess,        \* command sessions
          NCmd,        \* NCmd[s]: how many commands session s consists of
          NoSess,      \* "no session"
          MaxPrompts   \* bound: lines of input one command may ask for

ASSUME SessAssumption == NoSess \notin Sess
ASSUME NCmdAssumption == NCmd \in [Sess -> Nat \ {0}]
ASSUME MaxPromptsAssumption == MaxPrompts \in Nat

VARIABLES proc,       \* state of the process
          inc,        \* which incarnation of the process this is
          stdin,      \* blocks written to the process and not yet read
          wclosed,    \* the write end of stdin is closed
          stdout,     \* frames written by the process and not yet read
          sigint,     \* an interrupt is on its way to the process
          cur,        \* session whose command is being executed, or NoSess
          asked,      \* lines of input the current command has asked for
          begun,      \* history: commands of each session begun by a server
          succeeded   \* history: commands of each session that returned 0

procVars == <<proc, inc, stdin, wclosed, stdout, sigint, cur, asked,
              begun, succeeded>>

\* "none": no process; "dead": exited, not yet noticed by the front end
ProcState == {"none", "boot", "idle", "run", "ask", "dead"}
Alive == {"boot", "idle", "run", "ask"}

\* a request, or the reply to a request for a line of input; inc is the
\* incarnation the block is meant for
Block == [kind : {"cmd", "text", "cancel"}, sess : Sess, inc : Nat]

\* the messages that matter, by channel: "o" (hello), "L" and "r"
Hello  == {"hello", "badhello"}
Result == {"ret0", "ret255"}
Frame  == Hello \cup {"line"} \cup Result

ProcTypeOK ==
    /\ proc \in ProcState
    /\ inc \in Nat
    /\ stdin \in Seq(Block)
    /\ wclosed \in BOOLEAN
    /\ stdout \in Seq(Frame)
    /\ sigint \in BOOLEAN
    /\ cur \in Sess \cup {NoSess}
    /\ asked \in 0..MaxPrompts
    /\ begun \in [Sess -> Nat]
    /\ succeeded \in [Sess -> Nat]

ProcInit ==
    /\ proc = "none"
    /\ inc = 0
    /\ stdin = <<>>
    /\ wclosed = FALSE
    /\ stdout = <<>>
    /\ sigint = FALSE
    /\ cur = NoSess
    /\ asked = 0
    /\ begun = [s \in Sess |-> 0]
    /\ succeeded = [s \in Sess |-> 0]

-----------------------------------------------------------------------------
(* Steps of the process                                                    *)

\* The process is gone: nothing more is read, executed or interrupted.
Exit ==
    /\ proc' = "dead"
    /\ sigint' = FALSE
    /\ cur' = NoSess
    /\ asked' = 0

\* The command has been dispatched and its result is written.
Return(frame) ==
    /\ proc' = "idle"
    /\ stdout' = Append(stdout, frame)
    /\ cur' = NoSess
    /\ asked' = 0

\* server.serve: the hello message, written in one chunk.  An extension that
\* prints while the process boots spoils it.
SrvHello ==
    /\ proc = "boot"
    /\ \E frame \in Hello : stdout' = Append(stdout, frame)
    /\ proc' = "idle"
    /\ UNCHANGED <<inc, stdin, wclosed, sigint, cur, asked, begun, succeeded>>

\* server.serveone, runcommand: the next line names the request.
SrvReadRequest ==
    /\ proc = "idle"
    /\ stdin # <<>>
    /\ Head(stdin).kind = "cmd"
    /\ stdin' = Tail(stdin)
    /\ proc' = "run"
    /\ cur' = Head(stdin).sess
    /\ begun' = [begun EXCEPT ![cur'] = @ + 1]
    /\ UNCHANGED <<inc, wclosed, stdout, sigint, asked, succeeded>>

\* serveone reads anything else as the name of an unknown command: Abort ends
\* serve().  The block of a cancelled prompt has no newline, so the name goes
\* on in the next block or ends with the file.
SrvUnknownRequest ==
    /\ proc = "idle"
    /\ stdin # <<>>
    /\ \/ Head(stdin).kind = "text"
       \/ Head(stdin).kind = "cancel" /\ (Len(stdin) > 1 \/ wclosed)
    /\ stdin' = Tail(stdin)
    /\ Exit
    /\ UNCHANGED <<inc, wclosed, stdout, begun, succeeded>>

\* End of file ends the serve loop; a command waiting for input dies of it.
SrvEOF ==
    /\ proc \in {"idle", "ask"}
    /\ stdin = <<>>
    /\ wclosed
    /\ Exit
    /\ UNCHANGED <<inc, stdin, wclosed, stdout, begun, succeeded>>

\* channeledinput._read: ask on channel L, then wait for a block.
SrvAsk ==
    /\ proc = "run"
    /\ asked < MaxPrompts
    /\ asked' = asked + 1
    /\ stdout' = Append(stdout, "line")
    /\ proc' = "ask"
    /\ UNCHANGED <<inc, stdin, wclosed, sigint, cur, begun, succeeded>>

\* channeledinput._read: the block has arrived and the command goes on.
SrvReadReply ==
    /\ proc = "ask"
    /\ stdin # <<>>
    /\ Head(stdin).kind \in {"text", "cancel"}
    /\ stdin' = Tail(stdin)
    /\ proc' = "run"
    /\ UNCHANGED <<inc, wclosed, stdout, sigint, cur, asked, begun, succeeded>>

\* runcommand: dispatch returned; hgdispatch turns an abort into -1, which
\* the server sends as 255.
SrvReturn ==
    /\ proc = "run"
    /\ \/ /\ Return("ret0")
          /\ succeeded' = [succeeded EXCEPT ![cur] = @ + 1]
       \/ /\ Return("ret255")
          /\ UNCHANGED succeeded
    /\ UNCHANGED <<inc, stdin, wclosed, sigint, begun>>

\* The interrupt arrives.  dispatch catches KeyboardInterrupt and returns -1;
\* outside dispatch it ends the process.
SrvInterrupt ==
    /\ sigint
    /\ \/ /\ proc \in {"run", "ask"}
          /\ Return("ret255")
          /\ sigint' = FALSE
       \/ /\ proc \in {"boot", "idle"}
          /\ Exit
          /\ UNCHANGED stdout
    /\ UNCHANGED <<inc, stdin, wclosed, begun, succeeded>>

\* The process dies, or never starts.
SrvCrash ==
    /\ proc \in Alive
    /\ Exit
    /\ UNCHANGED <<inc, stdin, wclosed, stdout, begun, succeeded>>

ProcNext ==
    \/ SrvHello
    \/ SrvReadRequest
    \/ SrvUnknownRequest
    \/ SrvEOF
    \/ SrvAsk
    \/ SrvReadReply
    \/ SrvReturn
    \/ SrvInterrupt
    \/ SrvCrash

-----------------------------------------------------------------------------
(* What the front end does to the process through QProcess (external code) *)

\* A new process with new pipes.
Spawn ==
    /\ proc' = "boot"
    /\ inc' = inc + 1
    /\ wclosed' = FALSE
    /\ stdout' = <<>>
    /\ sigint' = FALSE
    /\ UNCHANGED <<cur, asked, begun, succeeded>>

\* QProcess.write drops what is written after closeWriteChannel().
Write(block) == stdin' = IF wclosed THEN stdin ELSE Append(stdin, block)

Interrupt == sigint' = (sigint \/ proc \in Alive)

=============================================================================
