------------------------------ MODULE Terminal ------------------------------
(***************************************************************************)
(* The browser terminal: server/terminal.go bridges a websocket to a shell *)
(* on a pseudo-terminal (terminal/terminal.go).  The handler copies from   *)
(* browser to PTY, a goroutine of its own from PTY to browser; nobody      *)
(* waits for that goroutine.                                               *)
(*                                                                         *)
(* Bytes do not matter, only how much is queued: in the socket towards the *)
(* handler, and in the kernel's two queues of the PTY.                     *)
(***************************************************************************)
EXTENDS Naturals

CONSTANTS InCapacity, OutCapacity, \* of the PTY's queues
          MaxTyped                 \* bound: frames the browser has sent and nobody read

ASSUME QueuesHoldSomething == {InCapacity, OutCapacity, MaxTyped} \subseteq Nat \ {0}

VARIABLES browser, \* at the other end of the websocket
          typed,   \* frames on their way to the handler
          handler, reader, shell,
          pty,     \* kursord's end of it
          input, output \* the PTY's queues

terminalVars == <<browser, typed, handler, reader, shell, pty, input, output>>

TerminalTypeOK ==
  /\ browser \in {"open", "gone"}
  /\ typed \in 0..MaxTyped
  /\ handler \in {"none", "read", "write", "kill", "close", "wait", "hangup"}
  /\ reader \in {"none", "read", "send"}
  /\ shell \in {"none", "running", "exited"}
  /\ pty \in {"closed", "open"}
  /\ input \in 0..InCapacity
  /\ output \in 0..OutCapacity

TerminalInit ==
  /\ browser = "gone" /\ typed = 0
  /\ handler = "none" /\ reader = "none" /\ shell = "none" /\ pty = "closed"
  /\ input = 0 /\ output = 0

-----------------------------------------------------------------------------
(* handleTerminalWS.                                                       *)

\* Upgrade, Spawn, the banner, the goroutine.  A shell that does not start ends
\* the session before it began.
OpenTerminal ==
  /\ handler = "none" /\ reader = "none"
  /\ browser' = "open" /\ typed' = 0
  /\ handler' = "read" /\ reader' = "read" /\ shell' = "running" /\ pty' = "open"
  /\ input' = 0 /\ output' = 0

ReadMessage ==
  /\ handler = "read"
  /\ \/ /\ typed > 0
        /\ typed' = typed - 1
        /\ handler' \in {"write", "read"} \* keystrokes; a resize
     \/ browser = "gone" /\ handler' = "kill" /\ UNCHANGED typed
  /\ UNCHANGED <<browser, reader, shell, pty, input, output>>

\* PTY.Write blocks on a full queue; on a shell that has exited it may fail.
WriteInput ==
  /\ handler = "write"
  /\ \/ input < InCapacity /\ input' = input + 1 /\ handler' = "read"
     \/ shell # "running" /\ handler' = "kill" /\ UNCHANGED input
  /\ UNCHANGED <<browser, typed, reader, shell, pty, output>>

\* Mutant: the handler waits for the goroutine first.
Kill_AfterReader ==
  /\ handler = "kill" /\ reader = "none"
  /\ shell' = IF shell = "running" THEN "exited" ELSE shell
  /\ handler' = "close"
  /\ UNCHANGED <<browser, typed, reader, pty, input, output>>

\* The deferred calls: Process.Kill, PTY.Close, Process.Wait ...
Kill ==
  /\ handler = "kill"
  /\ shell' = IF shell = "running" THEN "exited" ELSE shell
  /\ handler' = "close"
  /\ UNCHANGED <<browser, typed, reader, pty, input, output>>

ClosePTY ==
  /\ handler = "close"
  /\ pty' = "closed"
  /\ handler' = "wait"
  /\ UNCHANGED <<browser, typed, reader, shell, input, output>>

WaitForShell ==
  /\ handler = "wait" /\ shell = "exited"
  /\ shell' = "none"
  /\ handler' = "hangup"
  /\ UNCHANGED <<browser, typed, reader, pty, input, output>>

\* ... conn.Close.
CloseConn ==
  /\ handler = "hangup"
  /\ browser' = "gone" /\ typed' = 0
  /\ handler' = "none"
  /\ UNCHANGED <<reader, shell, pty, input, output>>

\* The goroutine: PTY.Read fails on a closed PTY, or once a shell that exited
\* has left nothing to read ...
ReadOutput ==
  /\ reader = "read"
  /\ \/ pty = "open" /\ output > 0 /\ output' = output - 1 /\ reader' = "send"
     \/ /\ pty = "closed" \/ (shell # "running" /\ output = 0)
        /\ reader' = "none" /\ UNCHANGED output
  /\ UNCHANGED <<browser, typed, handler, shell, pty, input>>

\* ... conn.WriteMessage fails on a connection that is gone.
SendOutput ==
  /\ reader = "send"
  /\ reader' \in IF browser = "gone" THEN {"read", "none"} ELSE {"read"}
  /\ UNCHANGED <<browser, typed, handler, shell, pty, input, output>>

-----------------------------------------------------------------------------
(* The browser and the shell.                                              *)

Type ==
  /\ browser = "open" /\ typed < MaxTyped
  /\ typed' = typed + 1
  /\ UNCHANGED <<browser, handler, reader, shell, pty, input, output>>

CloseTab ==
  /\ browser = "open"
  /\ browser' = "gone"
  /\ UNCHANGED <<typed, handler, reader, shell, pty, input, output>>

\* It reads, it writes as long as there is room, it exits.
ShellReads ==
  /\ shell = "running" /\ input > 0
  /\ input' = input - 1
  /\ UNCHANGED <<browser, typed, handler, reader, shell, pty, output>>
ShellWrites ==
  /\ shell = "running" /\ output < OutCapacity
  /\ output' = output + 1
  /\ UNCHANGED <<browser, typed, handler, reader, shell, pty, input>>
ShellExits ==
  /\ shell = "running"
  /\ shell' = "exited"
  /\ UNCHANGED <<browser, typed, handler, reader, pty, input, output>>

Handler == ReadMessage \/ WriteInput \/ Kill \/ ClosePTY \/ WaitForShell \/ CloseConn
Reader  == ReadOutput \/ SendOutput

TerminalNext ==
  \/ OpenTerminal \/ Handler \/ Reader
  \/ Type \/ CloseTab \/ ShellReads \/ ShellWrites \/ ShellExits

\* The two goroutines run.  A browser that has not gone may stop reading, and
\* nothing is asked of the shell.
TerminalFair ==
  /\ WF_terminalVars(Handler)
  /\ WF_terminalVars(ReadOutput)
  /\ WF_terminalVars(browser = "gone" /\ SendOutput)

TerminalSpec == TerminalInit /\ [][TerminalNext]_terminalVars /\ TerminalFair

-----------------------------------------------------------------------------
(* Properties.                                                             *)

\* The handler sits in PTY.Write because the shell does not read.
Stuck == handler = "write" /\ input = InCapacity /\ shell = "running"

\* "it cleans itself up" (handleTerminalWS): once the tab is closed nothing stays
\* behind, neither shell, nor zombie, nor goroutine, whatever each was doing;
\* unless the shell never again reads what was typed.
SessionsEnd ==
  []<>~Stuck =>
    (browser = "gone" ~> handler = "none" /\ reader = "none" /\ shell = "none" /\ pty = "closed")
=============================================================================
