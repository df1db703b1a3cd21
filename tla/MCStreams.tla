----------------------------- MODULE MCStreams -----------------------------
\* Model-checking instance of the two features that stream to a browser: one tab
\* that always reads and one that may stop, and a terminal.
\*
\* Monitor and Terminal share no variable: a behaviour moves one of them, and the
\* fairness of each is asked of the behaviours that move it.
EXTENDS Monitor, Terminal

VARIABLE moving \* which of the two
StreamVars == <<moving, monitorVars, terminalVars>>

MonitorMove(A)  == moving = "monitor" /\ A /\ UNCHANGED <<moving, terminalVars>>
TerminalMove(A) == moving = "terminal" /\ A /\ UNCHANGED <<moving, monitorVars>>

StreamNext == MonitorMove(MonitorNext) \/ TerminalMove(TerminalNext)

StreamFair ==
  /\ WF_StreamVars(MonitorMove(TakeSample))
  /\ \A s \in Streams :
       /\ WF_StreamVars(MonitorMove(Send(s)))
       /\ WF_StreamVars(MonitorMove(~MayWait(s) /\ Serve(s)))
       /\ SF_StreamVars(MonitorMove(Leave(s)))
  /\ WF_StreamVars(TerminalMove(Handler))
  /\ WF_StreamVars(TerminalMove(ReadOutput))
  /\ WF_StreamVars(TerminalMove(browser = "gone" /\ SendOutput))

StreamInit == moving \in {"monitor", "terminal"} /\ MonitorInit /\ TerminalInit

StreamSpec == StreamInit /\ [][StreamNext]_StreamVars /\ StreamFair
=============================================================================
