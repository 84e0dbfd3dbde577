------------------------- MODULE MCClientConnection -------------------------
(* The client of ClientMain.cpp: one command thread and one io thread.     *)
EXTENDS ClientConnection

\* The methods of the queue the connection manager calls.
ManagerOperations ==
  {"enqueue_path", "retry", "cancel", "cancel_all", "pause", "resume", "stop"}

Threads == {Cmd, Io}
FailedOnly == {"Failed"}
AllCommands == {"/file", "/cancel", "/retry", "/pause", "/resume", "/cancelall", "quit"}
\* A user who never pauses the queue.
CancelCommands == {"/file", "/cancel", "/cancelall", "quit"}
=============================================================================
