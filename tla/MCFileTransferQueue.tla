------------------------ MODULE MCFileTransferQueue ------------------------
(* Who calls what on a FileTransferQueue.                                  *)
EXTENDS FileTransferQueue

\* ServerManager: Broadcast and SendHistory enqueue messages, RemoveFileQueueForSocket
\* and StopServer stop the queue.
ServerOperations == {"enqueue_message", "stop"}

\* ClientServerConnectionManager: the commands of the command line.
ClientOperations == {"enqueue_path", "retry", "cancel", "cancel_all", "pause", "resume"}

AllOperations == ClientOperations \cup ServerOperations \cup {"remove"}

\* "/retry <id> - retry a failed file by id".
FailedOnly == {"Failed"}

=============================================================================
