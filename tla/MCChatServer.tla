---------------------------- MODULE MCChatServer ----------------------------
(* ChatServer on a few clients.                                            *)
EXTENDS ChatServer, TLC

AllSockets == {"text", "file"} \X Clients
\* The last client to come, and those it meets, who have a file socket.
FileSockets == {"file"} \X Clients \cup {"text"} \X (Clients \ Present)

Symmetry == Permutations(Clients)

=============================================================================
