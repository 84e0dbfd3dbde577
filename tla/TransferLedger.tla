--------------------------- MODULE TransferLedger ---------------------------
(***************************************************************************)
(* What a file transfer queue promises its users, without threads, locks,  *)
(* sockets or chunks: a ledger of files by id, at most one of them being   *)
(* transferred, transfers started in the order of submission, a verdict    *)
(* that never overwrites a cancellation, and no transfer begun once the    *)
(* queue is stopped.                                                       *)
(***************************************************************************)
EXTENDS Integers

VARIABLES
  ledger,   \* the state of every file the queue remembers, by id
  active,   \* the id being transferred, 0 for none
  issued,   \* the last id handed out
  running   \* it has not been stopped

lvars == <<ledger, active, issued, running>>

Start == ledger = [id \in {} |-> "Queued"] /\ active = 0 /\ issued = 0 /\ running = TRUE

Submit ==
  /\ issued' = issued + 1
  /\ ledger' = [id \in DOMAIN ledger \cup {issued + 1} |->
                  IF id = issued + 1 THEN "Queued" ELSE ledger[id]]
  /\ UNCHANGED <<active, running>>

\* First come, first served.
Begin(id) ==
  /\ running /\ active = 0
  /\ id \in DOMAIN ledger /\ ledger[id] = "Queued"
  /\ \A other \in DOMAIN ledger : ledger[other] = "Queued" => id <= other
  /\ active' = id
  /\ ledger' = [ledger EXCEPT ![id] = "Sending"]
  /\ UNCHANGED <<issued, running>>

Settle(verdict) ==
  /\ active # 0
  /\ active' = 0
  /\ ledger' = IF active \in DOMAIN ledger /\ ledger[active] # "Canceled"
               THEN [ledger EXCEPT ![active] = verdict] ELSE ledger
  /\ UNCHANGED <<issued, running>>

\* Files a user cancels, at once or one at a time, leave every other file alone.
Cancel(ids) ==
  /\ ids # {} /\ ids \subseteq DOMAIN ledger
  /\ ledger' = [id \in DOMAIN ledger |-> IF id \in ids THEN "Canceled" ELSE ledger[id]]
  /\ UNCHANGED <<active, issued, running>>

Resubmit(id) ==
  /\ id \in DOMAIN ledger
  /\ ledger' = [ledger EXCEPT ![id] = "Queued"]
  /\ UNCHANGED <<active, issued, running>>

Forget(id) ==
  /\ id \in DOMAIN ledger
  /\ ledger' = [other \in DOMAIN ledger \ {id} |-> ledger[other]]
  /\ UNCHANGED <<active, issued, running>>

\* A transfer under way goes on to its verdict.
Halt ==
  /\ running /\ running' = FALSE
  /\ UNCHANGED <<ledger, active, issued>>

Change ==
  \/ Submit \/ Halt
  \/ \E id \in DOMAIN ledger : Begin(id) \/ Resubmit(id) \/ Forget(id)
  \/ \E verdict \in {"Done", "Failed"} : Settle(verdict)
  \/ \E ids \in SUBSET DOMAIN ledger : Cancel(ids)

Spec == Start /\ [][Change]_lvars
=============================================================================
