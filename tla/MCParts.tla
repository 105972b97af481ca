------------------------------ MODULE MCParts ------------------------------
(* The parts of the system that share no state with each other, in one      *)
(* instance for TLC: the cron scan, the batch buffer, the files and the      *)
(* tokens.  Init picks one of them and the others stay where they start:    *)
(* what they do at the same time does not concern it.                       *)
EXTENDS MCCron, EventBatch, Files, Tokens

VARIABLE part   \* the part that runs

cronVars == vars

ASSUME BatchHolds == BatchAssumption
ASSUME FilesHold == FilesAssumption
ASSUME TokensHold == TokensAssumption

Unscanned == <<Only(0), Star, Star, Star>>

MCInit ==
  /\ part \in {"cron", "batch", "files", "tokens"}
  /\ Init
  /\ part # "cron" => tier = "py" /\ expr = Unscanned /\ after = 0
  /\ BatchInit /\ FilesInit /\ TokensInit

MCNext ==
  /\ UNCHANGED part
  /\ \/ part = "cron" /\ Next /\ UNCHANGED <<batchVars, fileVars, tokenVars>>
     \/ part = "batch" /\ BatchNext /\ UNCHANGED <<cronVars, fileVars, tokenVars>>
     \/ part = "files" /\ FilesNext /\ UNCHANGED <<cronVars, batchVars, tokenVars>>
     \/ part = "tokens" /\ TokensNext /\ UNCHANGED <<cronVars, batchVars, fileVars>>

MCSpec ==
  /\ MCInit /\ [][MCNext]_<<part, cronVars, batchVars, fileVars, tokenVars>>
  /\ BatchFairness /\ FilesFairness

-----------------------------------------------------------------------------
(* The properties of the parts.                                              *)

(* Each part's variables keep their types. *)
PartsTypeOK == TypeOK /\ BatchTypeOK /\ FilesTypeOK /\ TokensTypeOK

(* Every event is at last inserted or given up, every request on files is    *)
(* answered.                                                                 *)
PartsEnd == EventsSettle /\ RequestsEnd
=============================================================================
