------------------------------- MODULE LogLedger -------------------------------
(* What the platform promises about a log row, seen from billing: it appears on *)
(* a device, and ends up in ad_logs or is lost, rolled back on the device or on *)
(* the way.  A lost copy may still be replaced by another one; a stored log     *)
(* stays stored, and nothing is stored that no device recorded.                 *)
CONSTANT Logs
VARIABLE status

LedgerInit == status = [l \in Logs |-> "absent"]

RecordLog(l) ==
  /\ status[l] = "absent"
  /\ status' = [status EXCEPT ![l] = "pending"]

StoreLog(l) ==
  /\ status[l] \in {"pending", "lost"}
  /\ status' = [status EXCEPT ![l] = "stored"]

LoseLogs(S) ==
  /\ \A l \in S : status[l] = "pending"
  /\ status' = [l \in Logs |-> IF l \in S THEN "lost" ELSE status[l]]

LedgerNext ==
  \/ \E l \in Logs : RecordLog(l) \/ StoreLog(l)
  \/ \E S \in SUBSET Logs : LoseLogs(S)

LedgerSpec == LedgerInit /\ [][LedgerNext]_status
================================================================================
