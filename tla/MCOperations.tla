----------------------------- MODULE MCOperations -----------------------------
(* Small instances of the refunds and subscriptions and of the backups for  *)
(* TLC.  The modules share no state, so a behaviour is one of one module    *)
(* and the other stays as it starts.                                        *)
EXTENDS Billing, BackupChain, TLC

CONSTANTS r1, r2, o1, o2, Foci

VARIABLE focus

operationsVars == <<focus, billingVars, backupVars>>

OperationsInit == focus \in Foci /\ BillingInit /\ BackupInit

OperationsNext ==
  \/ focus = "billing" /\ BillingNext /\ UNCHANGED <<focus, backupVars>>
  \/ focus = "backup" /\ BackupNext /\ UNCHANGED <<focus, billingVars>>

OperationsSpec == OperationsInit /\ [][OperationsNext]_operationsVars

\* Bound: the last backup is made by a call that is alone, in a world without
\* errors; it is there for the chains of three.
LastBackupAlone ==
  \/ backups < BackupCount - 1
  \/ backups = BackupCount - 1 /\ \A r \in BackupCalls : backupCall[r].stage # "base"
  \/ /\ backupFaults = 0
     /\ Cardinality({r \in BackupCalls : backupCall[r].stage # "idle"}) <= 1

\* Requests are alike, and so are the refunds and the components of a backup.
OperationsSymmetry == Permutations({r1, r2}) \cup Permutations({o1, o2})
=============================================================================
