--------------------------- MODULE ArchiveRegistry ---------------------------
(***************************************************************************)
(* Archive partitions of durable messages, the operations of               *)
(* stream_capture_service.py and the part of a reinitialization that       *)
(* concerns them: a registry row and a physical table for every period,    *)
(* which are created and dropped by separate statements.  MySQL commits at *)
(* every CREATE, ALTER and DROP; the INSERT of the registry row and the    *)
(* move of the message behind it are one transaction, whose row locks      *)
(* make it one step.                                                       *)
(***************************************************************************)
EXTENDS Requests, FiniteSets

CONSTANTS
  Messages, \* captured messages
  Periods,  \* values of partition_name
  InitialStatus \* the status of each message at first

VARIABLES
  status,   \* of each row of stream_message_capture
  registry, \* periods with a row of stream_message_archive_partitions
  created,  \* periods whose table exists
  archived  \* messages in each table

archive == <<status, registry, created, archived>>

Terminal == {"COMPLETED", "FAILED"}
Statuses == Terminal \cup {"CAPTURED", "none"}

ASSUME ArchiveAssumption == InitialStatus \in [Messages -> Statuses]

InitArchive ==
  /\ status = InitialStatus
  /\ registry = {} /\ created = {}
  /\ archived = [p \in Periods |-> {}]

\* The operations of a batch follow each other; one that raises ends it.
NonEmpty(S) == (SUBSET S) \ {{}}

-----------------------------------------------------------------------------
(* retry *)
BeginRetry(t) ==
  \E ms \in NonEmpty(Messages) : Begin(t, "retry", [kind |-> "retry", left |-> ms])

Retry(t) ==
  /\ pc[t] = "retry"
  /\ \E m \in call[t].left :
       /\ status' = [status EXCEPT ![m] = IF @ = "FAILED" THEN "CAPTURED" ELSE @]
       /\ IF call[t].left = {m} THEN Ends(t)
          ELSE GoesWith(t, "retry", [call[t] EXCEPT !.left = @ \ {m}])
  /\ UNCHANGED <<registry, created, archived, limits>>

\* A processor ends the execution of a message.
Execute(m) ==
  /\ status[m] = "CAPTURED"
  /\ \E s \in Terminal : status' = [status EXCEPT ![m] = s]
  /\ UNCHANGED <<registry, created, archived, threads, limits>>

-----------------------------------------------------------------------------
(* archive and _ensure_partition *)
BeginArchive(t) ==
  \E ms \in NonEmpty(Messages), p \in Periods :
    Begin(t, "lookUp", [kind |-> "archive", left |-> ms, period |-> p, new |-> FALSE])

LookUp(t) ==
  /\ pc[t] = "lookUp"
  /\ LET known == call[t].period \in registry
     IN GoesWith(t, IF known THEN "upgrade" ELSE "create", [call[t] EXCEPT !.new = ~known])
  /\ UNCHANGED <<archive, limits>>

\* _ensure_partition_metrics: no column is found of a table that is gone, and
\* adding one raises.
Upgrade(t) ==
  /\ pc[t] = "upgrade"
  /\ IF call[t].period \in created THEN Goes(t, "move") ELSE Ends(t)
  /\ UNCHANGED <<archive, limits>>

CreateTable(t) ==
  /\ pc[t] = "create"
  /\ created' = created \cup {call[t].period}
  /\ Goes(t, "move")
  /\ UNCHANGED <<status, registry, archived, limits>>

\* Mutated Inserts: the partition's table is not needed for its row.
InsertsAnyway(t) == call[t].new => call[t].period \notin registry

\* The row's key may have been inserted, and the table dropped, meanwhile.
Inserts(t) ==
  /\ call[t].new => call[t].period \notin registry
  /\ call[t].period \in created

\* Rolled back, the registry row too, if the message is not terminal any more.
MoveRows(t, m) ==
  IF Inserts(t) /\ status[m] \in Terminal
  THEN /\ status' = [status EXCEPT ![m] = "none"]
       /\ archived' = [archived EXCEPT ![call[t].period] = @ \cup {m}]
       /\ registry' = registry \cup {call[t].period}
  ELSE UNCHANGED <<status, archived, registry>>

Move(t) ==
  /\ pc[t] = "move"
  /\ \E m \in call[t].left :
       /\ MoveRows(t, m)
       /\ IF ~Inserts(t) \/ call[t].left = {m} THEN Ends(t)
          ELSE GoesWith(t, "lookUp", [call[t] EXCEPT !.left = @ \ {m}])
  /\ UNCHANGED <<created, limits>>

\* The commit is done, but its answer is lost.
MoveUnanswered(t) ==
  /\ pc[t] = "move" /\ Fault
  /\ \E m \in call[t].left : MoveRows(t, m)
  /\ Ends(t)
  /\ UNCHANGED created

-----------------------------------------------------------------------------
(* delete_archived and delete_archive_partition *)
BeginDeleteArchived(t) ==
  \E p \in registry : \E ms \in NonEmpty(archived[p]) : \E m \in ms :
    Begin(t, "find", [kind |-> "deleteArchived", left |-> ms \ {m}, message |-> m, period |-> p])

BeginDropPartitions(t) ==
  \E ps \in NonEmpty(registry) : \E p \in ps :
    Begin(t, "find", [kind |-> "dropPartitions", left |-> ps \ {p}, period |-> p])

\* The next partition, or message, of the batch.
Continue(t) ==
  IF call[t].left = {} THEN Ends(t)
  ELSE \E next \in call[t].left :
         GoesWith(t, "find",
           IF call[t].kind = "dropPartitions"
           THEN [call[t] EXCEPT !.period = next, !.left = @ \ {next}]
           ELSE [call[t] EXCEPT !.message = next, !.left = @ \ {next}])

\* A partition that is not registered is passed over.
Find(t) ==
  /\ pc[t] = "find"
  /\ IF call[t].period \notin registry THEN Continue(t)
     ELSE Goes(t, IF call[t].kind = "dropPartitions" THEN "drop" ELSE "delete")
  /\ UNCHANGED <<archive, limits>>

Delete(t) ==
  /\ pc[t] = "delete"
  /\ archived' = [archived EXCEPT ![call[t].period] = @ \ {call[t].message}]
  /\ IF call[t].period \in created THEN Continue(t) ELSE Ends(t)
  /\ UNCHANGED <<status, registry, created, limits>>

Without(ps) == [p \in Periods |-> IF p \in ps THEN {} ELSE archived[p]]

\* DROP TABLE of a table that is gone raises.
Drop(t) ==
  /\ pc[t] = "drop"
  /\ created' = created \ {call[t].period}
  /\ archived' = Without({call[t].period})
  /\ IF call[t].period \in created THEN Goes(t, "unregister") ELSE Ends(t)
  /\ UNCHANGED <<status, registry, limits>>

\* Mutated Unregister: the DELETE is not committed.
UnregisterUncommitted(t) ==
  /\ pc[t] = "unregister"
  /\ Continue(t)
  /\ UNCHANGED <<archive, limits>>

Unregister(t) ==
  /\ pc[t] = "unregister"
  /\ registry' = registry \ {call[t].period}
  /\ Continue(t)
  /\ UNCHANGED <<status, created, archived, limits>>

-----------------------------------------------------------------------------
(* _initialize with replace: the tables of the registry, then the registry   *)
(* and the captures.                                                         *)
BeginReinitialize(t) ==
  Begin(t, "dropTables", [kind |-> "reinitialize", left |-> registry])

DropTable(t) ==
  /\ pc[t] = "dropTables"
  /\ \E p \in call[t].left :
       /\ created' = created \ {p}
       /\ archived' = Without({p})
       /\ GoesWith(t, "dropTables", [call[t] EXCEPT !.left = @ \ {p}])
  /\ UNCHANGED <<status, registry, limits>>

DropRegistry(t) ==
  /\ pc[t] = "dropTables" /\ call[t].left = {}
  /\ registry' = {}
  /\ status' = [m \in Messages |-> "none"]
  /\ Ends(t)
  /\ UNCHANGED <<created, archived, limits>>

-----------------------------------------------------------------------------
ArchiveSteps ==
  {"retry", "lookUp", "upgrade", "create", "move", "find", "delete", "drop",
   "unregister", "dropTables"}

\* A statement raises, and the request ends.
ArchiveFails(t) ==
  /\ pc[t] \in ArchiveSteps /\ Fault
  /\ Ends(t)
  /\ UNCHANGED archive

BeginArchiveRequest(t) ==
  \/ BeginRetry(t) \/ BeginArchive(t) \/ BeginDeleteArchived(t)
  \/ BeginDropPartitions(t) \/ BeginReinitialize(t)

ArchiveStep(t) ==
  \/ Retry(t) \/ LookUp(t) \/ Upgrade(t) \/ CreateTable(t) \/ Move(t) \/ MoveUnanswered(t)
  \/ Find(t) \/ Delete(t) \/ Drop(t) \/ Unregister(t) \/ DropTable(t) \/ DropRegistry(t)
  \/ ArchiveFails(t)

ArchiveTypeOK ==
  /\ status \in [Messages -> Statuses]
  /\ registry \subseteq Periods /\ created \subseteq Periods
  /\ archived \in [Periods -> SUBSET Messages]
  /\ \A p \in Periods : archived[p] # {} => p \in created

(* A registry row without its table is beyond repair for the pages: archiving
   into the period raises at the upgrade, listing raises, and dropping the
   partition raises before it deletes the row.  However requests interleave,
   there is one only while the request that dropped the table is about to
   delete the row, or after a fault. *)
RegistryHasTable ==
  \A p \in registry \ created :
    \/ faults < MaxFaults
    \/ \E t \in Threads :
         \/ pc[t] = "unregister" /\ call[t].period = p
         \/ pc[t] = "dropTables"
=============================================================================
