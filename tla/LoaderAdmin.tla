----------------------------- MODULE LoaderAdmin -----------------------------
(***************************************************************************)
(* The loader together with the cleanup of its stage tables, which an      *)
(* operator starts on the event page: EventTransactionService._stage_      *)
(* snapshot and cleanup_stage_table(s) of event_tx_service.py.             *)
(*                                                                         *)
(* The first SELECT of the request opens the read view of its transaction, *)
(* so records, mappings and captures are seen as of then; the names in     *)
(* information_schema are those of the moment, and every DROP TABLE is a   *)
(* statement of its own.  All stage tables are in one database and are     *)
(* named after the table, not the database, they are loaded into.          *)
(*                                                                         *)
(* The message a worker executes is PROCESSING until the worker returns or *)
(* the lease of the message runs out: then another processor makes it      *)
(* FAILED, and executes it.  One cleanup runs at a time: two drop what one *)
(* drops.                                                                  *)
(***************************************************************************)
EXTENDS PartitionLoader

CONSTANTS
  TableName,   \* the name of each target without its database
  MaxCleanups  \* bound: requests for a cleanup

ASSUME AdminAssumption == Targets \subseteq DOMAIN TableName /\ MaxCleanups \in Nat

VARIABLES
  cleanup,  \* the request: its step, its target, workers whose stage table it
            \* drops, and (history) loads under way when it opened its view
  cleanups, \* cleanups left
  lapsed,   \* workers whose message ran out of its lease
  recorded  \* history: workers whose load is the last that made its record
            \* LOADING, while it is

adminVars == <<vars, cleanup, cleanups, lapsed, recorded>>

NoCleanup == [step |-> "idle", target |-> NoTarget, names |-> {}, busy |-> {}]

AdminInit ==
  /\ Init
  /\ cleanup = NoCleanup
  /\ cleanups = MaxCleanups
  /\ lapsed = {} /\ recorded = {}

-----------------------------------------------------------------------------
(* The loader. *)

\* INSERT into a stage table that was dropped, and the exchange with it, raise.
StageGone(w) ==
  /\ stage[w] = {}
  /\ \E from \in {"staged", "reading", "filled"} : Raises(w, from, "error")
  /\ UNCHANGED <<source, target, control, tables, job, to, batch, stage, orphans, limits>>

NeedsStage(w) == pc[w] \in {"staged", "reading", "filled"} /\ stage[w] = {}

Loads ==
  \/ \E w \in Workers :
       \/ StageGone(w)
       \/ LoadStep(w) /\ (NeedsStage(w) => pc'[w] = "raised")
       \/ DeleteStep(w) \/ Failure(w) \/ Return(w)
       \/ \E n \in 1..Len(log) : Begin(w, n)
  \/ Buckets
  \/ \E m \in Mappings, t \in Targets : Retarget(m, t)
  \/ \E o \in Objects : LeaseElapses(o)

Allocates(w) == pc[w] = "resolved" /\ pc'[w] = "allocated"

LoaderStep ==
  /\ Loads
  /\ cleanup' = [cleanup EXCEPT !.busy = @ \ {w \in Workers : pc'[w] = "idle"},
                                !.names = @ \ {w \in Workers : stage'[w] = {}}]
  /\ lapsed' = lapsed \ {w \in Workers : pc'[w] \in {"idle", "returned"}}
  /\ recorded' = {w \in Workers :
                    /\ pc'[w] \in LoadSteps
                    /\ record'[log[job'[w]].object].state = "LOADING"
                    /\ \/ Allocates(w)
                       \/ w \in recorded /\ \A u \in Workers : Allocates(u) => Object(u) # Object(w)}
  /\ UNCHANGED cleanups

\* This makes no difference to deletes and to loads that have ended.
MessageLapses(w) ==
  /\ pc[w] \in {"resolved"} \cup LoadSteps
  /\ lapsed' = lapsed \cup {w}
  /\ UNCHANGED <<vars, cleanup, cleanups, recorded>>

-----------------------------------------------------------------------------
(* The cleanup. *)

RecordBlocks(t) == \E o \in Objects : record[o].state = "LOADING" /\ record[o].target = t
\* The message of a worker that has returned is about to be ended.
CaptureBlocks(t) ==
  \E w \in Workers \ lapsed : pc[w] \notin {"idle", "returned"} /\ target[MappingOf[Object(w)]] = t

\* Mutated Blocked: captures are not consulted.
BlockedByRecord(t) == RecordBlocks(t)

Blocked(t) == RecordBlocks(t) \/ CaptureBlocks(t)

\* A load begins with its allocation, or before if its message is open.
UnderWay == {w \in Workers : pc[w] \in LoadSteps \/ (pc[w] = "resolved" /\ w \notin lapsed)}

\* _require_target.  What blocks the cleanup is read later, but as of now.
OpenView(t) ==
  /\ cleanup.step = "idle" /\ cleanups > 0
  /\ \E m \in Mappings : target[m] = t
  /\ ~Blocked(t)
  /\ cleanup' = [NoCleanup EXCEPT !.step = "opened", !.target = t,
                                 !.busy = UnderWay]
  /\ cleanups' = cleanups - 1
  /\ UNCHANGED <<vars, lapsed, recorded>>

Named(t) == {w \in Workers : stage[w] # {} /\ TableName[to[w]] = TableName[t]}

\* The request names one of the tables, or all of them.
ListNames ==
  /\ cleanup.step = "opened"
  /\ \E names \in {Named(cleanup.target), {}} \cup {{w} : w \in Named(cleanup.target)} :
       cleanup' = [cleanup EXCEPT !.step = "listed", !.names = names]
  /\ UNCHANGED <<vars, cleanups, lapsed, recorded>>

DropNamed(w) ==
  /\ w \in cleanup.names
  /\ stage' = [stage EXCEPT ![w] = {}]
  /\ cleanup' = [cleanup EXCEPT !.names = @ \ {w}]
  /\ UNCHANGED <<source, target, control, tables, pc, job, to, batch, outcome, orphans, limits,
                 cleanups, lapsed, recorded>>

\* Some of the tables that no worker knows have been dropped as well.
EndCleanup ==
  /\ cleanup.step = "listed" /\ cleanup.names = {}
  /\ orphans' \in 0..orphans
  /\ cleanup' = NoCleanup
  /\ UNCHANGED <<source, target, control, tables, workers, limits, cleanups, lapsed, recorded>>

CleanupStep ==
  \/ \E t \in Targets : OpenView(t)
  \/ ListNames
  \/ \E w \in Workers : DropNamed(w)
  \/ EndCleanup

AdminNext == LoaderStep \/ (\E w \in Workers : MessageLapses(w)) \/ CleanupStep

AdminSpec == AdminInit /\ [][AdminNext]_adminVars

-----------------------------------------------------------------------------
(* A load that was under way loses its stage table to the cleanup. *)
LosesStage(w) ==
  /\ pc[w] \in {"staged", "reading", "filled"} /\ pc'[w] = pc[w]
  /\ stage[w] # {} /\ stage'[w] = {}

(* "Active loads are protected": a load under way when the cleanup began keeps
   its stage table while its message is open, or while its record is LOADING for
   no other load, although the read view is older than the list of names.
   Excepted are stage tables of a table of the same name in another database,
   and edited mappings.  A load that begins after the read view, or that has
   neither of the two any more, is not protected. *)
CleanupSparesLoads ==
  [][\A w \in Workers : LosesStage(w) =>
       \/ w \notin cleanup.busy
       \/ to[w] # cleanup.target
       \/ retargets < MaxRetargets
       \/ w \in lapsed /\ w \notin recorded]_adminVars
=============================================================================
