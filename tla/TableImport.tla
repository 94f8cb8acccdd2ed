----------------------------- MODULE TableImport -----------------------------
(***************************************************************************)
(* Import of an uploaded CSV file into a reviewed table: import_routes.py, *)
(* load_data of import_service.py, and the sessions of session_store.py    *)
(* that hold the import jobs.                                              *)
(*                                                                         *)
(* All jobs name one table.  DROP and CREATE commit by themselves; LOAD    *)
(* DATA commits when the connection is left and holds the table until      *)
(* then, so it is one step with its commit.  Rows are counted by the file  *)
(* they were read from and by their primary key; rows of a file that share *)
(* a key count as one.                                                     *)
(***************************************************************************)
EXTENDS Requests

CONSTANTS
  Sessions, \* session ids; none is given twice
  Jobs,     \* ids of import jobs, and of their uploaded files
  OldRows,  \* stands for the rows that the table had before
  RowKeys,  \* values of the primary key
  KeysOf,   \* the keys of the rows of each file, and of the old rows
  TableExists, \* whether the table is there at first,
  TableKeyed,  \* and whether it then has a primary key of columns of the file
  SignedIn, \* sessions at first
  OwnerOf,  \* the session of each job that it holds at first
  ReviewOf  \* the review of each of these that is reviewed at first

\* A job that nobody has uploaded yet needs some owner.
ASSUME ImportAssumption ==
  /\ OldRows \notin Jobs /\ TableExists \in BOOLEAN
  /\ TableKeyed \in {FALSE, TableExists}
  /\ KeysOf \in [Jobs \cup {OldRows} -> SUBSET RowKeys]
  /\ Sessions # {} /\ SignedIn \subseteq Sessions
  /\ DOMAIN OwnerOf \subseteq Jobs
  /\ \A j \in DOMAIN OwnerOf : OwnerOf[j] \in SignedIn
  /\ DOMAIN ReviewOf \subseteq DOMAIN OwnerOf
  /\ \A j \in DOMAIN ReviewOf : ReviewOf[j] \in [drop : BOOLEAN, data : BOOLEAN, keyed : BOOLEAN]

VARIABLES
  session,     \* state of each session: unused, live, cleared
  job,         \* what each job holds
  uploads,     \* jobs whose uploaded file exists
  exists,      \* the table exists
  keyed,       \* it has a primary key made of columns of the file
  rows,        \* how often the table has each row of each file
  imported,    \* history: jobs that were reported as loaded
  overwritten, \* history: jobs that were loaded before a DROP TABLE
  unsure       \* history: jobs submitted again before the first answer, or
               \* answered with an error after the commit

sessions == <<session, job, uploads>>
importTable == <<exists, keyed, rows>>
importHistory == <<imported, overwritten, unsure>>
imports == <<sessions, importTable, importHistory>>

Sources == Jobs \cup {OldRows}
Review == [drop : BOOLEAN, data : BOOLEAN, keyed : BOOLEAN]
NotReviewed == [drop |-> FALSE, data |-> FALSE, keyed |-> FALSE]
JobStates == {"none", "inspected", "reviewed", "gone"}
NoJob == [state |-> "none", owner |-> CHOOSE s \in Sessions : TRUE, review |-> NotReviewed]
Inspected(s) == [NoJob EXCEPT !.state = "inspected", !.owner = s]
Reviewed(s, r) == [Inspected(s) EXCEPT !.state = "reviewed", !.review = r]

InitImport ==
  /\ session = [s \in Sessions |-> IF s \in SignedIn THEN "live" ELSE "unused"]
  /\ job = [j \in Jobs |-> CASE j \in DOMAIN ReviewOf -> Reviewed(OwnerOf[j], ReviewOf[j])
                             [] j \in DOMAIN OwnerOf \ DOMAIN ReviewOf -> Inspected(OwnerOf[j])
                             [] OTHER -> NoJob]
  /\ uploads = DOMAIN OwnerOf
  /\ exists = TableExists
  /\ keyed = TableKeyed
  /\ rows = [r \in Sources |-> [k \in RowKeys |->
              IF r = OldRows /\ exists /\ k \in KeysOf[r] THEN 1 ELSE 0]]
  /\ imported = {} /\ overwritten = {} /\ unsure = {}

\* connection_state(): the request finds its session.
Live(s) == session[s] = "live"
JobsOf(s) == {j \in Jobs : job[j].owner = s /\ job[j].state \in {"inspected", "reviewed"}}

-----------------------------------------------------------------------------
(* inspect, prepare *)

BeginInspect(t) ==
  \E s \in Sessions, j \in Jobs :
    /\ Live(s) /\ job[j].state = "none" /\ j \notin uploads
    /\ \A u \in Threads : call[u].kind = "inspect" => call[u].job # j
    /\ Begin(t, "upload", [kind |-> "inspect", session |-> s, job |-> j])

Upload(t) ==
  /\ pc[t] = "upload"
  /\ uploads' = uploads \cup {call[t].job}
  /\ Goes(t, "inspect")
  /\ UNCHANGED <<session, job, importTable, importHistory, limits>>

\* inspect_csv accepts the file or refuses it; the session may be gone by now.
\* In the last two cases the file stays.
Inspect(t) ==
  /\ pc[t] = "inspect"
  /\ \/ /\ Live(call[t].session)
        /\ job' = [job EXCEPT ![call[t].job] = Inspected(call[t].session)]
     \/ UNCHANGED job
  /\ Ends(t)
  /\ UNCHANGED <<session, uploads, importTable, importHistory, limits>>

\* The whole request is one assignment to the job.
Prepare(t) ==
  /\ \E s \in Sessions, r \in Review : \E j \in JobsOf(s) :
       /\ Live(s)
       /\ job' = [job EXCEPT ![j].state = "reviewed", ![j].review = r]
  /\ Begin(t, "idle", NoCall)
  /\ UNCHANGED <<session, uploads, importTable, importHistory>>

-----------------------------------------------------------------------------
(* load *)

Loading(j) == \E t \in Threads : call[t].kind = "load" /\ call[t].job = j

BeginLoad(t) ==
  \E s \in Sessions : \E j \in JobsOf(s) :
    /\ Live(s) /\ job[j].state = "reviewed"
    /\ unsure' = IF Loading(j) THEN unsure \cup {j} ELSE unsure
    /\ Begin(t, "validate", [kind |-> "load", job |-> j, review |-> job[j].review])
    /\ UNCHANGED <<sessions, importTable, imported, overwritten>>

\* _validate_primary_key_values reads the file if columns of it are the key.
Validate(t) ==
  /\ pc[t] = "validate"
  /\ LET r == call[t].review
     IN IF r.data /\ r.keyed /\ call[t].job \notin uploads THEN Ends(t)
        ELSE Goes(t, IF r.drop THEN "dropTable" ELSE "createTable")
  /\ UNCHANGED <<imports, limits>>

\* The rows of the job are committed.
Loaded(j) ==
  \/ j \in imported
  \/ \E t \in Threads : pc[t] \in {"unlink", "pop"} /\ call[t].job = j /\ call[t].review.data

DropExisting(t) ==
  /\ pc[t] = "dropTable"
  /\ exists' = FALSE
  /\ overwritten' = overwritten \cup {j \in Jobs : Loaded(j)}
  /\ rows' = [r \in Sources |-> [k \in RowKeys |-> 0]]
  /\ Goes(t, "createTable")
  /\ UNCHANGED <<sessions, keyed, imported, unsure, limits>>

\* CREATE TABLE IF NOT EXISTS
CreateReviewed(t) ==
  /\ pc[t] = "createTable"
  /\ exists' = TRUE
  /\ keyed' = IF exists THEN keyed ELSE call[t].review.keyed
  /\ Goes(t, IF call[t].review.data THEN "loadData" ELSE "unlink")
  /\ UNCHANGED <<sessions, rows, importHistory, limits>>

\* The file or the table may be gone.
Loads(j) == j \in uploads /\ exists

\* LOCAL without REPLACE works like IGNORE: a row whose key is in the table is
\* skipped with a warning.
Adds(j, k) == k \in KeysOf[j] /\ ~(keyed /\ \E r \in Sources : rows[r][k] > 0)

Load(j) ==
  rows' = [rows EXCEPT ![j] = [k \in RowKeys |-> IF Adds(j, k) THEN @[k] + 1 ELSE @[k]]]

\* Mutated LoadData: a failing LOAD DATA is not reported.
LoadDataUnchecked(t) ==
  /\ pc[t] = "loadData"
  /\ IF Loads(call[t].job) THEN Load(call[t].job) ELSE UNCHANGED rows
  /\ Goes(t, "unlink")
  /\ UNCHANGED <<sessions, exists, keyed, importHistory, limits>>

LoadData(t) ==
  /\ pc[t] = "loadData"
  /\ IF Loads(call[t].job)
     THEN Load(call[t].job) /\ Goes(t, "unlink")
     ELSE UNCHANGED rows /\ Ends(t)
  /\ UNCHANGED <<sessions, exists, keyed, importHistory, limits>>

Unlink(t) ==
  /\ pc[t] = "unlink"
  /\ uploads' = uploads \ {call[t].job}
  /\ Goes(t, "pop")
  /\ UNCHANGED <<session, job, importTable, importHistory, limits>>

Pop(t) ==
  /\ pc[t] = "pop"
  /\ job' = [job EXCEPT ![call[t].job].state = "gone"]
  /\ imported' = IF call[t].review.data THEN imported \cup {call[t].job} ELSE imported
  /\ Ends(t)
  /\ UNCHANGED <<session, uploads, importTable, overwritten, unsure, limits>>

ImportSteps ==
  {"upload", "inspect", "validate", "dropTable", "createTable", "loadData", "unlink", "pop"}

\* A statement or a file operation raises; after the commit this is reported
\* as an import that failed, with a job that can be submitted again.
ImportFails(t) ==
  /\ pc[t] \in ImportSteps
  /\ Fault
  /\ unsure' = IF pc[t] \in {"unlink", "pop"} THEN unsure \cup {call[t].job} ELSE unsure
  /\ Ends(t)
  /\ UNCHANGED <<sessions, importTable, imported, overwritten>>

\* The commit of LOAD DATA is done, but its answer is lost.
LoadUnanswered(t) ==
  /\ pc[t] = "loadData" /\ Fault
  /\ Loads(call[t].job)
  /\ Load(call[t].job)
  /\ unsure' = unsure \cup {call[t].job}
  /\ Ends(t)
  /\ UNCHANGED <<sessions, exists, keyed, imported, overwritten>>

-----------------------------------------------------------------------------
(* SessionStore *)

Create(s) ==
  /\ session[s] = "unused"
  /\ session' = [session EXCEPT ![s] = "live"]
  /\ UNCHANGED <<job, uploads, importTable, importHistory>>

Cleared(ss) ==
  /\ session' = [s \in Sessions |-> IF s \in ss THEN "cleared" ELSE session[s]]
  /\ job' = [j \in Jobs |->
               IF \E s \in ss : j \in JobsOf(s) THEN [job[j] EXCEPT !.state = "gone"] ELSE job[j]]

\* clear: by a logout, or by login_required when the database does not answer.
Clear(t) ==
  /\ \E s \in Sessions :
       /\ Live(s)
       /\ Cleared({s})
       /\ uploads' = uploads \ JobsOf(s)
  /\ Begin(t, "idle", NoCall)
  /\ UNCHANGED <<importTable, importHistory>>

\* With the process all sessions end; their files stay.
SessionsEnd ==
  /\ Cleared({s \in Sessions : Live(s)})
  /\ unsure' = unsure \cup {j \in Jobs : Loading(j)}
  /\ UNCHANGED <<uploads, importTable, imported, overwritten>>

BeginImport(t) ==
  \/ BeginInspect(t) /\ UNCHANGED imports
  \/ BeginLoad(t) \/ Prepare(t) \/ Clear(t)

ImportStep(t) ==
  \/ Upload(t) \/ Inspect(t)
  \/ Validate(t) \/ DropExisting(t) \/ CreateReviewed(t) \/ LoadData(t) \/ Unlink(t) \/ Pop(t)
  \/ ImportFails(t) \/ LoadUnanswered(t)

ImportTypeOK ==
  /\ session \in [Sessions -> {"unused", "live", "cleared"}]
  /\ job \in [Jobs -> [state : JobStates, owner : Sessions, review : Review]]
  /\ uploads \subseteq Jobs
  /\ exists \in BOOLEAN /\ keyed \in BOOLEAN
  /\ rows \in [Sources -> [RowKeys -> Nat]]
  /\ exists \/ \A r \in Sources, k \in RowKeys : rows[r][k] = 0
  /\ imported \subseteq Jobs /\ overwritten \subseteq Jobs /\ unsure \subseteq Jobs

\* Every row of the file is in the table, or was skipped for one of its key.
Complete(j) ==
  \A k \in KeysOf[j] : rows[j][k] = 1 \/ (keyed /\ \E r \in Sources : rows[r][k] > 0)

(* No row of a file is in the table twice, and none is missing if the import
   was reported as done, until another import drops the table: whatever
   statement fails before the commit, whatever session is cleared during the
   import, and however often a failed import is submitted again.  A row counts
   as there if the table has its key from another file or from before: LOAD
   DATA skips it and the import is reported as done.  Excepted are jobs
   submitted twice at once and those whose commit was answered by an error. *)
ImportedOnce ==
  \A j \in Jobs \ unsure :
    /\ \A k \in RowKeys : rows[j][k] <= 1
    /\ j \in imported => Complete(j) \/ j \in overwritten
=============================================================================
