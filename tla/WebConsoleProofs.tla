--------------------------- MODULE WebConsoleProofs ---------------------------
(***************************************************************************)
(* Theorems about WebConsole for any number of threads, requests and       *)
(* faults, any profiles, sessions, import jobs, messages and periods.      *)
(***************************************************************************)
EXTENDS WebConsole, TLAPS

\* What a request knows, by kind.
SaveCalls == [kind : {"save"}, name : Names, original : Names, mode : {"direct", "ssh"},
              upload : BOOLEAN, createOnly : BOOLEAN, key : Keys \cup {NoKey},
              stale : Keys \cup {NoKey}, content : SUBSET Profiles]
DeleteCalls == [kind : {"delete"}, name : Names, key : Keys \cup {NoKey},
                stale : Keys \cup {NoKey}, content : SUBSET Profiles]
ProfileRow == [mode : {"none", "direct", "ssh"}, key : Keys \cup {NoKey}]
LoginCalls == [kind : {"login"}, profile : ProfileRow]
InspectCalls == [kind : {"inspect"}, session : Sessions, job : Jobs]
LoadCalls == [kind : {"load"}, job : Jobs, review : Review]
RetryCalls == [kind : {"retry"}, left : SUBSET Messages]
ArchiveCalls == [kind : {"archive"}, left : SUBSET Messages, period : Periods, new : BOOLEAN]
DeleteArchivedCalls ==
  [kind : {"deleteArchived"}, left : SUBSET Messages, message : Messages, period : Periods]
DropCalls == [kind : {"dropPartitions"}, left : SUBSET Periods, period : Periods]
ReinitializeCalls == [kind : {"reinitialize"}, left : SUBSET Periods]

Calls ==
  {NoCall} \cup SaveCalls \cup DeleteCalls \cup LoginCalls \cup InspectCalls \cup LoadCalls
  \cup RetryCalls \cup ArchiveCalls \cup DeleteArchivedCalls \cup DropCalls \cup ReinitializeCalls

\* A thread knows what its next step needs.
Fits(step, c) ==
  \/ step = "idle" /\ c = NoCall
  \/ step = "connect" /\ c \in LoginCalls
  \/ step \in {"check", "storeKey", "list", "write", "replace", "prune"} /\ c \in SaveCalls
  \/ step \in {"check", "write", "replace", "prune"} /\ c \in DeleteCalls
  \/ step \in {"upload", "inspect"} /\ c \in InspectCalls
  \/ step \in {"validate", "dropTable", "createTable", "loadData", "unlink", "pop"} /\ c \in LoadCalls
  \/ step = "retry" /\ c \in RetryCalls
  \/ step \in {"lookUp", "upgrade", "create", "move"} /\ c \in ArchiveCalls
  \/ step \in {"find", "delete"} /\ c \in DeleteArchivedCalls
  \/ step \in {"find", "drop", "unregister"} /\ c \in DropCalls
  \/ step = "dropTables" /\ c \in ReinitializeCalls

ThreadsOK ==
  /\ pc \in [Threads -> Steps]
  /\ call \in [Threads -> Calls]
  /\ \A t \in Threads : Fits(pc[t], call[t])

LimitsOK == requests \in 0..MaxRequests /\ faults \in 0..MaxFaults

TInv == ThreadsOK /\ LimitsOK /\ ProfileTypeOK /\ ImportTypeOK /\ ArchiveTypeOK

-----------------------------------------------------------------------------
(* Threads and what their requests know.                                   *)

LEMMA FitsTypes ==
  ASSUME NEW s, NEW c, Fits(s, c)
  PROVE  s \in Steps /\ c \in Calls
BY DEF Fits, Steps, ImportSteps, ArchiveSteps, Calls

LEMMA KindOfCall ==
  ASSUME NEW s, NEW c, Fits(s, c)
  PROVE  /\ s = "idle" <=> c = NoCall
         /\ s = "connect" => c \in LoginCalls
         /\ s \in {"storeKey", "list"} => c \in SaveCalls
         /\ s = "check" /\ c.kind = "save" => c \in SaveCalls
         /\ s = "check" /\ c.kind = "delete" => c \in DeleteCalls
         /\ s \in {"check", "write", "replace", "prune"} => c \in SaveCalls \cup DeleteCalls
         /\ s \in {"upload", "inspect"} => c \in InspectCalls
         /\ s \in {"validate", "dropTable", "createTable", "loadData", "unlink", "pop"} => c \in LoadCalls
         /\ s = "retry" => c \in RetryCalls
         /\ s \in {"lookUp", "upgrade", "create", "move"} => c \in ArchiveCalls
         /\ s = "delete" => c \in DeleteArchivedCalls
         /\ s = "find" => c \in DeleteArchivedCalls \cup DropCalls
         /\ s \in {"drop", "unregister"} => c \in DropCalls
         /\ s = "dropTables" => c \in ReinitializeCalls
<1>1. /\ NoCall.kind = "none"
      /\ \A x \in SaveCalls : x.kind = "save"
      /\ \A x \in DeleteCalls : x.kind = "delete"
      /\ \A x \in LoginCalls : x.kind = "login"
      /\ \A x \in InspectCalls : x.kind = "inspect"
      /\ \A x \in LoadCalls : x.kind = "load"
      /\ \A x \in RetryCalls : x.kind = "retry"
      /\ \A x \in ArchiveCalls : x.kind = "archive"
      /\ \A x \in DeleteArchivedCalls : x.kind = "deleteArchived"
      /\ \A x \in DropCalls : x.kind = "dropPartitions"
      /\ \A x \in ReinitializeCalls : x.kind = "reinitialize"
  BY DEF NoCall, SaveCalls, DeleteCalls, LoginCalls, InspectCalls, LoadCalls, RetryCalls,
     ArchiveCalls, DeleteArchivedCalls, DropCalls, ReinitializeCalls
<1>. QED BY <1>1 DEF Fits

\* A thread goes on to a step that fits what it knows; the others stay.
LEMMA ThreadGoes ==
  ASSUME ThreadsOK, NEW t \in Threads, NEW s, NEW c, Fits(s, c),
         pc' = [pc EXCEPT ![t] = s], call' = [call EXCEPT ![t] = c]
  PROVE  ThreadsOK' /\ pc'[t] = s /\ call'[t] = c
<1>1. s \in Steps /\ c \in Calls
  BY FitsTypes
<1>2. pc \in [Threads -> Steps] /\ call \in [Threads -> Calls]
  BY DEF ThreadsOK
<1>3. pc' \in [Threads -> Steps] /\ call' \in [Threads -> Calls]
  BY <1>1, <1>2
<1>4. \A u \in Threads : pc'[u] = IF u = t THEN s ELSE pc[u]
  BY <1>2
<1>5. \A u \in Threads : call'[u] = IF u = t THEN c ELSE call[u]
  BY <1>2
<1>6. \A u \in Threads : Fits(pc'[u], call'[u])
  BY <1>4, <1>5 DEF ThreadsOK
<1>. QED BY <1>3, <1>4, <1>5, <1>6 DEF ThreadsOK

LEMMA GoesOK ==
  ASSUME ThreadsOK, NEW t \in Threads, NEW s, Fits(s, call[t]), Goes(t, s)
  PROVE  ThreadsOK'
<1>1. call' = [call EXCEPT ![t] = call[t]] /\ pc' = [pc EXCEPT ![t] = s]
  BY DEF Goes, ThreadsOK
<1>. QED BY <1>1, ThreadGoes

LEMMA GoesWithOK ==
  ASSUME ThreadsOK, NEW t \in Threads, NEW s, NEW c, Fits(s, c), GoesWith(t, s, c)
  PROVE  ThreadsOK'
BY ThreadGoes DEF GoesWith

LEMMA EndsOK ==
  ASSUME ThreadsOK, NEW t \in Threads, Ends(t)
  PROVE  ThreadsOK'
BY ThreadGoes DEF Ends, GoesWith, Fits

LEMMA BeginOK ==
  ASSUME ThreadsOK, LimitsOK, NEW t \in Threads, NEW s, NEW c, Fits(s, c), Begin(t, s, c)
  PROVE  ThreadsOK' /\ LimitsOK'
<1>1. ThreadsOK'
  BY ThreadGoes DEF Begin
<1>2. LimitsOK'
  BY RequestsAssumption DEF Begin, LimitsOK
<1>. QED BY <1>1, <1>2

LEMMA FaultOK ==
  ASSUME LimitsOK, Fault
  PROVE  LimitsOK' /\ faults' < MaxFaults
BY RequestsAssumption DEF Fault, LimitsOK

LEMMA CallOf ==
  ASSUME ThreadsOK, NEW t \in Threads
  PROVE  Fits(pc[t], call[t]) /\ pc[t] \in Steps
BY DEF ThreadsOK

-----------------------------------------------------------------------------
(* What a request knows is kept as it goes on.                             *)

LEMMA SaveFields ==
  ASSUME NEW c \in SaveCalls, NEW k \in Keys \cup {NoKey}, NEW d \in Keys \cup {NoKey},
         NEW n \in SUBSET Profiles
  PROVE  /\ [c EXCEPT !.key = k, !.stale = d] \in SaveCalls
         /\ [c EXCEPT !.key = k] \in SaveCalls
         /\ [c EXCEPT !.content = n] \in SaveCalls
         /\ c.kind = "save" /\ c.name \in Names /\ c.original \in Names
         /\ c.mode \in {"direct", "ssh"} /\ c.upload \in BOOLEAN /\ c.createOnly \in BOOLEAN
         /\ c.key \in Keys \cup {NoKey} /\ c.stale \in Keys \cup {NoKey} /\ c.content \subseteq Profiles
BY DEF SaveCalls

LEMMA DeleteFields ==
  ASSUME NEW c \in DeleteCalls, NEW d \in Keys \cup {NoKey}, NEW n \in SUBSET Profiles
  PROVE  /\ [c EXCEPT !.stale = d, !.content = n] \in DeleteCalls
         /\ c.kind = "delete" /\ c.name \in Names /\ c.key \in Keys \cup {NoKey}
         /\ c.stale \in Keys \cup {NoKey} /\ c.content \subseteq Profiles
BY DEF DeleteCalls

LEMMA ProfileFields ==
  ASSUME NEW p \in Profiles, NEW n \in Names
  PROVE  p[n].mode \in {"none", "direct", "ssh"} /\ p[n].key \in Keys \cup {NoKey} /\ p[n] \in ProfileRow
BY DEF Profiles, ProfileRow

LEMMA ProfileIsRow ==
  ASSUME NEW m \in {"none", "direct", "ssh"}, NEW k \in Keys \cup {NoKey}
  PROVE  /\ Profile(m, k) \in ProfileRow /\ Profile(m, k).mode = m /\ Profile(m, k).key = k
         /\ Absent \in ProfileRow /\ Absent.mode = "none" /\ Absent.key = NoKey
BY DEF Profile, ProfileRow, Absent

LEMMA ProfileUpdate ==
  ASSUME NEW p \in Profiles, NEW n \in Names, NEW r \in ProfileRow
  PROVE  [p EXCEPT ![n] = r] \in Profiles
BY DEF Profiles, ProfileRow

LEMMA LoadFields ==
  ASSUME NEW c \in LoadCalls
  PROVE  /\ c.kind = "load" /\ c.job \in Jobs /\ c.review \in Review
         /\ c.review.drop \in BOOLEAN /\ c.review.data \in BOOLEAN /\ c.review.keyed \in BOOLEAN
BY DEF LoadCalls, Review

LEMMA InspectFields ==
  ASSUME NEW i \in InspectCalls
  PROVE  i.kind = "inspect" /\ i.session \in Sessions /\ i.job \in Jobs
BY DEF InspectCalls

LEMMA RetryFields ==
  ASSUME NEW r \in RetryCalls, NEW m
  PROVE  r.kind = "retry" /\ r.left \subseteq Messages /\ [r EXCEPT !.left = @ \ {m}] \in RetryCalls
BY DEF RetryCalls

LEMMA ArchiveFields ==
  ASSUME NEW a \in ArchiveCalls, NEW m, NEW b \in BOOLEAN
  PROVE  /\ a.kind = "archive" /\ a.left \subseteq Messages /\ a.period \in Periods /\ a.new \in BOOLEAN
         /\ [a EXCEPT !.left = @ \ {m}] \in ArchiveCalls /\ [a EXCEPT !.new = b] \in ArchiveCalls
BY DEF ArchiveCalls

LEMMA DeleteArchivedFields ==
  ASSUME NEW d \in DeleteArchivedCalls
  PROVE  /\ d.kind = "deleteArchived" /\ d.left \subseteq Messages /\ d.message \in Messages /\ d.period \in Periods
         /\ \A m \in d.left : [d EXCEPT !.message = m, !.left = @ \ {m}] \in DeleteArchivedCalls
BY DEF DeleteArchivedCalls

LEMMA DropFields ==
  ASSUME NEW x \in DropCalls
  PROVE  /\ x.kind = "dropPartitions" /\ x.left \subseteq Periods /\ x.period \in Periods
         /\ \A p \in x.left : [x EXCEPT !.period = p, !.left = @ \ {p}] \in DropCalls
BY DEF DropCalls

LEMMA ReinitializeFields ==
  ASSUME NEW y \in ReinitializeCalls, NEW p
  PROVE  /\ y.kind = "reinitialize" /\ y.left \subseteq Periods
         /\ [y EXCEPT !.left = @ \ {p}] \in ReinitializeCalls
BY DEF ReinitializeCalls

-----------------------------------------------------------------------------
(* Types: profiles.                                                        *)

LEMMA BeginProfileOK ==
  ASSUME TInv, NEW t \in Threads, BeginSave(t) \/ BeginDelete(t)
  PROVE  ThreadsOK' /\ LimitsOK' /\ ProfileTypeOK'
<1>0. ThreadsOK /\ LimitsOK /\ ProfileTypeOK
  BY DEF TInv
<1>1. CASE BeginSave(t)
  <2>1. PICK name \in Names, original \in Names, mode \in {"direct", "ssh"},
             upload \in BOOLEAN, createOnly \in BOOLEAN :
          Begin(t, "check", [kind |-> "save", name |-> name, original |-> original, mode |-> mode,
                             upload |-> upload, createOnly |-> createOnly, key |-> NoKey,
                             stale |-> NoKey, content |-> {}])
    BY <1>1 DEF BeginSave
  <2>2. [kind |-> "save", name |-> name, original |-> original, mode |-> mode,
         upload |-> upload, createOnly |-> createOnly, key |-> NoKey,
         stale |-> NoKey, content |-> {}] \in SaveCalls
    BY DEF SaveCalls
  <2>3. ThreadsOK' /\ LimitsOK'
    BY <1>0, <2>1, <2>2, BeginOK DEF Fits
  <2>. QED BY <1>0, <1>1, <2>3 DEF BeginSave, ProfileTypeOK, store
<1>2. CASE BeginDelete(t)
  <2>1. PICK name \in Names :
          Begin(t, "check", [kind |-> "delete", name |-> name, key |-> NoKey, stale |-> NoKey, content |-> {}])
    BY <1>2 DEF BeginDelete
  <2>2. [kind |-> "delete", name |-> name, key |-> NoKey, stale |-> NoKey, content |-> {}] \in DeleteCalls
    BY DEF DeleteCalls
  <2>3. ThreadsOK' /\ LimitsOK'
    BY <1>0, <2>1, <2>2, BeginOK DEF Fits
  <2>. QED BY <1>0, <1>2, <2>3 DEF BeginDelete, ProfileTypeOK, store
<1>. QED BY <1>1, <1>2

LEMMA SaveStepOK ==
  ASSUME TInv, NEW t \in Threads, Check(t) \/ StoreKey(t) \/ List(t)
  PROVE  ThreadsOK' /\ LimitsOK' /\ ProfileTypeOK'
<1>0. ThreadsOK /\ LimitsOK /\ ProfileTypeOK
  BY DEF TInv
<1>1. call[t] \in SaveCalls
  <2>1. \/ pc[t] = "check" /\ call[t].kind = "save"
        \/ pc[t] \in {"storeKey", "list"}
    BY DEF Check, StoreKey, List
  <2>. QED BY <1>0, <2>1, CallOf, KindOfCall
<1>2. PICK c \in SaveCalls : c = call[t]
  BY <1>1
<1>3. CASE Check(t)
  <2>1. PICK k, d :
          /\ k \in {profiles[c.original].key, NoKey} /\ d = profiles[c.original].key
          /\ Ends(t) \/ GoesWith(t, "storeKey", [c EXCEPT !.key = k, !.stale = d])
    BY <1>2, <1>3 DEF Check
  <2>2. k \in Keys \cup {NoKey} /\ d \in Keys \cup {NoKey}
    BY <1>0, <2>1, SaveFields, ProfileFields DEF ProfileTypeOK
  <2>3. Fits("storeKey", [c EXCEPT !.key = k, !.stale = d])
    BY <2>2, SaveFields DEF Fits
  <2>4. ThreadsOK'
    BY <1>0, <2>1, <2>3, EndsOK, GoesWithOK
  <2>. QED BY <1>0, <1>3, <2>4 DEF Check, profileStore, store, profileHistory, limits, LimitsOK, ProfileTypeOK
<1>4. CASE StoreKey(t)
  <2>1. PICK k : /\ k \in {KeyOf[c.name], c.key}
                 /\ Ends(t) \/ GoesWith(t, "list", [c EXCEPT !.key = k])
                 /\ keyFiles' = IF c.upload THEN keyFiles \cup {KeyOf[c.name]} ELSE keyFiles
                 /\ renamed' = (renamed \/ k \notin {KeyOf[c.name], NoKey})
    BY <1>2, <1>4 DEF StoreKey
  <2>2. KeyOf[c.name] \in Keys /\ k \in Keys \cup {NoKey}
    <3>1. c.name \in Names /\ c.key \in Keys \cup {NoKey}
      BY DEF SaveCalls
    <3>2. KeyOf[c.name] \in Keys
      BY <3>1, ProfileAssumption
    <3>. QED BY <2>1, <3>1, <3>2
  <2>3. Fits("list", [c EXCEPT !.key = k])
    BY <2>2, SaveFields DEF Fits
  <2>4. ThreadsOK'
    BY <1>0, <2>1, <2>3, EndsOK, GoesWithOK
  <2>5. keyFiles' \subseteq Keys /\ renamed' \in BOOLEAN
    BY <1>0, <2>1, <2>2 DEF ProfileTypeOK
  <2>. QED BY <1>0, <1>4, <2>4, <2>5 DEF StoreKey, limits, LimitsOK, ProfileTypeOK
<1>5. CASE List(t)
  <2>1. PICK n : /\ n = [[profiles EXCEPT ![c.original] = Absent] EXCEPT ![c.name] = Profile(c.mode, c.key)]
                 /\ GoesWith(t, "write", [c EXCEPT !.content = {n}])
    BY <1>2, <1>5 DEF List
  <2>2. Absent \in ProfileRow /\ Profile(c.mode, c.key) \in ProfileRow
    BY SaveFields, ProfileIsRow
  <2>3. [profiles EXCEPT ![c.original] = Absent] \in Profiles
    BY <1>0, <2>2, SaveFields, ProfileUpdate DEF ProfileTypeOK
  <2>4. n \in Profiles
    BY <2>1, <2>2, <2>3, SaveFields, ProfileUpdate
  <2>5. Fits("write", [c EXCEPT !.content = {n}])
    BY <2>4, SaveFields DEF Fits
  <2>6. ThreadsOK'
    BY <1>0, <2>1, <2>5, GoesWithOK
  <2>. QED BY <1>0, <1>5, <2>6 DEF List, profileStore, store, profileHistory, limits, LimitsOK, ProfileTypeOK
<1>. QED BY <1>3, <1>4, <1>5

LEMMA FindProfileOK ==
  ASSUME TInv, NEW t \in Threads, FindProfile(t)
  PROVE  ThreadsOK' /\ LimitsOK' /\ ProfileTypeOK'
<1>0. ThreadsOK /\ LimitsOK /\ ProfileTypeOK
  BY DEF TInv
<1>1. PICK c \in DeleteCalls : c = call[t]
  BY <1>0, CallOf, KindOfCall DEF FindProfile
<1>2. PICK d, n : /\ d = profiles[c.name].key /\ n = [profiles EXCEPT ![c.name] = Absent]
                  /\ Ends(t) \/ GoesWith(t, "write", [c EXCEPT !.stale = d, !.content = {n}])
  BY <1>1 DEF FindProfile
<1>3. c.name \in Names
  BY DEF DeleteCalls
<1>4. d \in Keys \cup {NoKey} /\ n \in Profiles
  <2>1. NoKey \in Keys \cup {NoKey} /\ "none" \in {"none", "direct", "ssh"}
    OBVIOUS
  <2>2. Absent \in ProfileRow
    BY <2>1, ProfileIsRow
  <2>. QED BY <1>0, <1>2, <1>3, <2>2, ProfileFields, ProfileUpdate DEF ProfileTypeOK
<1>5. Fits("write", [c EXCEPT !.stale = d, !.content = {n}])
  BY <1>4, DeleteFields DEF Fits
<1>6. ThreadsOK'
  BY <1>0, <1>2, <1>5, EndsOK, GoesWithOK
<1>. QED BY <1>0, <1>6 DEF FindProfile, profileStore, store, profileHistory, limits, LimitsOK, ProfileTypeOK

LEMMA ReplaceOK ==
  ASSUME TInv, NEW t \in Threads, WriteTemporary(t) \/ Replace(t) \/ Prune(t) \/ SaveFails(t)
  PROVE  ThreadsOK' /\ LimitsOK' /\ ProfileTypeOK'
<1>0. ThreadsOK /\ LimitsOK /\ ProfileTypeOK
  BY DEF TInv
<1>1. CASE WriteTemporary(t) \/ Replace(t)
  <2>1. /\ pc[t] \in {"write", "replace"} /\ LimitsOK'
        /\ Goes(t, "replace") \/ Goes(t, "prune") \/ Ends(t)
    BY <1>0, <1>1 DEF WriteTemporary, Replace, limits, LimitsOK
  <2>2. call[t] \in SaveCalls \cup DeleteCalls
    BY <1>0, <2>1, CallOf, KindOfCall
  <2>3. Fits("replace", call[t]) /\ Fits("prune", call[t])
    BY <2>2 DEF Fits
  <2>4. call[t].content \subseteq Profiles
    BY <2>2 DEF SaveCalls, DeleteCalls
  <2>5. ThreadsOK'
    BY <1>0, <2>1, <2>3, GoesOK, EndsOK
  <2>6. ProfileTypeOK'
    BY <1>0, <1>1, <2>4 DEF WriteTemporary, Replace, ProfileTypeOK, profileHistory
  <2>. QED BY <2>1, <2>5, <2>6
<1>2. CASE Prune(t) \/ SaveFails(t)
  <2>1. ThreadsOK'
    BY <1>0, <1>2, EndsOK DEF Prune, SaveFails
  <2>2. LimitsOK'
    BY <1>0, <1>2, FaultOK DEF Prune, SaveFails, limits, LimitsOK
  <2>3. ProfileTypeOK'
    BY <1>0, <1>2 DEF Prune, SaveFails, ProfileTypeOK, profileStore, store, profileHistory
  <2>. QED BY <2>1, <2>2, <2>3
<1>. QED BY <1>1, <1>2

-----------------------------------------------------------------------------
(* Types: imports.                                                         *)

JobRow == [state : JobStates, owner : Sessions, review : Review]

LEMMA JobUpdates ==
  ASSUME NEW r \in JobRow, NEW v \in Review, NEW s \in Sessions
  PROVE  /\ [r EXCEPT !.state = "reviewed", !.review = v] \in JobRow
         /\ [r EXCEPT !.state = "gone"] \in JobRow
         /\ Inspected(s) \in JobRow /\ NoJob \in JobRow
         /\ Inspected(s).state = "inspected" /\ NoJob.state = "none"
         /\ [r EXCEPT !.state = "reviewed", !.review = v].state = "reviewed"
         /\ [r EXCEPT !.state = "gone"].state = "gone"
<1>1. PICK o \in Sessions : o = CHOOSE x \in Sessions : TRUE
  BY ImportAssumption
<1>2. NotReviewed \in Review
  BY DEF NotReviewed, Review
<1>. QED BY <1>1, <1>2 DEF JobRow, JobStates, Inspected, NoJob

LEMMA ImportTypes ==
  ASSUME ImportTypeOK
  PROVE  /\ session \in [Sessions -> {"unused", "live", "cleared"}] /\ job \in [Jobs -> JobRow]
         /\ uploads \subseteq Jobs /\ exists \in BOOLEAN /\ keyed \in BOOLEAN
         /\ rows \in [Sources -> [RowKeys -> Nat]] /\ Jobs \subseteq Sources
         /\ exists \/ \A r \in Sources, k \in RowKeys : rows[r][k] = 0
         /\ imported \subseteq Jobs /\ overwritten \subseteq Jobs /\ unsure \subseteq Jobs
BY DEF ImportTypeOK, JobRow, Sources

LEMMA BeginImportOK ==
  ASSUME TInv, NEW t \in Threads, BeginImport(t)
  PROVE  ThreadsOK' /\ LimitsOK' /\ ImportTypeOK'
<1>0. ThreadsOK /\ LimitsOK /\ ImportTypeOK
  BY DEF TInv
<1>1. CASE BeginInspect(t) /\ UNCHANGED imports
  <2>1. PICK s \in Sessions, j \in Jobs : Begin(t, "upload", [kind |-> "inspect", session |-> s, job |-> j])
    BY <1>1 DEF BeginInspect
  <2>2. Fits("upload", [kind |-> "inspect", session |-> s, job |-> j])
    BY DEF Fits, InspectCalls
  <2>3. ThreadsOK' /\ LimitsOK'
    BY <1>0, <2>1, <2>2, BeginOK
  <2>. QED BY <1>0, <1>1, <2>3 DEF imports, sessions, importTable, importHistory, ImportTypeOK
<1>2. CASE BeginLoad(t)
  <2>1. PICK j \in Jobs :
          /\ unsure' = IF Loading(j) THEN unsure \cup {j} ELSE unsure
          /\ Begin(t, "validate", [kind |-> "load", job |-> j, review |-> job[j].review])
    BY <1>2 DEF BeginLoad, JobsOf
  <2>2. job[j].review \in Review
    BY <1>0 DEF ImportTypeOK
  <2>3. Fits("validate", [kind |-> "load", job |-> j, review |-> job[j].review])
    BY <2>2 DEF Fits, LoadCalls
  <2>4. ThreadsOK' /\ LimitsOK'
    BY <1>0, <2>1, <2>3, BeginOK
  <2>. QED BY <1>0, <1>2, <2>1, <2>4 DEF BeginLoad, sessions, importTable, ImportTypeOK
<1>3. CASE Prepare(t) \/ Clear(t)
  <2>1. ThreadsOK' /\ LimitsOK'
    BY <1>0, <1>3, BeginOK DEF Prepare, Clear, Fits
  <2>2. job' \in [Jobs -> JobRow] /\ session' \in [Sessions -> {"unused", "live", "cleared"}]
    <3>1. CASE Prepare(t)
      <4>1. PICK r \in Review, j \in Jobs : job' = [job EXCEPT ![j].state = "reviewed", ![j].review = r]
        BY <3>1 DEF Prepare, JobsOf
      <4>2. job[j] \in JobRow
        BY <1>0, ImportTypes
      <4>3. PICK s \in Sessions : TRUE
        BY ImportAssumption
      <4>4. [job[j] EXCEPT !.state = "reviewed", !.review = r] \in JobRow
        BY <4>2, <4>3, JobUpdates
      <4>5. job' = [job EXCEPT ![j] = [job[j] EXCEPT !.state = "reviewed", !.review = r]]
        BY <1>0, <4>1, <4>2, ImportTypes DEF JobRow
      <4>. QED BY <1>0, <3>1, <4>4, <4>5, ImportTypes DEF Prepare
    <3>2. CASE Clear(t)
      <4>1. PICK s \in Sessions : Cleared({s})
        BY <3>2 DEF Clear
      <4>2. \A j \in Jobs : job[j] \in JobRow /\ [job[j] EXCEPT !.state = "gone"] \in JobRow
        BY <1>0, ImportTypes DEF JobRow, JobStates
      <4>. QED BY <1>0, <4>1, <4>2, ImportTypes DEF Cleared
    <3>. QED BY <1>3, <3>1, <3>2
  <2>. QED BY <1>0, <1>3, <2>1, <2>2 DEF Prepare, Clear, importTable, importHistory, ImportTypeOK, JobRow
<1>. QED BY <1>1, <1>2, <1>3 DEF BeginImport

LEMMA InspectStepOK ==
  ASSUME TInv, NEW t \in Threads, Upload(t) \/ Inspect(t)
  PROVE  ThreadsOK' /\ LimitsOK' /\ ImportTypeOK'
<1>0. ThreadsOK /\ LimitsOK /\ ImportTypeOK
  BY DEF TInv
<1>1. PICK i \in InspectCalls : i = call[t]
  BY <1>0, CallOf, KindOfCall DEF Upload, Inspect
<1>2. Fits("inspect", call[t]) /\ i.job \in Jobs /\ i.session \in Sessions
  BY <1>1, InspectFields DEF Fits
<1>3. ThreadsOK' /\ LimitsOK'
  BY <1>0, <1>2, GoesOK, EndsOK DEF Upload, Inspect, limits, LimitsOK
<1>4. CASE Upload(t)
  BY <1>0, <1>1, <1>2, <1>3, <1>4 DEF Upload, ImportTypeOK, importTable, importHistory
<1>5. CASE Inspect(t)
  <2>1. job' = job \/ job' = [job EXCEPT ![i.job] = Inspected(i.session)]
    BY <1>1, <1>5 DEF Inspect
  <2>2. Inspected(i.session) \in JobRow
    <3>1. job[i.job] \in JobRow /\ NotReviewed \in Review
      BY <1>0, <1>2, ImportTypes DEF NotReviewed, Review
    <3>. QED BY <1>2, <3>1, JobUpdates
  <2>. QED BY <1>0, <1>2, <1>3, <1>5, <2>1, <2>2, ImportTypes DEF Inspect, ImportTypeOK, importTable,
         importHistory, JobRow
<1>. QED BY <1>4, <1>5

LEMMA LoadTableOK ==
  ASSUME TInv, NEW t \in Threads,
         Validate(t) \/ DropExisting(t) \/ CreateReviewed(t) \/ LoadData(t) \/ LoadUnanswered(t)
  PROVE  ThreadsOK' /\ LimitsOK' /\ ImportTypeOK'
<1>0. ThreadsOK /\ LimitsOK /\ ImportTypeOK
  BY DEF TInv
<1>1. PICK c \in LoadCalls : c = call[t]
  BY <1>0, CallOf, KindOfCall DEF Validate, DropExisting, CreateReviewed, LoadData, LoadUnanswered
<1>2. /\ c.job \in Jobs /\ c.review.keyed \in BOOLEAN
      /\ \A s \in {"dropTable", "createTable", "loadData", "unlink"} : Fits(s, call[t])
  BY <1>1, LoadFields DEF Fits
<1>3. ThreadsOK' /\ LimitsOK'
  <2>1. \/ Ends(t)
        \/ \E s \in {"dropTable", "createTable", "loadData", "unlink"} : Goes(t, s)
    BY DEF Validate, DropExisting, CreateReviewed, LoadData, LoadUnanswered
  <2>. QED BY <1>0, <1>2, <2>1, GoesOK, EndsOK, FaultOK DEF Validate, DropExisting, CreateReviewed,
         LoadData, LoadUnanswered, limits, LimitsOK
<1>4. CASE Validate(t)
  BY <1>0, <1>3, <1>4 DEF Validate, ImportTypeOK, imports, sessions, importTable, importHistory
<1>5. CASE DropExisting(t)
  BY <1>0, <1>3, <1>5 DEF DropExisting, ImportTypeOK, sessions
<1>6. CASE CreateReviewed(t)
  BY <1>0, <1>1, <1>2, <1>3, <1>6 DEF CreateReviewed, ImportTypeOK, sessions, importHistory
<1>7. CASE LoadData(t) \/ LoadUnanswered(t)
  <2>1. rows' = rows \/ (exists /\ Load(c.job))
    BY <1>1, <1>7 DEF LoadData, LoadUnanswered, Loads
  <2>2. rows' \in [Sources -> [RowKeys -> Nat]]
        /\ (exists \/ \A r \in Sources, k \in RowKeys : rows'[r][k] = 0)
    BY <1>0, <1>2, <2>1, ImportTypes DEF Load
  <2>3. exists' = exists /\ unsure' \subseteq Jobs
    BY <1>0, <1>1, <1>2, <1>7 DEF LoadData, LoadUnanswered, importHistory, ImportTypeOK
  <2>. QED BY <1>0, <1>3, <1>7, <2>2, <2>3 DEF LoadData, LoadUnanswered, ImportTypeOK, sessions, importHistory
<1>. QED BY <1>4, <1>5, <1>6, <1>7

LEMMA LoadEndOK ==
  ASSUME TInv, NEW t \in Threads, Unlink(t) \/ Pop(t) \/ ImportFails(t)
  PROVE  ThreadsOK' /\ LimitsOK' /\ ImportTypeOK'
<1>0. ThreadsOK /\ LimitsOK /\ ImportTypeOK
  BY DEF TInv
<1>1. pc[t] \in {"unlink", "pop"} =>
        call[t] \in LoadCalls /\ call[t].job \in Jobs /\ Fits("pop", call[t])
  <2>1. pc[t] \in {"unlink", "pop"} => call[t] \in LoadCalls
    BY <1>0, CallOf, KindOfCall
  <2>. QED BY <2>1, LoadFields DEF Fits
<1>2. ThreadsOK' /\ LimitsOK'
  BY <1>0, <1>1, GoesOK, EndsOK, FaultOK DEF Unlink, Pop, ImportFails, limits, LimitsOK
<1>3. CASE Unlink(t)
  BY <1>0, <1>2, <1>3 DEF Unlink, ImportTypeOK, importTable, importHistory
<1>4. CASE Pop(t)
  <2>1. PICK j \in Jobs : j = call[t].job
    BY <1>1, <1>4 DEF Pop
  <2>2. job' = [job EXCEPT ![j] = [job[j] EXCEPT !.state = "gone"]]
    BY <1>0, <1>4, <2>1, ImportTypes DEF Pop, JobRow
  <2>3. [job[j] EXCEPT !.state = "gone"] \in JobRow
    BY <1>0, ImportTypes DEF JobRow, JobStates
  <2>4. job' \in [Jobs -> JobRow] /\ imported' \subseteq Jobs
    BY <1>0, <1>4, <2>1, <2>2, <2>3, ImportTypes DEF Pop
  <2>. QED BY <1>0, <1>2, <1>4, <2>4 DEF Pop, ImportTypeOK, importTable, JobRow
<1>5. CASE ImportFails(t)
  <2>1. unsure' \subseteq Jobs
    BY <1>0, <1>1, <1>5 DEF ImportFails, ImportTypeOK
  <2>. QED BY <1>0, <1>2, <1>5, <2>1 DEF ImportFails, ImportTypeOK, sessions, importTable
<1>. QED BY <1>3, <1>4, <1>5

LEMMA SessionStepOK ==
  ASSUME ImportTypeOK, (\E s \in Sessions : Create(s)) \/ SessionsEnd
  PROVE  ImportTypeOK'
<1>1. CASE \E s \in Sessions : Create(s)
  BY <1>1 DEF Create, ImportTypeOK, importTable, importHistory
<1>2. CASE SessionsEnd
  <2>1. \A j \in Jobs : job[j] \in JobRow /\ [job[j] EXCEPT !.state = "gone"] \in JobRow
    BY ImportTypes DEF JobRow, JobStates
  <2>2. job' \in [Jobs -> JobRow] /\ session' \in [Sessions -> {"unused", "live", "cleared"}]
    BY <1>2, <2>1, ImportTypes DEF SessionsEnd, Cleared
  <2>. QED BY <1>2, <2>2 DEF SessionsEnd, ImportTypeOK, importTable, JobRow
<1>. QED BY <1>1, <1>2

-----------------------------------------------------------------------------
(* Types: archive partitions.                                              *)

LEMMA BeginArchiveRequestOK ==
  ASSUME TInv, NEW t \in Threads, BeginArchiveRequest(t)
  PROVE  ThreadsOK' /\ LimitsOK'
<1>0. ThreadsOK /\ LimitsOK /\ ArchiveTypeOK
  BY DEF TInv
<1>1. CASE BeginRetry(t)
  <2>1. PICK ms \in SUBSET Messages : Begin(t, "retry", [kind |-> "retry", left |-> ms])
    BY <1>1 DEF BeginRetry, NonEmpty
  <2>2. Fits("retry", [kind |-> "retry", left |-> ms])
    BY DEF Fits, RetryCalls
  <2>. QED BY <1>0, <2>1, <2>2, BeginOK
<1>2. CASE BeginArchive(t)
  <2>1. PICK ms \in SUBSET Messages, p \in Periods :
          Begin(t, "lookUp", [kind |-> "archive", left |-> ms, period |-> p, new |-> FALSE])
    BY <1>2 DEF BeginArchive, NonEmpty
  <2>2. Fits("lookUp", [kind |-> "archive", left |-> ms, period |-> p, new |-> FALSE])
    BY DEF Fits, ArchiveCalls
  <2>. QED BY <1>0, <2>1, <2>2, BeginOK
<1>3. CASE BeginDeleteArchived(t)
  <2>1. PICK p \in registry : \E ms \in SUBSET archived[p] : \E m \in ms :
          Begin(t, "find", [kind |-> "deleteArchived", left |-> ms \ {m}, message |-> m, period |-> p])
    BY <1>3 DEF BeginDeleteArchived, NonEmpty
  <2>0. PICK ms \in SUBSET archived[p] : \E m \in ms :
          Begin(t, "find", [kind |-> "deleteArchived", left |-> ms \ {m}, message |-> m, period |-> p])
    BY <2>1
  <2>5. PICK m \in ms :
          Begin(t, "find", [kind |-> "deleteArchived", left |-> ms \ {m}, message |-> m, period |-> p])
    BY <2>0
  <2>2. p \in Periods /\ m \in Messages /\ ms \subseteq Messages
    BY <1>0 DEF ArchiveTypeOK
  <2>3. [kind |-> "deleteArchived", left |-> ms \ {m}, message |-> m, period |-> p] \in DeleteArchivedCalls
    BY <2>2 DEF DeleteArchivedCalls
  <2>4. Fits("find", [kind |-> "deleteArchived", left |-> ms \ {m}, message |-> m, period |-> p])
    BY <2>3 DEF Fits
  <2>. QED BY <1>0, <2>4, <2>5, BeginOK
<1>4. CASE BeginDropPartitions(t)
  <2>1. PICK ps \in SUBSET registry : \E p \in ps :
          Begin(t, "find", [kind |-> "dropPartitions", left |-> ps \ {p}, period |-> p])
    BY <1>4 DEF BeginDropPartitions, NonEmpty
  <2>5. PICK p \in ps :
          Begin(t, "find", [kind |-> "dropPartitions", left |-> ps \ {p}, period |-> p])
    BY <2>1
  <2>2. p \in Periods /\ ps \subseteq Periods
    BY <1>0 DEF ArchiveTypeOK
  <2>3. [kind |-> "dropPartitions", left |-> ps \ {p}, period |-> p] \in DropCalls
    BY <2>2 DEF DropCalls
  <2>4. Fits("find", [kind |-> "dropPartitions", left |-> ps \ {p}, period |-> p])
    BY <2>3 DEF Fits
  <2>. QED BY <1>0, <2>4, <2>5, BeginOK
<1>5. CASE BeginReinitialize(t)
  <2>1. [kind |-> "reinitialize", left |-> registry] \in ReinitializeCalls
    BY <1>0 DEF ReinitializeCalls, ArchiveTypeOK
  <2>2. Fits("dropTables", [kind |-> "reinitialize", left |-> registry])
    BY <2>1 DEF Fits
  <2>. QED BY <1>0, <1>5, <2>2, BeginOK DEF BeginReinitialize
<1>. QED BY <1>1, <1>2, <1>3, <1>4, <1>5 DEF BeginArchiveRequest

LEMMA RetryOK ==
  ASSUME TInv, NEW t \in Threads, Retry(t)
  PROVE  ThreadsOK' /\ LimitsOK' /\ ArchiveTypeOK'
<1>0. ThreadsOK /\ LimitsOK /\ ArchiveTypeOK
  BY DEF TInv
<1>1. PICK c \in RetryCalls : c = call[t]
  BY <1>0, CallOf, KindOfCall DEF Retry
<1>2. PICK m \in c.left :
        /\ status' = [status EXCEPT ![m] = IF @ = "FAILED" THEN "CAPTURED" ELSE @]
        /\ Ends(t) \/ GoesWith(t, "retry", [c EXCEPT !.left = @ \ {m}])
  BY <1>1 DEF Retry
<1>3. Fits("retry", [c EXCEPT !.left = @ \ {m}])
  BY RetryFields DEF Fits
<1>4. ThreadsOK'
  BY <1>0, <1>2, <1>3, EndsOK, GoesWithOK
<1>5. status' \in [Messages -> Statuses]
  BY <1>0, <1>2 DEF ArchiveTypeOK, Statuses
<1>. QED BY <1>0, <1>4, <1>5 DEF Retry, limits, LimitsOK, ArchiveTypeOK

LEMMA EnsurePartitionOK ==
  ASSUME TInv, NEW t \in Threads, LookUp(t) \/ Upgrade(t) \/ CreateTable(t)
  PROVE  ThreadsOK' /\ LimitsOK' /\ ArchiveTypeOK'
<1>0. ThreadsOK /\ LimitsOK /\ ArchiveTypeOK
  BY DEF TInv
<1>1. PICK c \in ArchiveCalls : c = call[t]
  BY <1>0, CallOf, KindOfCall DEF LookUp, Upgrade, CreateTable
<1>2. c.period \in Periods /\ Fits("move", call[t])
  BY <1>1, ArchiveFields DEF Fits
<1>3. CASE LookUp(t)
  <2>1. PICK b \in BOOLEAN, s \in {"upgrade", "create"} : GoesWith(t, s, [c EXCEPT !.new = b])
    BY <1>1, <1>3 DEF LookUp
  <2>2. Fits(s, [c EXCEPT !.new = b])
    BY ArchiveFields DEF Fits
  <2>3. ThreadsOK'
    BY <1>0, <2>1, <2>2, GoesWithOK
  <2>. QED BY <1>0, <1>3, <2>3 DEF LookUp, archive, limits, LimitsOK, ArchiveTypeOK
<1>4. CASE Upgrade(t)
  BY <1>0, <1>2, <1>4, GoesOK, EndsOK DEF Upgrade, archive, limits, LimitsOK, ArchiveTypeOK
<1>5. CASE CreateTable(t)
  BY <1>0, <1>1, <1>2, <1>5, GoesOK DEF CreateTable, limits, LimitsOK, ArchiveTypeOK
<1>. QED BY <1>3, <1>4, <1>5

LEMMA MoveOK ==
  ASSUME TInv, NEW t \in Threads, Move(t) \/ MoveUnanswered(t)
  PROVE  ThreadsOK' /\ LimitsOK' /\ ArchiveTypeOK'
<1>0. ThreadsOK /\ LimitsOK /\ ArchiveTypeOK
  BY DEF TInv
<1>1. PICK c \in ArchiveCalls : c = call[t]
  BY <1>0, CallOf, KindOfCall DEF Move, MoveUnanswered
<1>2. PICK m \in c.left :
        /\ MoveRows(t, m)
        /\ Ends(t) \/ GoesWith(t, "lookUp", [c EXCEPT !.left = @ \ {m}])
  BY <1>1 DEF Move, MoveUnanswered
<1>3. c.period \in Periods /\ m \in Messages /\ Fits("lookUp", [c EXCEPT !.left = @ \ {m}])
  BY <1>2, ArchiveFields DEF Fits
<1>4. ThreadsOK'
  BY <1>0, <1>2, <1>3, EndsOK, GoesWithOK
<1>5. LimitsOK'
  BY <1>0, FaultOK DEF Move, MoveUnanswered, limits, LimitsOK
<1>6. created' = created
  BY DEF Move, MoveUnanswered
<1>7. CASE UNCHANGED <<status, archived, registry>>
  BY <1>0, <1>4, <1>5, <1>6, <1>7 DEF ArchiveTypeOK
<1>8. CASE ~UNCHANGED <<status, archived, registry>>
  <2>1. /\ c.period \in created
        /\ status' = [status EXCEPT ![m] = "none"]
        /\ archived' = [archived EXCEPT ![c.period] = @ \cup {m}]
        /\ registry' = registry \cup {c.period}
    BY <1>1, <1>2, <1>8 DEF MoveRows, Inserts
  <2>2. status' \in [Messages -> Statuses] /\ registry' \subseteq Periods
    BY <1>0, <1>3, <2>1 DEF ArchiveTypeOK, Statuses
  <2>3. archived' \in [Periods -> SUBSET Messages] /\ \A p \in Periods : archived'[p] # {} => p \in created
    BY <1>0, <1>3, <2>1 DEF ArchiveTypeOK
  <2>. QED BY <1>0, <1>4, <1>5, <1>6, <2>2, <2>3 DEF ArchiveTypeOK
<1>. QED BY <1>7, <1>8

\* The next message or partition of a batch.
LEMMA ContinueOK ==
  ASSUME ThreadsOK, NEW t \in Threads, call[t] \in DeleteArchivedCalls \cup DropCalls, Continue(t)
  PROVE  ThreadsOK'
<1>1. CASE Ends(t)
  BY <1>1, EndsOK
<1>2. CASE ~Ends(t)
  <2>1. PICK next \in call[t].left :
          GoesWith(t, "find",
            IF call[t].kind = "dropPartitions"
            THEN [call[t] EXCEPT !.period = next, !.left = @ \ {next}]
            ELSE [call[t] EXCEPT !.message = next, !.left = @ \ {next}])
    BY <1>2 DEF Continue
  <2>2. CASE call[t] \in DropCalls
    <3>1. PICK x \in DropCalls : x = call[t]
      BY <2>2
    <3>2. GoesWith(t, "find", [x EXCEPT !.period = next, !.left = @ \ {next}])
      BY <2>1, <3>1, DropFields
    <3>3. Fits("find", [x EXCEPT !.period = next, !.left = @ \ {next}])
      BY <2>1, <3>1, DropFields DEF Fits
    <3>. QED BY <3>2, <3>3, GoesWithOK
  <2>3. CASE call[t] \in DeleteArchivedCalls
    <3>1. PICK x \in DeleteArchivedCalls : x = call[t]
      BY <2>3
    <3>2. GoesWith(t, "find", [x EXCEPT !.message = next, !.left = @ \ {next}])
      <4>1. x.kind # "dropPartitions"
        BY DeleteArchivedFields
      <4>. QED BY <2>1, <3>1, <4>1
    <3>3. Fits("find", [x EXCEPT !.message = next, !.left = @ \ {next}])
      BY <2>1, <3>1, DeleteArchivedFields DEF Fits
    <3>. QED BY <3>2, <3>3, GoesWithOK
  <2>. QED BY <2>2, <2>3
<1>. QED BY <1>1, <1>2

LEMMA FindOK ==
  ASSUME TInv, NEW t \in Threads, Find(t) \/ Delete(t)
  PROVE  ThreadsOK' /\ LimitsOK' /\ ArchiveTypeOK'
<1>0. ThreadsOK /\ LimitsOK /\ ArchiveTypeOK
  BY DEF TInv
<1>1. call[t] \in DeleteArchivedCalls \cup DropCalls
  BY <1>0, CallOf, KindOfCall DEF Find, Delete
<1>2. CASE Find(t)
  <2>1. call[t].kind = "dropPartitions" <=> call[t] \in DropCalls
    BY <1>1, DropFields, DeleteArchivedFields
  <2>2. call[t].kind = "dropPartitions" => Fits("drop", call[t])
    BY <2>1 DEF Fits
  <2>3. call[t].kind # "dropPartitions" => Fits("delete", call[t])
    BY <1>1, <2>1 DEF Fits
  <2>4. ThreadsOK'
    BY <1>0, <1>1, <1>2, <2>2, <2>3, GoesOK, ContinueOK DEF Find
  <2>. QED BY <1>0, <1>2, <2>4 DEF Find, archive, limits, LimitsOK, ArchiveTypeOK
<1>3. CASE Delete(t)
  <2>1. call[t] \in DeleteArchivedCalls
    BY <1>0, <1>3, CallOf, KindOfCall DEF Delete
  <2>2. ThreadsOK'
    BY <1>0, <1>1, <1>3, EndsOK, ContinueOK DEF Delete
  <2>3. call[t].period \in Periods
    BY <2>1, DeleteArchivedFields
  <2>4. /\ archived' \in [Periods -> SUBSET Messages]
        /\ \A p \in Periods : archived'[p] # {} => p \in created
    BY <1>0, <1>3, <2>3 DEF Delete, ArchiveTypeOK
  <2>. QED BY <1>0, <1>3, <2>2, <2>4 DEF Delete, limits, LimitsOK, ArchiveTypeOK
<1>. QED BY <1>2, <1>3

LEMMA DropOK ==
  ASSUME TInv, NEW t \in Threads,
         Drop(t) \/ Unregister(t) \/ DropTable(t) \/ DropRegistry(t) \/ ArchiveFails(t)
  PROVE  ThreadsOK' /\ LimitsOK' /\ ArchiveTypeOK'
<1>0. ThreadsOK /\ LimitsOK /\ ArchiveTypeOK
  BY DEF TInv
<1>1. CASE Drop(t) \/ Unregister(t)
  <2>1. call[t] \in DropCalls
    BY <1>0, <1>1, CallOf, KindOfCall DEF Drop, Unregister
  <2>2. Fits("unregister", call[t]) /\ call[t] \in DeleteArchivedCalls \cup DropCalls
    BY <2>1 DEF Fits
  <2>3. ThreadsOK'
    BY <1>0, <1>1, <2>2, GoesOK, EndsOK, ContinueOK DEF Drop, Unregister
  <2>4. LimitsOK'
    BY <1>0, <1>1 DEF Drop, Unregister, limits, LimitsOK
  <2>5. ArchiveTypeOK'
    BY <1>0, <1>1 DEF Drop, Unregister, Without, ArchiveTypeOK
  <2>. QED BY <2>3, <2>4, <2>5
<1>2. CASE DropTable(t)
  <2>1. PICK c \in ReinitializeCalls : c = call[t]
    BY <1>0, <1>2, CallOf, KindOfCall DEF DropTable
  <2>2. PICK p : /\ created' = created \ {p} /\ archived' = Without({p})
                 /\ GoesWith(t, "dropTables", [c EXCEPT !.left = @ \ {p}])
    BY <1>2, <2>1 DEF DropTable
  <2>3. Fits("dropTables", [c EXCEPT !.left = @ \ {p}])
    BY ReinitializeFields DEF Fits
  <2>4. ThreadsOK'
    BY <1>0, <2>2, <2>3, GoesWithOK
  <2>. QED BY <1>0, <1>2, <2>2, <2>4 DEF DropTable, Without, limits, LimitsOK, ArchiveTypeOK
<1>3. CASE DropRegistry(t)
  BY <1>0, <1>3, EndsOK DEF DropRegistry, limits, LimitsOK, ArchiveTypeOK, Statuses
<1>4. CASE ArchiveFails(t)
  BY <1>0, <1>4, EndsOK, FaultOK DEF ArchiveFails, archive, ArchiveTypeOK
<1>. QED BY <1>1, <1>2, <1>3, <1>4

LEMMA ExecuteOK ==
  ASSUME TInv, NEW m \in Messages, Execute(m)
  PROVE  ThreadsOK' /\ LimitsOK' /\ ArchiveTypeOK'
<1>0. ThreadsOK /\ LimitsOK /\ ArchiveTypeOK
  BY DEF TInv
<1>1. status' \in [Messages -> Statuses]
  BY <1>0 DEF Execute, ArchiveTypeOK, Statuses
<1>. QED BY <1>0, <1>1 DEF Execute, threads, limits, ThreadsOK, LimitsOK, ArchiveTypeOK

-----------------------------------------------------------------------------
(* Types: the console.                                                     *)

LEMMA LoginOK ==
  ASSUME TInv, NEW t \in Threads, BeginLogin(t)
  PROVE  ThreadsOK' /\ LimitsOK'
<1>0. ThreadsOK /\ LimitsOK /\ profiles \in Profiles
  BY DEF TInv, ProfileTypeOK
<1>1. PICK n \in Names : Begin(t, "connect", [kind |-> "login", profile |-> profiles[n]])
  BY DEF BeginLogin
<1>2. profiles[n] \in ProfileRow
  BY <1>0, ProfileFields, ProfileAssumption
<1>3. Fits("connect", [kind |-> "login", profile |-> profiles[n]])
  BY <1>2 DEF Fits, LoginCalls
<1>. QED BY <1>0, <1>1, <1>3, BeginOK

LEMMA ProcessEndsOK ==
  ASSUME TInv, ProcessEnds
  PROVE  ThreadsOK' /\ LimitsOK' /\ faults' < MaxFaults
<1>1. \A t \in Threads : pc'[t] = "idle" /\ call'[t] = NoCall
  BY DEF ProcessEnds
<1>2. "idle" \in Steps /\ NoCall \in Calls
  BY DEF Steps, Calls
<1>3. \A t \in Threads : Fits(pc'[t], call'[t])
  BY <1>1 DEF Fits
<1>4. ThreadsOK'
  BY <1>2, <1>3 DEF ThreadsOK, ProcessEnds
<1>. QED BY <1>4, FaultOK DEF ProcessEnds, TInv

LEMMA InitTInv ==
  ASSUME ConsoleInit
  PROVE  TInv
<1>1. ThreadsOK /\ LimitsOK
  BY RequestsAssumption DEF ConsoleInit, InitThreads, ThreadsOK, LimitsOK, Steps, Calls, Fits
<1>2. ProfileTypeOK
  <2>1. \A n \in Names : InitialProfiles[n].key \in Keys \cup {NoKey}
    BY ProfileAssumption DEF Profiles
  <2>. QED BY <2>1, ProfileAssumption DEF ConsoleInit, InitProfiles, ProfileTypeOK
<1>3. ImportTypeOK
  <2>1. /\ NoJob \in JobRow
        /\ \A s \in Sessions : Inspected(s) \in JobRow /\ \A v \in Review : Reviewed(s, v) \in JobRow
    <3>1. NotReviewed \in Review
      BY DEF NotReviewed, Review
    <3>2. PICK o \in Sessions : o = CHOOSE x \in Sessions : TRUE
      BY ImportAssumption
    <3>3. NoJob \in JobRow /\ \A s \in Sessions : Inspected(s) \in JobRow
      BY <3>1, <3>2 DEF JobRow, JobStates, Inspected, NoJob
    <3>. QED BY <3>3 DEF JobRow, JobStates, Reviewed
  <2>2. \A j \in DOMAIN OwnerOf : /\ j \in Jobs /\ OwnerOf[j] \in Sessions
                                  /\ j \in DOMAIN ReviewOf => ReviewOf[j] \in Review
    BY ImportAssumption DEF Review
  <2>3. job \in [Jobs -> JobRow]
    <3>1. job = [j \in Jobs |-> CASE j \in DOMAIN ReviewOf -> Reviewed(OwnerOf[j], ReviewOf[j])
                                 [] j \in DOMAIN OwnerOf \ DOMAIN ReviewOf -> Inspected(OwnerOf[j])
                                 [] OTHER -> NoJob]
      BY DEF ConsoleInit, InitImport
    <3>2. DOMAIN ReviewOf \subseteq DOMAIN OwnerOf
      BY ImportAssumption
    <3>3. ASSUME NEW j \in Jobs PROVE job[j] \in JobRow
      <4>1. CASE j \in DOMAIN ReviewOf
        <5>1. job[j] = Reviewed(OwnerOf[j], ReviewOf[j])
          BY <3>1, <3>2, <4>1
        <5>. QED BY <2>1, <2>2, <3>2, <4>1, <5>1
      <4>2. CASE j \in DOMAIN OwnerOf \ DOMAIN ReviewOf
        <5>1. job[j] = Inspected(OwnerOf[j])
          BY <3>1, <4>2
        <5>. QED BY <2>1, <2>2, <4>2, <5>1
      <4>3. CASE j \notin DOMAIN OwnerOf
        <5>1. job[j] = NoJob
          BY <3>1, <3>2, <4>3
        <5>. QED BY <2>1, <5>1
      <4>. QED BY <4>1, <4>2, <4>3
    <3>. QED BY <3>1, <3>3
  <2>4. session \in [Sessions -> {"unused", "live", "cleared"}]
    BY DEF ConsoleInit, InitImport
  <2>5. uploads \subseteq Jobs /\ exists \in BOOLEAN /\ keyed \in BOOLEAN
    BY <2>2, ImportAssumption DEF ConsoleInit, InitImport
  <2>6. /\ rows \in [Sources -> [RowKeys -> Nat]]
        /\ exists \/ \A r \in Sources, k \in RowKeys : rows[r][k] = 0
        /\ imported \subseteq Jobs /\ overwritten \subseteq Jobs /\ unsure \subseteq Jobs
    BY DEF ConsoleInit, InitImport
  <2>. QED BY <2>3, <2>4, <2>5, <2>6 DEF ImportTypeOK, JobRow
<1>4. ArchiveTypeOK
  BY ArchiveAssumption DEF ConsoleInit, InitArchive, ArchiveTypeOK
<1>. QED BY <1>1, <1>2, <1>3, <1>4 DEF TInv

\* What the pages do not touch of each other.
LEMMA OthersStay ==
  ASSUME TInv
  PROVE  /\ UNCHANGED OtherThanProfiles => ImportTypeOK' /\ ArchiveTypeOK'
         /\ UNCHANGED OtherThanImports => ProfileTypeOK' /\ ArchiveTypeOK'
         /\ UNCHANGED OtherThanArchive => ProfileTypeOK' /\ ImportTypeOK'
         /\ UNCHANGED archive => ArchiveTypeOK'
<1>1. UNCHANGED profileStore => ProfileTypeOK'
  BY DEF TInv, ProfileTypeOK, profileStore, store, profileHistory
<1>2. UNCHANGED imports => ImportTypeOK'
  BY DEF TInv, ImportTypeOK, imports, sessions, importTable, importHistory
<1>3. UNCHANGED archive => ArchiveTypeOK'
  BY DEF TInv, ArchiveTypeOK, archive
<1>. QED BY <1>1, <1>2, <1>3 DEF OtherThanProfiles, OtherThanImports, OtherThanArchive

LEMMA ArrivesTInv ==
  ASSUME TInv, NEW t \in Threads, Arrives(t)
  PROVE  TInv'
<1>1. CASE (BeginSave(t) \/ BeginDelete(t)) /\ UNCHANGED OtherThanProfiles
  BY <1>1, BeginProfileOK, OthersStay DEF TInv
<1>2. CASE BeginImport(t) /\ UNCHANGED OtherThanImports
  BY <1>2, BeginImportOK, OthersStay DEF TInv
<1>3. CASE BeginArchiveRequest(t) /\ UNCHANGED <<archive, OtherThanArchive>>
  BY <1>3, BeginArchiveRequestOK, OthersStay DEF TInv
<1>4. CASE BeginLogin(t) /\ UNCHANGED <<archive, OtherThanArchive>>
  BY <1>4, LoginOK, OthersStay DEF TInv
<1>. QED BY <1>1, <1>2, <1>3, <1>4 DEF Arrives

LEMMA ServesTInv ==
  ASSUME TInv, NEW t \in Threads, Serves(t)
  PROVE  TInv'
<1>1. CASE ProfileStep(t) /\ UNCHANGED OtherThanProfiles
  BY <1>1, SaveStepOK, FindProfileOK, ReplaceOK, OthersStay DEF TInv, ProfileStep
<1>2. CASE ImportStep(t) /\ UNCHANGED OtherThanImports
  BY <1>2, InspectStepOK, LoadTableOK, LoadEndOK, OthersStay DEF TInv, ImportStep
<1>3. CASE ArchiveStep(t) /\ UNCHANGED OtherThanArchive
  BY <1>3, RetryOK, EnsurePartitionOK, MoveOK, FindOK, DropOK, OthersStay DEF TInv, ArchiveStep
<1>4. CASE Connect(t)
  <2>1. ThreadsOK' /\ LimitsOK'
    BY <1>4, EndsOK DEF Connect, TInv, limits, LimitsOK
  <2>2. ImportTypeOK'
    BY <1>4, SessionStepOK DEF Connect, TInv, imports, sessions, importTable, importHistory, ImportTypeOK
  <2>3. ProfileTypeOK' /\ ArchiveTypeOK'
    BY <1>4 DEF Connect, TInv, profileStore, store, profileHistory, archive, ProfileTypeOK, ArchiveTypeOK
  <2>. QED BY <2>1, <2>2, <2>3 DEF TInv
<1>. QED BY <1>1, <1>2, <1>3, <1>4 DEF Serves

LEMMA NextTInv ==
  ASSUME TInv, [ConsoleNext]_consoleVars
  PROVE  TInv'
<1>1. ASSUME NEW t \in Threads, Arrives(t) \/ Serves(t) PROVE TInv'
  BY <1>1, ArrivesTInv, ServesTInv
<1>2. ASSUME NEW m \in Messages, Execute(m), UNCHANGED OtherThanArchive PROVE TInv'
  BY <1>2, ExecuteOK, OthersStay DEF TInv
<1>3. CASE Crash
  BY <1>3, ProcessEndsOK, SessionStepOK, OthersStay DEF Crash, TInv
<1>4. CASE UNCHANGED consoleVars
  BY <1>4, OthersStay DEF TInv, consoleVars, threads, limits, ThreadsOK, LimitsOK,
     OtherThanProfiles, OtherThanImports
<1>. QED BY <1>1, <1>2, <1>3, <1>4 DEF ConsoleNext

LEMMA SpecTInv == ConsoleSpec => []TInv
<1>1. ConsoleInit => TInv
  BY InitTInv
<1>2. TInv /\ [ConsoleNext]_consoleVars => TInv'
  BY NextTInv
<1>. QED BY <1>1, <1>2, PTL DEF ConsoleSpec

LEMMA TInvImpliesConsoleTypeOK ==
  ASSUME TInv
  PROVE  ConsoleTypeOK
<1>1. \A t \in Threads : pc[t] = "idle" <=> call[t] = NoCall
  BY CallOf, KindOfCall DEF TInv
<1>. QED BY <1>1 DEF TInv, ThreadsOK, LimitsOK, ConsoleTypeOK

(* Every variable of the web process keeps its type, an idle thread knows    *)
(* nothing, and no table has rows that does not exist; the strengthening     *)
(* says what the request of each step knows (Fits).                          *)
THEOREM SpecConsoleTypeOK == ConsoleSpec => []ConsoleTypeOK
BY SpecTInv, TInvImpliesConsoleTypeOK, PTL

-----------------------------------------------------------------------------
(* A step is of one thread, and of one page.                               *)

ProfileSteps == {"check", "storeKey", "list", "write", "replace", "prune"}

\* The kind of a request tells the page it is for.
LEMMA KindOfStep ==
  ASSUME NEW s, NEW c, Fits(s, c)
  PROVE  /\ s \in ProfileSteps <=> c.kind \in {"save", "delete"}
         /\ s \in ImportSteps <=> c.kind \in {"inspect", "load"}
         /\ s \in {"upload", "inspect"} <=> c.kind = "inspect"
<1>1. /\ NoCall.kind = "none"
      /\ \A x \in SaveCalls : x.kind = "save"
      /\ \A x \in DeleteCalls : x.kind = "delete"
      /\ \A x \in LoginCalls : x.kind = "login"
      /\ \A x \in InspectCalls : x.kind = "inspect"
      /\ \A x \in LoadCalls : x.kind = "load"
      /\ \A x \in RetryCalls : x.kind = "retry"
      /\ \A x \in ArchiveCalls : x.kind = "archive"
      /\ \A x \in DeleteArchivedCalls : x.kind = "deleteArchived"
      /\ \A x \in DropCalls : x.kind = "dropPartitions"
      /\ \A x \in ReinitializeCalls : x.kind = "reinitialize"
  BY DEF NoCall, SaveCalls, DeleteCalls, LoginCalls, InspectCalls, LoadCalls, RetryCalls,
     ArchiveCalls, DeleteArchivedCalls, DropCalls, ReinitializeCalls
<1>. QED BY <1>1 DEF Fits, ProfileSteps, ImportSteps

LEMMA ProfileStepMoves ==
  ASSUME ThreadsOK, LimitsOK, NEW t \in Threads, ProfileStep(t)
  PROVE  /\ \E s \in ProfileSteps \cup {"idle"} : \E c : GoesWith(t, s, c)
         /\ pc[t] \in ProfileSteps
         /\ faults' <= faults
<1>1. \A s : Goes(t, s) => GoesWith(t, s, call[t])
  BY DEF Goes, GoesWith, ThreadsOK
<1>2. \E s \in ProfileSteps \cup {"idle"} : \E c : GoesWith(t, s, c)
  BY <1>1 DEF ProfileStep, Check, StoreKey, List, FindProfile, WriteTemporary, Replace, Prune,
     SaveFails, Ends, ProfileSteps
<1>. QED BY <1>2 DEF ProfileStep, Check, StoreKey, List, FindProfile, WriteTemporary, Replace, Prune,
       SaveFails, ProfileSteps, Fault, limits, LimitsOK

LEMMA ImportStepMoves ==
  ASSUME ThreadsOK, LimitsOK, NEW t \in Threads, ImportStep(t)
  PROVE  /\ \E s \in ImportSteps \cup {"idle"} : \E c : GoesWith(t, s, c)
         /\ pc[t] \in ImportSteps
         /\ faults' <= faults
<1>1. \A s : Goes(t, s) => GoesWith(t, s, call[t])
  BY DEF Goes, GoesWith, ThreadsOK
<1>2. \E s \in ImportSteps \cup {"idle"} : \E c : GoesWith(t, s, c)
  BY <1>1 DEF ImportStep, Upload, Inspect, Validate, DropExisting, CreateReviewed, LoadData, Unlink,
     Pop, ImportFails, LoadUnanswered, Ends, ImportSteps
<1>3. pc[t] \in ImportSteps
  BY DEF ImportStep, Upload, Inspect, Validate, DropExisting, CreateReviewed, LoadData, Unlink,
     Pop, ImportFails, LoadUnanswered, ImportSteps
<1>4. faults' <= faults
  BY DEF ImportStep, Upload, Inspect, Validate, DropExisting, CreateReviewed, LoadData, Unlink,
     Pop, ImportFails, LoadUnanswered, Fault, limits, LimitsOK
<1>. QED BY <1>2, <1>3, <1>4

LEMMA ArchiveStepMoves ==
  ASSUME ThreadsOK, LimitsOK, NEW t \in Threads, ArchiveStep(t)
  PROVE  /\ \E s \in ArchiveSteps \cup {"idle"} : \E c : GoesWith(t, s, c)
         /\ pc[t] \in ArchiveSteps
         /\ faults' <= faults
<1>1. \A s : Goes(t, s) => GoesWith(t, s, call[t])
  BY DEF Goes, GoesWith, ThreadsOK
<1>2. Continue(t) => \E s \in ArchiveSteps \cup {"idle"} : \E c : GoesWith(t, s, c)
  BY DEF Continue, Ends, ArchiveSteps
<1>3. \E s \in ArchiveSteps \cup {"idle"} : \E c : GoesWith(t, s, c)
  BY <1>1, <1>2 DEF ArchiveStep, Retry, LookUp, Upgrade, CreateTable, Move, MoveUnanswered, Find, Delete,
     Drop, Unregister, DropTable, DropRegistry, ArchiveFails, Ends, ArchiveSteps
<1>4. pc[t] \in ArchiveSteps
  BY DEF ArchiveStep, Retry, LookUp, Upgrade, CreateTable, Move, MoveUnanswered, Find, Delete,
     Drop, Unregister, DropTable, DropRegistry, ArchiveFails, ArchiveSteps
<1>5. faults' <= faults
  BY DEF ArchiveStep, Retry, LookUp, Upgrade, CreateTable, Move, MoveUnanswered, Find, Delete,
     Drop, Unregister, DropTable, DropRegistry, ArchiveFails, Fault, limits, LimitsOK
<1>. QED BY <1>3, <1>4, <1>5

LEMMA ArrivesMoves ==
  ASSUME TInv, NEW t \in Threads, Arrives(t)
  PROVE  pc[t] = "idle" /\ call[t] = NoCall /\ faults' = faults /\ \E s, c : GoesWith(t, s, c)
<1>1. \A s, c : Begin(t, s, c) => pc[t] = "idle" /\ faults' = faults /\ GoesWith(t, s, c)
  BY DEF Begin, GoesWith
<1>2. pc[t] = "idle" => call[t] = NoCall
  BY CallOf, KindOfCall DEF TInv
<1>3. \E s, c : Begin(t, s, c)
  BY DEF Arrives, BeginSave, BeginDelete, BeginImport, BeginInspect, BeginLoad, Prepare, Clear,
     BeginArchiveRequest, BeginRetry, BeginArchive, BeginDeleteArchived, BeginDropPartitions,
     BeginReinitialize, BeginLogin
<1>. QED BY <1>1, <1>2, <1>3

LEMMA OthersWait ==
  ASSUME ThreadsOK, NEW t \in Threads, \E s, c : GoesWith(t, s, c)
  PROVE  \A u \in Threads : u # t => pc'[u] = pc[u] /\ call'[u] = call[u]
BY DEF GoesWith, ThreadsOK

\* Every step is one of these.
LEMMA StepCases ==
  ASSUME TInv, ConsoleNext
  PROVE  \/ \E t \in Threads :
              \/ Arrives(t)
              \/ ProfileStep(t) /\ UNCHANGED OtherThanProfiles
              \/ ImportStep(t) /\ UNCHANGED OtherThanImports
              \/ ArchiveStep(t) /\ UNCHANGED OtherThanArchive
              \/ Connect(t)
         \/ \E m \in Messages : Execute(m) /\ UNCHANGED OtherThanArchive
         \/ Crash
BY DEF ConsoleNext, Serves

-----------------------------------------------------------------------------
(* A registry row without its table.                                       *)

LEMMA RegistryKept ==
  ASSUME TInv, RegistryHasTable, registry' \ created' \subseteq registry \ created,
         faults' <= faults, faults' \in Int,
         \A u \in Threads : pc[u] \in {"unregister", "dropTables"} => pc'[u] = pc[u] /\ call'[u] = call[u]
  PROVE  RegistryHasTable'
BY RequestsAssumption DEF TInv, LimitsOK, RegistryHasTable

LEMMA RegistryAfterFault ==
  ASSUME TInv, faults' < MaxFaults
  PROVE  RegistryHasTable'
BY DEF RegistryHasTable

LEMMA RegistryDrop ==
  ASSUME TInv, TInv', RegistryHasTable, NEW t \in Threads, Drop(t) \/ Unregister(t) \/ DropTable(t)
  PROVE  RegistryHasTable'
<1>1. \A u \in Threads : u # t => pc'[u] = pc[u] /\ call'[u] = call[u]
  <2>1. ArchiveStep(t)
    BY DEF ArchiveStep
  <2>. QED BY <2>1, ArchiveStepMoves, OthersWait DEF TInv
<1>2. faults' = faults
  BY DEF Drop, Unregister, DropTable, limits
<1>3. CASE Drop(t) /\ call[t].period \in created
  <2>1. pc'[t] = "unregister" /\ call'[t] = call[t]
    BY <1>3 DEF Drop, Goes, TInv, ThreadsOK
  <2>. QED BY <1>1, <1>2, <1>3, <2>1 DEF Drop, RegistryHasTable
<1>4. CASE Drop(t) /\ call[t].period \notin created
  BY <1>1, <1>2, <1>4 DEF Drop, RegistryHasTable
<1>5. CASE Unregister(t)
  BY <1>1, <1>2, <1>5 DEF Unregister, RegistryHasTable
<1>6. CASE DropTable(t)
  <2>1. pc'[t] = "dropTables"
    BY <1>6 DEF DropTable, GoesWith, TInv, ThreadsOK
  <2>. QED BY <2>1 DEF RegistryHasTable
<1>. QED BY <1>3, <1>4, <1>5, <1>6

LEMMA RegistryOtherSteps ==
  ASSUME TInv, TInv', RegistryHasTable, NEW t \in Threads, ArchiveStep(t),
         ~Drop(t), ~Unregister(t), ~DropTable(t)
  PROVE  RegistryHasTable'
<1>1. \A u \in Threads : u # t => pc'[u] = pc[u] /\ call'[u] = call[u]
  BY ArchiveStepMoves, OthersWait DEF TInv
<1>2. CASE ArchiveFails(t)
  BY <1>2, FaultOK, RegistryAfterFault DEF ArchiveFails, TInv
<1>3. CASE DropRegistry(t)
  BY <1>3 DEF DropRegistry, RegistryHasTable
<1>4. CASE ~ArchiveFails(t) /\ ~DropRegistry(t)
  <2>1. pc[t] \notin {"unregister", "dropTables"}
    BY <1>4 DEF ArchiveStep, Retry, LookUp, Upgrade, CreateTable, Move, MoveUnanswered, Find, Delete
  <2>2. registry' \ created' \subseteq registry \ created
    BY <1>4 DEF ArchiveStep, Retry, LookUp, Upgrade, CreateTable, Move, MoveUnanswered, MoveRows, Inserts,
       Find, Delete, archive
  <2>3. faults' <= faults /\ faults' \in Int
    BY ArchiveStepMoves, RequestsAssumption DEF TInv, LimitsOK
  <2>. QED BY <1>1, <2>1, <2>2, <2>3, RegistryKept
<1>. QED BY <1>2, <1>3, <1>4

LEMMA NextRegistryHasTable ==
  ASSUME TInv, TInv', RegistryHasTable, [ConsoleNext]_consoleVars
  PROVE  RegistryHasTable'
<1>0. faults' \in Int
  BY RequestsAssumption DEF TInv, LimitsOK
<1>1. ASSUME NEW t \in Threads, ArchiveStep(t) PROVE RegistryHasTable'
  BY <1>1, RegistryDrop, RegistryOtherSteps
<1>2. ASSUME NEW t \in Threads, pc[t] \notin {"unregister", "dropTables"},
             \E s, c : GoesWith(t, s, c), UNCHANGED archive, faults' <= faults
      PROVE  RegistryHasTable'
  <2>1. \A u \in Threads : pc[u] \in {"unregister", "dropTables"} => pc'[u] = pc[u] /\ call'[u] = call[u]
    BY <1>2, OthersWait DEF TInv
  <2>. QED BY <1>0, <1>2, <2>1, RegistryKept DEF archive
<1>3. ASSUME NEW t \in Threads, Arrives(t) PROVE RegistryHasTable'
  <2>1. UNCHANGED archive
    BY <1>3 DEF Arrives, OtherThanProfiles, OtherThanImports
  <2>2. faults' <= faults
    BY <1>0, <1>3, ArrivesMoves
  <2>. QED BY <1>2, <1>3, <2>1, <2>2, ArrivesMoves
<1>4. ASSUME NEW t \in Threads, ProfileStep(t), UNCHANGED OtherThanProfiles PROVE RegistryHasTable'
  BY <1>2, <1>4, ProfileStepMoves DEF TInv, OtherThanProfiles, ProfileSteps
<1>5. ASSUME NEW t \in Threads, ImportStep(t), UNCHANGED OtherThanImports PROVE RegistryHasTable'
  BY <1>2, <1>5, ImportStepMoves DEF TInv, OtherThanImports, ImportSteps
<1>6. ASSUME NEW t \in Threads, Connect(t) PROVE RegistryHasTable'
  BY <1>0, <1>2, <1>6 DEF Connect, Ends, limits
<1>7. ASSUME NEW m \in Messages, Execute(m) PROVE RegistryHasTable'
  BY <1>7 DEF Execute, RegistryHasTable, threads, limits
<1>8. CASE Crash
  BY <1>8, ProcessEndsOK, RegistryAfterFault DEF Crash
<1>9. CASE UNCHANGED consoleVars
  BY <1>9 DEF consoleVars, archive, threads, limits, RegistryHasTable
<1>. QED BY <1>1, <1>3, <1>4, <1>5, <1>6, <1>7, <1>8, <1>9, StepCases

(* However the pages for durable messages interleave, a row of the registry  *)
(* is without its table only while the request that dropped the table is     *)
(* about to delete the row, or after a fault: inductive with the types.      *)
THEOREM SpecRegistryHasTable == ConsoleSpec => []RegistryHasTable
<1>1. ConsoleInit => RegistryHasTable
  BY DEF ConsoleInit, InitArchive, RegistryHasTable
<1>2. TInv /\ TInv' /\ RegistryHasTable /\ [ConsoleNext]_consoleVars => RegistryHasTable'
  BY NextRegistryHasTable
<1>. QED BY <1>1, <1>2, SpecTInv, PTL DEF ConsoleSpec

-----------------------------------------------------------------------------
(* A file is loaded once.                                                  *)

InspectOf(t, j) == call[t].kind = "inspect" /\ call[t].job = j
LoadOf(t, j) == call[t].kind = "load" /\ call[t].job = j

\* A job has no state before its file was inspected, by one request, and has
\* one when it is loaded.
InspectedOnce ==
  \A j \in Jobs :
    /\ \A t, u \in Threads : InspectOf(t, j) /\ InspectOf(u, j) => t = u
    /\ \A t \in Threads : InspectOf(t, j) => job[j].state = "none"
    /\ \A t \in Threads : LoadOf(t, j) => job[j].state # "none"

Blank(j) == \A k \in RowKeys : rows[j][k] = 0
AtMostOnce(j) == \A k \in RowKeys : rows[j][k] <= 1
Kept(j) == Complete(j) \/ j \in overwritten

\* The table has none of its rows before the commit, and is complete after it;
\* then the one request that loads it is at its end, or the job is gone.
LoadedOnce(j) ==
  /\ AtMostOnce(j)
  /\ ~Blank(j) => \/ job[j].state = "gone"
                  \/ \E t \in Threads : LoadOf(t, j) /\ pc[t] \in {"unlink", "pop"}
  /\ \A t, u \in Threads : LoadOf(t, j) /\ LoadOf(u, j) => t = u
  /\ \A t \in Threads : LoadOf(t, j) =>
       /\ pc[t] \in {"validate", "dropTable", "createTable", "loadData"} => Blank(j)
       /\ pc[t] \in {"unlink", "pop"} /\ call[t].review.data => Kept(j)
  /\ j \in imported => Kept(j)

LoadInv == InspectedOnce /\ \A j \in Jobs \ unsure : LoadedOnce(j)

LEMMA LoadInvImpliesImportedOnce ==
  ASSUME LoadInv
  PROVE  ImportedOnce
BY DEF LoadInv, LoadedOnce, ImportedOnce, AtMostOnce, Kept

LEMMA SameTable ==
  ASSUME UNCHANGED <<rows, keyed, overwritten>>
  PROVE  \A j : /\ Blank(j)' <=> Blank(j)
                /\ AtMostOnce(j)' <=> AtMostOnce(j)
                /\ Kept(j)' <=> Kept(j)
BY DEF Blank, AtMostOnce, Kept, Complete

LEMMA InitLoadInv ==
  ASSUME ConsoleInit
  PROVE  LoadInv
<1>1. \A t \in Threads : call[t].kind = "none"
  BY DEF ConsoleInit, InitThreads, NoCall
<1>2. \A j \in Jobs : (\A k \in RowKeys : rows[j][k] = 0) /\ j \notin imported
  BY ImportAssumption DEF ConsoleInit, InitImport, Sources
<1>3. ASSUME NEW j \in Jobs PROVE Blank(j) /\ AtMostOnce(j)
  BY <1>2 DEF Blank, AtMostOnce
<1>. QED BY <1>1, <1>2, <1>3 DEF LoadInv, InspectedOnce, LoadedOnce, InspectOf, LoadOf

\* Requests of other pages do not matter.
LEMMA LoadKept ==
  ASSUME LoadInv, UNCHANGED imports,
         \A u \in Threads : \/ pc'[u] = pc[u] /\ call'[u] = call[u]
                            \/ call[u].kind \notin {"inspect", "load"} /\ call'[u].kind \notin {"inspect", "load"}
  PROVE  LoadInv'
<1>1. \A u \in Threads : \A j : (InspectOf(u, j)' <=> InspectOf(u, j)) /\ (LoadOf(u, j)' <=> LoadOf(u, j))
  BY DEF InspectOf, LoadOf
<1>2. \A u \in Threads : \A j : LoadOf(u, j) => pc'[u] = pc[u] /\ call'[u] = call[u]
  BY DEF LoadOf
<1>3. InspectedOnce'
  BY <1>1 DEF LoadInv, InspectedOnce, imports, sessions
<1>4. ASSUME NEW j \in Jobs, j \notin unsure PROVE LoadedOnce(j)'
  BY <1>1, <1>2, <1>4, SameTable DEF LoadInv, LoadedOnce, imports, sessions, importTable, importHistory
<1>. QED BY <1>3, <1>4 DEF LoadInv, imports, importHistory

LEMMA BeginInspectLoadInv ==
  ASSUME TInv, LoadInv, NEW t \in Threads, BeginInspect(t), UNCHANGED imports
  PROVE  LoadInv'
<1>1. PICK s \in Sessions, j \in Jobs :
        /\ job[j].state = "none"
        /\ \A u \in Threads : ~InspectOf(u, j)
        /\ Begin(t, "upload", [kind |-> "inspect", session |-> s, job |-> j])
  BY DEF BeginInspect, InspectOf
<1>2. \A u \in Threads : u # t => pc'[u] = pc[u] /\ call'[u] = call[u]
  BY <1>1 DEF Begin, TInv, ThreadsOK
<1>3. call[t].kind = "none" /\ call'[t] = [kind |-> "inspect", session |-> s, job |-> j]
  <2>1. pc[t] = "idle" /\ call'[t] = [kind |-> "inspect", session |-> s, job |-> j]
    BY <1>1 DEF Begin, TInv, ThreadsOK
  <2>. QED BY <2>1, CallOf, KindOfCall DEF TInv, NoCall
<1>4. InspectedOnce'
  BY <1>1, <1>2, <1>3 DEF LoadInv, InspectedOnce, InspectOf, LoadOf, imports, sessions
<1>5. ASSUME NEW k \in Jobs, k \notin unsure PROVE LoadedOnce(k)'
  BY <1>2, <1>3, <1>5, SameTable DEF LoadInv, LoadedOnce, LoadOf, imports, sessions, importTable,
         importHistory
<1>. QED BY <1>4, <1>5 DEF LoadInv, imports, importHistory

LEMMA BeginLoadLoadInv ==
  ASSUME TInv, LoadInv, NEW t \in Threads, BeginLoad(t)
  PROVE  LoadInv'
<1>1. PICK j \in Jobs :
        /\ job[j].state = "reviewed"
        /\ unsure' = IF Loading(j) THEN unsure \cup {j} ELSE unsure
        /\ Begin(t, "validate", [kind |-> "load", job |-> j, review |-> job[j].review])
  BY DEF BeginLoad, JobsOf
<1>2. \A u \in Threads : u # t => pc'[u] = pc[u] /\ call'[u] = call[u]
  BY <1>1 DEF Begin, TInv, ThreadsOK
<1>3. /\ call[t].kind = "none" /\ pc'[t] = "validate"
      /\ call'[t] = [kind |-> "load", job |-> j, review |-> job[j].review]
  <2>1. /\ pc[t] = "idle" /\ pc'[t] = "validate"
        /\ call'[t] = [kind |-> "load", job |-> j, review |-> job[j].review]
    BY <1>1 DEF Begin, TInv, ThreadsOK
  <2>. QED BY <2>1, CallOf, KindOfCall DEF TInv, NoCall
<1>4. UNCHANGED <<job, rows, keyed, imported, overwritten>>
  BY DEF BeginLoad, sessions, importTable
<1>5. InspectedOnce'
  BY <1>1, <1>2, <1>3, <1>4 DEF LoadInv, InspectedOnce, InspectOf, LoadOf
<1>6. ASSUME NEW k \in Jobs, k \notin unsure' PROVE LoadedOnce(k)'
  <2>1. LoadedOnce(k)
    BY <1>1, <1>6 DEF LoadInv
  <2>2. CASE k = j
    <3>1. \A u \in Threads : ~LoadOf(u, j)
      BY <1>1, <1>6, <2>2 DEF Loading, LoadOf
    <3>2. Blank(j)
      BY <1>1, <2>1, <2>2, <3>1 DEF LoadedOnce
    <3>3. \A u \in Threads : LoadOf(u, k)' => u = t
      BY <1>2, <2>2, <3>1 DEF LoadOf
    <3>. QED BY <1>3, <1>4, <2>1, <2>2, <3>2, <3>3, SameTable DEF LoadedOnce
  <2>3. CASE k # j
    <3>1. \A u \in Threads : LoadOf(u, k)' <=> LoadOf(u, k)
      BY <1>2, <1>3, <2>3 DEF LoadOf
    <3>2. \A u \in Threads : LoadOf(u, k) => pc'[u] = pc[u] /\ call'[u] = call[u]
      BY <1>2, <1>3 DEF LoadOf
    <3>. QED BY <1>4, <2>1, <3>1, <3>2, SameTable DEF LoadedOnce
  <2>. QED BY <2>2, <2>3
<1>. QED BY <1>5, <1>6 DEF LoadInv

\* A job is reviewed, or goes with its session, between two requests.
LEMMA JobLoadInv ==
  ASSUME LoadInv, UNCHANGED <<rows, keyed, imported, overwritten, unsure>>,
         UNCHANGED <<pc, call>>,
         \A j \in Jobs : job'[j] = job[j] \/ /\ job[j].state \in {"inspected", "reviewed"}
                                             /\ job'[j].state \in {"reviewed", "gone"}
  PROVE  LoadInv'
<1>1. InspectedOnce'
  BY DEF LoadInv, InspectedOnce, InspectOf, LoadOf
<1>2. ASSUME NEW j \in Jobs, j \notin unsure PROVE LoadedOnce(j)'
  BY <1>2, SameTable DEF LoadInv, LoadedOnce, LoadOf
<1>. QED BY <1>1, <1>2 DEF LoadInv

LEMMA PrepareLoadInv ==
  ASSUME TInv, LoadInv, NEW t \in Threads, Prepare(t) \/ Clear(t)
  PROVE  LoadInv'
<1>0. job \in [Jobs -> JobRow]
  BY ImportTypes DEF TInv
<1>1. UNCHANGED <<pc, call>>
  <2>1. pc[t] = "idle" /\ Begin(t, "idle", NoCall)
    BY DEF Prepare, Clear, Begin
  <2>2. call[t] = NoCall
    BY <2>1, CallOf, KindOfCall DEF TInv
  <2>. QED BY <2>1, <2>2 DEF Begin, TInv, ThreadsOK
<1>2. UNCHANGED <<rows, keyed, imported, overwritten, unsure>>
  BY DEF Prepare, Clear, importTable, importHistory
<1>3. \A j \in Jobs : job'[j] = job[j] \/ /\ job[j].state \in {"inspected", "reviewed"}
                                          /\ job'[j].state \in {"reviewed", "gone"}
  <2>1. CASE Prepare(t)
    <3>1. PICK r \in Review, j \in Jobs : /\ job[j].state \in {"inspected", "reviewed"}
                                          /\ job' = [job EXCEPT ![j].state = "reviewed", ![j].review = r]
      BY <2>1 DEF Prepare, JobsOf
    <3>. QED BY <1>0, <3>1 DEF JobRow
  <2>2. CASE Clear(t)
    BY <1>0, <2>2 DEF Clear, Cleared, JobsOf, JobRow
  <2>. QED BY <2>1, <2>2
<1>. QED BY <1>1, <1>2, <1>3, JobLoadInv

LEMMA InspectLoadInv ==
  ASSUME TInv, LoadInv, NEW t \in Threads, Upload(t) \/ Inspect(t)
  PROVE  LoadInv'
<1>0. job \in [Jobs -> JobRow]
  BY ImportTypes DEF TInv
<1>1. PICK i \in InspectCalls : i = call[t]
  BY CallOf, KindOfCall DEF TInv, Upload, Inspect
<1>2. /\ i.job \in Jobs /\ i.session \in Sessions /\ i.kind = "inspect"
      /\ Inspected(i.session).state = "inspected"
  BY <1>1, InspectFields DEF Inspected, NoJob
<1>3. \A u \in Threads : u # t => pc'[u] = pc[u] /\ call'[u] = call[u]
  BY ImportStepMoves, OthersWait DEF TInv, ImportStep
<1>4. UNCHANGED <<rows, keyed, imported, overwritten, unsure>>
  BY DEF Upload, Inspect, importTable, importHistory
<1>5. InspectOf(t, i.job) /\ \A j : ~LoadOf(t, j)
  BY <1>1, <1>2 DEF InspectOf, LoadOf
<1>6. CASE Upload(t)
  <2>1. call'[t] = call[t] /\ job' = job
    BY <1>6 DEF Upload, Goes
  <2>2. InspectedOnce'
    BY <1>3, <2>1 DEF LoadInv, InspectedOnce, InspectOf, LoadOf
  <2>3. ASSUME NEW j \in Jobs, j \notin unsure PROVE LoadedOnce(j)'
    BY <1>3, <1>4, <1>5, <2>1, <2>3, SameTable DEF LoadInv, LoadedOnce, LoadOf
  <2>. QED BY <1>4, <2>2, <2>3 DEF LoadInv
<1>7. CASE Inspect(t)
  <2>1. call'[t].kind = "none"
    BY <1>7 DEF Inspect, Ends, GoesWith, TInv, ThreadsOK, NoCall
  <2>2. \A j \in Jobs : job'[j] = job[j] \/ (j = i.job /\ job'[j].state = "inspected")
    BY <1>0, <1>1, <1>2, <1>7 DEF Inspect
  <2>3. job[i.job].state = "none" /\ \A u \in Threads : InspectOf(u, i.job) => u = t
    BY <1>2, <1>5 DEF LoadInv, InspectedOnce
  <2>4. InspectedOnce'
    <3>1. \A u \in Threads : \A j : /\ InspectOf(u, j)' => InspectOf(u, j) /\ u # t
                                    /\ LoadOf(u, j)' => LoadOf(u, j)
      BY <1>3, <2>1 DEF InspectOf, LoadOf
    <3>. QED BY <2>2, <2>3, <3>1 DEF LoadInv, InspectedOnce
  <2>5. ASSUME NEW j \in Jobs, j \notin unsure PROVE LoadedOnce(j)'
    <3>1. \A u \in Threads : LoadOf(u, j)' <=> LoadOf(u, j)
      BY <1>3, <1>5, <2>1 DEF LoadOf
    <3>2. \A u \in Threads : LoadOf(u, j) => pc'[u] = pc[u] /\ call'[u] = call[u]
      BY <1>3, <1>5
    <3>3. job[j].state = "gone" => job'[j].state = "gone"
      BY <2>2, <2>3
    <3>. QED BY <1>4, <2>5, <3>1, <3>2, <3>3, SameTable DEF LoadInv, LoadedOnce
  <2>. QED BY <1>4, <2>4, <2>5 DEF LoadInv
<1>. QED BY <1>6, <1>7

\* A request that loads a job takes a step; what the step does is said below.
LEMMA LoadStep ==
  ASSUME TInv, NEW t \in Threads, ImportStep(t), pc[t] \notin {"upload", "inspect"}
  PROVE  /\ \A u \in Threads : u # t => pc'[u] = pc[u] /\ call'[u] = call[u]
         /\ call[t] \in LoadCalls /\ LoadOf(t, call[t].job) /\ call[t].job \in Jobs
         /\ \/ call'[t] = call[t]
            \/ call'[t].kind = "none"
<1>1. \A u \in Threads : u # t => pc'[u] = pc[u] /\ call'[u] = call[u]
  BY ImportStepMoves, OthersWait DEF TInv
<1>2. pc[t] \in {"validate", "dropTable", "createTable", "loadData", "unlink", "pop"}
  BY ImportStepMoves DEF TInv, ImportSteps
<1>3. call[t] \in LoadCalls
  BY <1>2, CallOf, KindOfCall DEF TInv
<1>4. call'[t] = call[t] \/ call'[t].kind = "none"
  <2>1. Ends(t) \/ call' = call
    BY <1>2 DEF ImportStep, Upload, Inspect, Validate, DropExisting, CreateReviewed, LoadData, Unlink,
       Pop, ImportFails, LoadUnanswered, Goes
  <2>. QED BY <2>1 DEF Ends, GoesWith, NoCall, TInv, ThreadsOK
<1>. QED BY <1>1, <1>3, <1>4, LoadFields DEF LoadOf

\* No request begins here, and no job gets a state or loses it.
LEMMA LoadInspected ==
  ASSUME TInv, InspectedOnce, NEW t \in Threads, ImportStep(t), pc[t] \notin {"upload", "inspect"},
         \A j \in Jobs : \/ job'[j].state = job[j].state
                         \/ LoadOf(t, j) /\ job'[j].state = "gone"
  PROVE  InspectedOnce'
<1>1. \A u \in Threads : \A j : /\ InspectOf(u, j)' => InspectOf(u, j)
                                /\ LoadOf(u, j)' => LoadOf(u, j)
  BY LoadStep DEF InspectOf, LoadOf
<1>. QED BY <1>1 DEF InspectedOnce

LEMMA LoadTableLoadInv ==
  ASSUME TInv, LoadInv, NEW t \in Threads, Validate(t) \/ DropExisting(t) \/ CreateReviewed(t)
  PROVE  LoadInv'
<1>0. ImportStep(t) /\ pc[t] \in {"validate", "dropTable", "createTable"}
  BY DEF ImportStep, Validate, DropExisting, CreateReviewed
<1>1. /\ \A u \in Threads : u # t => pc'[u] = pc[u] /\ call'[u] = call[u]
      /\ LoadOf(t, call[t].job) /\ call[t].job \in Jobs
      /\ \/ call'[t] = call[t]
         \/ call'[t].kind = "none"
      /\ call[t].review.data \in BOOLEAN
  BY <1>0, LoadStep, LoadFields
<1>2. UNCHANGED <<job, imported, unsure>>
  BY DEF Validate, DropExisting, CreateReviewed, imports, sessions, importHistory
<1>3. InspectedOnce'
  <2>1. \A j \in Jobs : \/ job'[j].state = job[j].state
                        \/ LoadOf(t, j) /\ job'[j].state = "gone"
    BY <1>2
  <2>. QED BY <1>0, <2>1, LoadInspected DEF LoadInv
<1>4. \A u \in Threads : \A j : LoadOf(u, j)' => LoadOf(u, j) /\ call'[u] = call[u]
  BY <1>1 DEF LoadOf
<1>5. \A u \in Threads : \A j : LoadOf(u, j) /\ u # t => LoadOf(u, j)'
  BY <1>1 DEF LoadOf
<1>6. pc'[t] \in {"idle", "dropTable", "createTable", "loadData", "unlink"}
      /\ (pc'[t] = "unlink" => ~call[t].review.data)
  BY <1>1 DEF Validate, DropExisting, CreateReviewed, Ends, Goes, GoesWith, TInv, ThreadsOK
<1>7. ASSUME NEW j \in Jobs
      PROVE  \/ /\ Blank(j)' <=> Blank(j)
                /\ AtMostOnce(j) => AtMostOnce(j)'
                /\ Kept(j) => Kept(j)'
             \/ /\ Blank(j)' /\ AtMostOnce(j)'
                /\ Loaded(j) => Kept(j)'
  <2>1. CASE Validate(t)
    BY <2>1, SameTable DEF Validate, imports, importTable, importHistory
  <2>2. CASE DropExisting(t)
    <3>1. Blank(j)' /\ AtMostOnce(j)'
      BY <2>2 DEF DropExisting, Blank, AtMostOnce, Sources
    <3>. QED BY <2>2, <3>1 DEF DropExisting, Kept
  <2>3. CASE CreateReviewed(t)
    <3>1. Blank(j)' <=> Blank(j)
      BY <2>3 DEF CreateReviewed, Blank
    <3>2. AtMostOnce(j) => AtMostOnce(j)'
      BY <2>3 DEF CreateReviewed, AtMostOnce
    <3>3. CASE exists
      BY <2>3, <3>1, <3>2, <3>3, SameTable DEF CreateReviewed, importHistory
    <3>4. CASE ~exists
      <4>1. \A r \in Sources, k \in RowKeys : rows[r][k] = 0
        BY <3>4, ImportTypes DEF TInv
      <4>2. KeysOf[j] \subseteq RowKeys /\ j \in Sources
        BY ImportAssumption DEF Sources
      <4>3. Complete(j) => KeysOf[j] = {}
        BY <4>1, <4>2 DEF Complete
      <4>4. Complete(j) => Complete(j)'
        BY <4>3 DEF Complete
      <4>. QED BY <2>3, <3>1, <3>2, <4>4 DEF CreateReviewed, importHistory, Kept
    <3>. QED BY <3>3, <3>4
  <2>. QED BY <2>1, <2>2, <2>3
<1>8. ASSUME NEW j \in Jobs, j \notin unsure PROVE LoadedOnce(j)'
  <2>1. LoadedOnce(j)
    BY <1>8 DEF LoadInv
  <2>2. LoadOf(t, j) => Blank(j) /\ Blank(j)'
    BY <1>0, <1>7, <2>1 DEF LoadedOnce
  <2>3. AtMostOnce(j)'
    BY <1>7, <2>1 DEF LoadedOnce
  <2>4. ~Blank(j)' => \/ job'[j].state = "gone"
                      \/ \E u \in Threads : LoadOf(u, j)' /\ pc'[u] \in {"unlink", "pop"}
    BY <1>1, <1>2, <1>5, <1>7, <2>1, <2>2 DEF LoadedOnce
  <2>5. \A u, v \in Threads : LoadOf(u, j)' /\ LoadOf(v, j)' => u = v
    BY <1>4, <2>1 DEF LoadedOnce
  <2>6. ASSUME NEW u \in Threads, LoadOf(u, j)'
        PROVE  /\ pc'[u] \in {"validate", "dropTable", "createTable", "loadData"} => Blank(j)'
               /\ pc'[u] \in {"unlink", "pop"} /\ call'[u].review.data => Kept(j)'
    <3>1. LoadOf(u, j) /\ call'[u] = call[u]
      BY <1>4, <2>6
    <3>2. CASE u = t
      BY <1>6, <2>2, <3>1, <3>2 DEF LoadOf
    <3>3. CASE u # t
      <4>1. pc'[u] = pc[u]
        BY <1>1, <3>3
      <4>2. pc[u] \in {"unlink", "pop"} /\ call[u].review.data => Kept(j) /\ Loaded(j)
        BY <2>1, <3>1 DEF LoadedOnce, Loaded, LoadOf
      <4>. QED BY <1>7, <2>1, <3>1, <4>1, <4>2 DEF LoadedOnce
    <3>. QED BY <3>2, <3>3
  <2>7. j \in imported' => Kept(j)'
    BY <1>2, <1>7, <2>1 DEF LoadedOnce, Loaded
  <2>. QED BY <2>3, <2>4, <2>5, <2>6, <2>7 DEF LoadedOnce
<1>. QED BY <1>2, <1>3, <1>8 DEF LoadInv

LEMMA LoadDataLoadInv ==
  ASSUME TInv, LoadInv, NEW t \in Threads, LoadData(t) \/ LoadUnanswered(t)
  PROVE  LoadInv'
<1>0. ImportStep(t) /\ pc[t] = "loadData"
  BY DEF ImportStep, LoadData, LoadUnanswered
<1>1. /\ \A u \in Threads : u # t => pc'[u] = pc[u] /\ call'[u] = call[u]
      /\ LoadOf(t, call[t].job) /\ call[t].job \in Jobs
      /\ \/ call'[t] = call[t]
         \/ call'[t].kind = "none"
  BY <1>0, LoadStep
<1>2. UNCHANGED <<job, keyed, imported, overwritten>> /\ unsure \subseteq unsure'
  BY DEF LoadData, LoadUnanswered, sessions, importHistory
<1>3. InspectedOnce'
  <2>1. \A j \in Jobs : \/ job'[j].state = job[j].state
                        \/ LoadOf(t, j) /\ job'[j].state = "gone"
    BY <1>2
  <2>. QED BY <1>0, <2>1, LoadInspected DEF LoadInv
<1>4. \A u \in Threads : \A j : LoadOf(u, j)' => LoadOf(u, j) /\ call'[u] = call[u]
  BY <1>1 DEF LoadOf
<1>5. rows \in [Sources -> [RowKeys -> Nat]] /\ Jobs \subseteq Sources
  BY ImportTypes DEF TInv
<1>6. ASSUME NEW j \in Jobs, j \notin unsure' PROVE LoadedOnce(j)'
  <2>1. LoadedOnce(j)
    BY <1>2, <1>6 DEF LoadInv
  <2>2. CASE call[t].job = j
    <3>1. /\ LoadOf(t, j) /\ Blank(j)
          /\ \A u \in Threads : LoadOf(u, j) => u = t
      BY <1>0, <1>1, <2>1, <2>2 DEF LoadedOnce
    <3>2. LoadData(t)
      BY <1>6, <2>2 DEF LoadUnanswered
    <3>3. CASE Loads(j)
      <4>1. Load(j) /\ pc'[t] = "unlink" /\ call'[t] = call[t]
        BY <2>2, <3>2, <3>3 DEF LoadData, Goes, TInv, ThreadsOK
      <4>2. LoadOf(t, j)'
        BY <3>1, <4>1 DEF LoadOf
      <4>3. /\ \A r \in Sources, k \in RowKeys : r # j => rows'[r][k] = rows[r][k]
            /\ \A k \in RowKeys : rows[j][k] = 0 /\ rows'[j][k] = IF Adds(j, k) THEN 1 ELSE 0
        BY <1>5, <3>1, <4>1 DEF Load, Blank
      <4>4. AtMostOnce(j)'
        BY <4>3 DEF AtMostOnce
      <4>5. Kept(j)'
        <5>1. ASSUME NEW k \in KeysOf[j]
              PROVE  rows'[j][k] = 1 \/ (keyed' /\ \E r \in Sources : rows'[r][k] > 0)
          <6>1. k \in RowKeys
            BY ImportAssumption
          <6>2. CASE Adds(j, k)
            BY <4>3, <6>1, <6>2
          <6>3. CASE ~Adds(j, k)
            <7>1. PICK r \in Sources : keyed /\ rows[r][k] > 0
              BY <6>3 DEF Adds
            <7>2. rows'[r][k] > 0
              BY <4>3, <6>1, <7>1
            <7>. QED BY <1>2, <7>1, <7>2
          <6>. QED BY <6>2, <6>3
        <5>. QED BY <5>1 DEF Kept, Complete
      <4>. QED BY <1>4, <3>1, <4>1, <4>2, <4>4, <4>5 DEF LoadedOnce
    <3>4. CASE ~Loads(j)
      <4>1. rows' = rows /\ call'[t].kind = "none"
        BY <2>2, <3>2, <3>4 DEF LoadData, Ends, GoesWith, TInv, ThreadsOK, NoCall
      <4>2. \A u \in Threads : ~LoadOf(u, j)'
        BY <1>4, <3>1, <4>1 DEF LoadOf
      <4>. QED BY <1>2, <2>1, <3>1, <4>1, <4>2, SameTable DEF LoadedOnce
    <3>. QED BY <3>3, <3>4
  <2>3. CASE call[t].job # j
    <3>1. rows' = rows \/ Load(call[t].job)
      BY DEF LoadData, LoadUnanswered
    <3>2. /\ rows'[j] = rows[j]
          /\ \A r \in Sources, k \in RowKeys : rows[r][k] > 0 => rows'[r][k] > 0
      BY <1>1, <1>5, <2>3, <3>1 DEF Load
    <3>3. (Blank(j)' <=> Blank(j)) /\ (AtMostOnce(j)' <=> AtMostOnce(j))
      BY <3>2 DEF Blank, AtMostOnce
    <3>4. Kept(j) => Kept(j)'
      <4>1. KeysOf[j] \subseteq RowKeys
        BY ImportAssumption
      <4>. QED BY <1>2, <3>2, <4>1 DEF Kept, Complete
    <3>5. \A u \in Threads : LoadOf(u, j) => u # t
      BY <2>3 DEF LoadOf
    <3>6. \A u \in Threads : (LoadOf(u, j)' <=> LoadOf(u, j)) /\ (LoadOf(u, j) => pc'[u] = pc[u] /\ call'[u] = call[u])
      BY <1>1, <1>4, <3>5 DEF LoadOf
    <3>. QED BY <1>2, <2>1, <3>3, <3>4, <3>6 DEF LoadedOnce
  <2>. QED BY <2>2, <2>3
<1>. QED BY <1>3, <1>6 DEF LoadInv

LEMMA LoadEndLoadInv ==
  ASSUME TInv, LoadInv, NEW t \in Threads, Unlink(t) \/ Pop(t) \/ ImportFails(t),
         pc[t] \notin {"upload", "inspect"}
  PROVE  LoadInv'
<1>0. ImportStep(t)
  BY DEF ImportStep
<1>1. /\ \A u \in Threads : u # t => pc'[u] = pc[u] /\ call'[u] = call[u]
      /\ LoadOf(t, call[t].job) /\ call[t].job \in Jobs
      /\ \/ call'[t] = call[t]
         \/ call'[t].kind = "none"
  BY <1>0, LoadStep
<1>2. UNCHANGED <<rows, keyed, overwritten>> /\ unsure \subseteq unsure'
  BY DEF Unlink, Pop, ImportFails, importTable, importHistory
<1>3. job \in [Jobs -> JobRow]
  BY ImportTypes DEF TInv
<1>4. /\ job'[call[t].job] = job[call[t].job] \/ job'[call[t].job].state = "gone"
      /\ \A j \in Jobs : j # call[t].job => job'[j] = job[j]
      /\ Pop(t) => job'[call[t].job].state = "gone"
  BY <1>1, <1>3 DEF Unlink, Pop, ImportFails, sessions, JobRow
<1>5. InspectedOnce'
  <2>1. \A j \in Jobs : \/ job'[j].state = job[j].state
                        \/ LoadOf(t, j) /\ job'[j].state = "gone"
    BY <1>1, <1>4
  <2>. QED BY <1>0, <2>1, LoadInspected DEF LoadInv
<1>6. \A u \in Threads : \A j : LoadOf(u, j)' => LoadOf(u, j) /\ call'[u] = call[u]
  BY <1>1 DEF LoadOf
<1>7. ASSUME NEW j \in Jobs, j \notin unsure' PROVE LoadedOnce(j)'
  <2>1. LoadedOnce(j)
    BY <1>2, <1>7 DEF LoadInv
  <2>2. CASE call[t].job = j
    <3>1. /\ LoadOf(t, j)
          /\ \A u \in Threads : LoadOf(u, j) => u = t
      BY <1>1, <2>1, <2>2 DEF LoadedOnce
    <3>2. CASE Unlink(t)
      <4>1. /\ pc[t] = "unlink" /\ pc'[t] = "pop" /\ call'[t] = call[t] /\ UNCHANGED <<job, imported>>
        BY <3>2 DEF Unlink, Goes, TInv, ThreadsOK, importHistory
      <4>2. LoadOf(t, j)'
        BY <3>1, <4>1 DEF LoadOf
      <4>. QED BY <1>2, <1>6, <2>1, <3>1, <4>1, <4>2, SameTable DEF LoadedOnce
    <3>3. CASE Pop(t)
      <4>1. call'[t].kind = "none" /\ job'[j].state = "gone"
        BY <1>4, <2>2, <3>3 DEF Pop, Ends, GoesWith, TInv, ThreadsOK, NoCall
      <4>2. \A u \in Threads : ~LoadOf(u, j)'
        BY <1>6, <3>1, <4>1 DEF LoadOf
      <4>3. j \in imported' => j \in imported \/ call[t].review.data
        BY <3>3 DEF Pop
      <4>4. call[t].review.data => Kept(j)
        BY <2>1, <3>1, <3>3 DEF LoadedOnce, Pop
      <4>. QED BY <1>2, <2>1, <4>1, <4>2, <4>3, <4>4, SameTable DEF LoadedOnce
    <3>4. CASE ImportFails(t)
      <4>1. pc[t] \notin {"unlink", "pop"}
        BY <1>7, <2>2, <3>4 DEF ImportFails
      <4>2. call'[t].kind = "none" /\ UNCHANGED <<job, imported>>
        BY <3>4 DEF ImportFails, Ends, GoesWith, TInv, ThreadsOK, NoCall, sessions
      <4>3. \A u \in Threads : ~LoadOf(u, j)'
        BY <1>6, <3>1, <4>2 DEF LoadOf
      <4>4. ~Blank(j) => job[j].state = "gone"
        BY <2>1, <3>1, <4>1 DEF LoadedOnce
      <4>. QED BY <1>2, <2>1, <4>2, <4>3, <4>4, SameTable DEF LoadedOnce
    <3>. QED BY <3>2, <3>3, <3>4
  <2>3. CASE call[t].job # j
    <3>1. job'[j] = job[j] /\ (j \in imported' <=> j \in imported)
      BY <1>4, <2>3 DEF Unlink, Pop, ImportFails, importHistory
    <3>2. \A u \in Threads : LoadOf(u, j) => u # t
      BY <2>3 DEF LoadOf
    <3>3. \A u \in Threads : (LoadOf(u, j)' <=> LoadOf(u, j)) /\ (LoadOf(u, j) => pc'[u] = pc[u] /\ call'[u] = call[u])
      BY <1>1, <1>6, <3>2 DEF LoadOf
    <3>. QED BY <1>2, <2>1, <3>1, <3>3, SameTable DEF LoadedOnce
  <2>. QED BY <2>2, <2>3
<1>. QED BY <1>5, <1>7 DEF LoadInv

LEMMA UploadFailsLoadInv ==
  ASSUME TInv, LoadInv, NEW t \in Threads, ImportFails(t), pc[t] \in {"upload", "inspect"}
  PROVE  LoadInv'
<1>1. call[t].kind = "inspect"
  BY CallOf, KindOfStep DEF TInv
<1>2. \A u \in Threads : u # t => pc'[u] = pc[u] /\ call'[u] = call[u]
  BY ImportStepMoves, OthersWait DEF TInv, ImportStep
<1>3. call'[t].kind = "none"
  BY DEF ImportFails, Ends, GoesWith, TInv, ThreadsOK, NoCall
<1>4. UNCHANGED <<job, rows, keyed, imported, overwritten, unsure>>
  BY DEF ImportFails, sessions, importTable
<1>5. InspectedOnce'
  <2>1. \A u \in Threads : \A j : /\ InspectOf(u, j)' => InspectOf(u, j)
                                  /\ LoadOf(u, j)' => LoadOf(u, j)
    BY <1>2, <1>3 DEF InspectOf, LoadOf
  <2>. QED BY <1>4, <2>1 DEF LoadInv, InspectedOnce
<1>6. ASSUME NEW j \in Jobs, j \notin unsure PROVE LoadedOnce(j)'
  <2>1. \A u \in Threads : LoadOf(u, j)' <=> LoadOf(u, j)
    BY <1>1, <1>2, <1>3 DEF LoadOf
  <2>2. \A u \in Threads : LoadOf(u, j) => pc'[u] = pc[u] /\ call'[u] = call[u]
    BY <1>1, <1>2 DEF LoadOf
  <2>. QED BY <1>4, <1>6, <2>1, <2>2, SameTable DEF LoadInv, LoadedOnce
<1>. QED BY <1>4, <1>5, <1>6 DEF LoadInv

LEMMA ImportStepLoadInv ==
  ASSUME TInv, LoadInv, NEW t \in Threads, ImportStep(t)
  PROVE  LoadInv'
<1>1. CASE pc[t] \in {"upload", "inspect"}
  <2>1. Upload(t) \/ Inspect(t) \/ ImportFails(t)
    BY <1>1 DEF ImportStep, Validate, DropExisting, CreateReviewed, LoadData, Unlink, Pop, LoadUnanswered
  <2>. QED BY <1>1, <2>1, InspectLoadInv, UploadFailsLoadInv
<1>2. CASE pc[t] \notin {"upload", "inspect"}
  <2>1. ~Upload(t) /\ ~Inspect(t)
    BY <1>2 DEF Upload, Inspect
  <2>. QED BY <1>2, <2>1, LoadTableLoadInv, LoadDataLoadInv, LoadEndLoadInv DEF ImportStep
<1>. QED BY <1>1, <1>2

\* What a request for another page begins with.
LEMMA OtherArrivals ==
  ASSUME TInv, TInv', NEW t \in Threads, Arrives(t)
  PROVE  /\ \A u \in Threads : u # t => pc'[u] = pc[u] /\ call'[u] = call[u]
         /\ call[t].kind = "none"
         /\ ~BeginImport(t) => call'[t].kind \notin {"inspect", "load"} /\ UNCHANGED imports
         /\ ~BeginSave(t) /\ ~BeginDelete(t) => call'[t].kind \notin {"save", "delete"} /\ UNCHANGED profileStore
<1>1. /\ \A u \in Threads : u # t => pc'[u] = pc[u] /\ call'[u] = call[u]
      /\ call[t].kind = "none"
  BY ArrivesMoves, OthersWait DEF TInv, NoCall
<1>2. \A s, c : Begin(t, s, c) => pc'[t] = s
  BY DEF Begin, TInv, ThreadsOK
<1>3. Fits(pc'[t], call'[t])
  BY DEF TInv, ThreadsOK
<1>4. ~BeginImport(t) => pc'[t] \notin ImportSteps
  BY <1>2 DEF Arrives, BeginSave, BeginDelete, BeginArchiveRequest, BeginRetry, BeginArchive,
     BeginDeleteArchived, BeginDropPartitions, BeginReinitialize, BeginLogin, ImportSteps
<1>5. ~BeginSave(t) /\ ~BeginDelete(t) => pc'[t] \notin ProfileSteps
  BY <1>2 DEF Arrives, BeginImport, BeginInspect, BeginLoad, Prepare, Clear, BeginArchiveRequest,
     BeginRetry, BeginArchive, BeginDeleteArchived, BeginDropPartitions, BeginReinitialize, BeginLogin,
     ProfileSteps
<1>6. ~BeginImport(t) => UNCHANGED imports
  BY DEF Arrives, OtherThanProfiles, OtherThanArchive
<1>7. ~BeginSave(t) /\ ~BeginDelete(t) => UNCHANGED profileStore
  BY DEF Arrives, OtherThanImports, OtherThanArchive
<1>. QED BY <1>1, <1>3, <1>4, <1>5, <1>6, <1>7, KindOfStep

LEMMA NextLoadInv ==
  ASSUME TInv, TInv', LoadInv, [ConsoleNext]_consoleVars
  PROVE  LoadInv'
<1>1. ASSUME NEW t \in Threads, Arrives(t) PROVE LoadInv'
  <2>1. CASE BeginImport(t)
    BY <2>1, BeginInspectLoadInv, BeginLoadLoadInv, PrepareLoadInv DEF BeginImport
  <2>2. CASE ~BeginImport(t)
    BY <1>1, <2>2, OtherArrivals, LoadKept
  <2>. QED BY <2>1, <2>2
<1>2. ASSUME NEW t \in Threads, NEW S, pc[t] \in S, S \cap ImportSteps = {}, "idle" \notin ImportSteps,
             \E s \in S \cup {"idle"} : \E c : GoesWith(t, s, c), UNCHANGED imports
      PROVE  LoadInv'
  <2>1. pc'[t] \in S \cup {"idle"}
    BY <1>2 DEF GoesWith, TInv, ThreadsOK
  <2>2. call[t].kind \notin {"inspect", "load"} /\ call'[t].kind \notin {"inspect", "load"}
    <3>1. Fits(pc'[t], call'[t]) /\ Fits(pc[t], call[t])
      BY DEF TInv, ThreadsOK
    <3>. QED BY <1>2, <2>1, <3>1, KindOfStep
  <2>3. \A u \in Threads : u # t => pc'[u] = pc[u] /\ call'[u] = call[u]
    BY <1>2, OthersWait DEF TInv
  <2>. QED BY <1>2, <2>2, <2>3, LoadKept
<1>3. "idle" \notin ImportSteps /\ (ProfileSteps \cap ImportSteps = {}) /\ (ArchiveSteps \cap ImportSteps = {})
  BY DEF ImportSteps, ProfileSteps, ArchiveSteps
<1>4. ASSUME NEW t \in Threads, ProfileStep(t), UNCHANGED OtherThanProfiles PROVE LoadInv'
  BY <1>2, <1>3, <1>4, ProfileStepMoves DEF TInv, OtherThanProfiles
<1>5. ASSUME NEW t \in Threads, ImportStep(t) PROVE LoadInv'
  BY <1>5, ImportStepLoadInv
<1>6. ASSUME NEW t \in Threads, ArchiveStep(t), UNCHANGED OtherThanArchive PROVE LoadInv'
  BY <1>2, <1>3, <1>6, ArchiveStepMoves DEF TInv, OtherThanArchive
<1>7. ASSUME NEW t \in Threads, Connect(t) PROVE LoadInv'
  <2>1. call[t].kind \notin {"inspect", "load"}
    <3>1. pc[t] \notin ImportSteps
      BY <1>7 DEF Connect, ImportSteps
    <3>. QED BY <3>1, CallOf, KindOfStep DEF TInv
  <2>2. call'[t].kind = "none" /\ \A u \in Threads : u # t => pc'[u] = pc[u] /\ call'[u] = call[u]
    BY <1>7 DEF Connect, Ends, GoesWith, TInv, ThreadsOK, NoCall
  <2>3. UNCHANGED <<job, rows, keyed, imported, overwritten, unsure>>
    BY <1>7 DEF Connect, Create, imports, sessions, importTable, importHistory
  <2>4. \A u \in Threads : \A j : (InspectOf(u, j)' <=> InspectOf(u, j)) /\ (LoadOf(u, j)' <=> LoadOf(u, j))
    BY <2>1, <2>2 DEF InspectOf, LoadOf
  <2>5. \A u \in Threads : \A j : LoadOf(u, j) => pc'[u] = pc[u] /\ call'[u] = call[u]
    BY <2>1, <2>2 DEF LoadOf
  <2>6. InspectedOnce'
    BY <2>3, <2>4 DEF LoadInv, InspectedOnce
  <2>7. ASSUME NEW j \in Jobs, j \notin unsure PROVE LoadedOnce(j)'
    BY <2>3, <2>4, <2>5, <2>7, SameTable DEF LoadInv, LoadedOnce
  <2>. QED BY <2>3, <2>6, <2>7 DEF LoadInv
<1>8. ASSUME NEW m \in Messages, Execute(m), UNCHANGED OtherThanArchive PROVE LoadInv'
  <2>1. UNCHANGED <<pc, call>> /\ UNCHANGED imports
    BY <1>8 DEF Execute, threads, OtherThanArchive
  <2>. QED BY <2>1, LoadKept
<1>9. CASE Crash
  <2>1. \A u \in Threads : call'[u].kind = "none"
    BY <1>9 DEF Crash, ProcessEnds, NoCall
  <2>2. UNCHANGED <<rows, keyed, imported, overwritten>> /\ unsure' = unsure \cup {j \in Jobs : Loading(j)}
    BY <1>9 DEF Crash, SessionsEnd, importTable
  <2>3. \A j \in Jobs : job[j].state = "gone" => job'[j].state = "gone"
    BY <1>9, ImportTypes DEF Crash, SessionsEnd, Cleared, JobsOf, TInv
  <2>4. InspectedOnce'
    BY <2>1 DEF InspectedOnce, InspectOf, LoadOf
  <2>5. ASSUME NEW j \in Jobs, j \notin unsure' PROVE LoadedOnce(j)'
    <3>1. LoadedOnce(j) /\ \A u \in Threads : ~LoadOf(u, j)
      BY <2>2, <2>5 DEF LoadInv, Loading, LoadOf
    <3>. QED BY <2>1, <2>2, <2>3, <3>1, SameTable DEF LoadedOnce, LoadOf
  <2>. QED BY <2>4, <2>5 DEF LoadInv
<1>10. CASE UNCHANGED consoleVars
  <2>1. UNCHANGED <<pc, call>> /\ UNCHANGED imports
    BY <1>10 DEF consoleVars, threads
  <2>. QED BY <2>1, LoadKept
<1>. QED BY <1>1, <1>4, <1>5, <1>6, <1>7, <1>8, <1>9, <1>10, StepCases

(* For every job that was not submitted twice at once nor answered by an     *)
(* error after its commit: the table has no row of its file twice, and it    *)
(* has every row of the file, or another of its key that LOAD DATA kept, if  *)
(* the import was reported as done and no other import dropped the table.    *)
THEOREM SpecImportedOnce == ConsoleSpec => []ImportedOnce
<1>1. ConsoleInit => LoadInv
  BY InitLoadInv
<1>2. TInv /\ TInv' /\ LoadInv /\ [ConsoleNext]_consoleVars => LoadInv'
  BY NextLoadInv
<1>3. LoadInv => ImportedOnce
  BY LoadInvImpliesImportedOnce
<1>. QED BY <1>1, <1>2, <1>3, SpecTInv, PTL DEF ConsoleSpec

-----------------------------------------------------------------------------
(* The key of every SSH profile is stored.                                 *)

Calm == OwnFolders /\ ~overlapped /\ ~renamed

Changes(t) == call[t].kind \in {"save", "delete"}
KeyFor(mode, n) == IF mode = "ssh" THEN KeyOf[n] ELSE NoKey

\* Every SSH profile of p has the key of its own name, and the key is stored.
Stored(p) ==
  \A n \in Names : /\ p[n].key = KeyFor(p[n].mode, n)
                   /\ p[n].mode = "ssh" => p[n].key \in keyFiles

Unused(p, key) == \A n \in Names : p[n].mode = "ssh" => p[n].key # key

\* What the request of a change knows is true of the profiles: the key it will
\* give, and the key it will remove, which no profile uses that it writes.
ChangeOK(t) ==
  /\ pc[t] \in {"check", "storeKey", "list"} /\ call[t].kind = "save" /\ call[t].upload => call[t].mode = "ssh"
  /\ pc[t] = "storeKey" =>
       /\ call[t].stale = profiles[call[t].original].key
       /\ call[t].key = IF call[t].mode = "ssh" THEN call[t].stale ELSE NoKey
  /\ pc[t] = "list" =>
       /\ call[t].stale = profiles[call[t].original].key
       /\ call[t].key = KeyFor(call[t].mode, call[t].name)
       /\ call[t].mode = "ssh" => call[t].key \in keyFiles
  /\ pc[t] \in {"write", "replace"} =>
       \A p \in call[t].content : Stored(p) /\ (call[t].stale # call[t].key => Unused(p, call[t].stale))
  /\ pc[t] = "replace" => temporary = call[t].content
  /\ pc[t] = "prune" /\ call[t].stale # call[t].key => Unused(profiles, call[t].stale)

\* One change at a time.
KeysOK ==
  /\ \A t, u \in Threads : Changes(t) /\ Changes(u) => t = u
  /\ Stored(profiles)
  /\ \A t \in Threads : Changes(t) => ChangeOK(t)

KeysInv == Calm => KeysOK

LEMMA KeysOfNames ==
  ASSUME NEW n \in Names
  PROVE  /\ KeyOf[n] \in Keys /\ KeyOf[n] # NoKey
         /\ Absent.mode = "none" /\ Absent.key = NoKey
         /\ \A mode, key : Profile(mode, key).mode = mode /\ Profile(mode, key).key = key
BY ProfileAssumption DEF Absent, Profile

LEMMA InitKeysInv ==
  ASSUME ConsoleInit
  PROVE  KeysInv
<1>1. \A t \in Threads : ~Changes(t)
  BY DEF ConsoleInit, InitThreads, NoCall, Changes
<1>2. Stored(profiles)
  <2>1. \A n \in Names : profiles[n].key = KeyFor(profiles[n].mode, n)
    BY ProfileAssumption DEF ConsoleInit, InitProfiles, KeyFor
  <2>2. \A n \in Names : profiles[n].mode = "ssh" => profiles[n].key # NoKey
    BY <2>1, KeysOfNames DEF KeyFor
  <2>. QED BY <2>1, <2>2 DEF ConsoleInit, InitProfiles, Stored
<1>. QED BY <1>1, <1>2 DEF KeysInv, KeysOK

\* Requests for other pages do not matter.
LEMMA KeysKept ==
  ASSUME KeysInv, UNCHANGED profileStore,
         \A u \in Threads : \/ pc'[u] = pc[u] /\ call'[u] = call[u]
                            \/ call[u].kind \notin {"save", "delete"} /\ call'[u].kind \notin {"save", "delete"}
  PROVE  KeysInv'
<1>1. UNCHANGED <<profiles, temporary, keyFiles, overlapped, renamed>>
  BY DEF profileStore, store, profileHistory
<1>2. Calm' => Calm
  BY <1>1 DEF Calm
<1>3. \A u \in Threads : Changes(u)' => Changes(u) /\ pc'[u] = pc[u] /\ call'[u] = call[u]
  BY DEF Changes
<1>4. ASSUME KeysOK PROVE KeysOK'
  <2>1. Stored(profiles)'
    BY <1>1, <1>4 DEF KeysOK, Stored
  <2>2. ASSUME NEW u \in Threads, Changes(u)' PROVE ChangeOK(u)'
    BY <1>1, <1>3, <1>4, <2>2 DEF KeysOK, ChangeOK, Stored, Unused
  <2>. QED BY <1>3, <1>4, <2>1, <2>2 DEF KeysOK
<1>. QED BY <1>2, <1>4 DEF KeysInv

LEMMA BeginChangeKeys ==
  ASSUME TInv, KeysInv, NEW t \in Threads, BeginSave(t) \/ BeginDelete(t)
  PROVE  KeysInv'
<1>1. PICK c : /\ pc'[t] = "check" /\ call'[t] = c /\ c.kind \in {"save", "delete"}
               /\ c.kind = "save" /\ c.upload => c.mode = "ssh"
  BY DEF BeginSave, BeginDelete, Begin, TInv, ThreadsOK
<1>2. \A u \in Threads : u # t => pc'[u] = pc[u] /\ call'[u] = call[u]
  BY DEF BeginSave, BeginDelete, Begin, TInv, ThreadsOK
<1>3. UNCHANGED <<profiles, temporary, keyFiles, renamed>> /\ overlapped' = (overlapped \/ Changing)
  BY DEF BeginSave, BeginDelete, store
<1>4. ASSUME Calm' PROVE KeysOK'
  <2>1. KeysOK /\ \A u \in Threads : ~Changes(u)
    BY <1>3, <1>4 DEF Calm, KeysInv, Changing, Changes
  <2>2. \A u \in Threads : Changes(u)' => u = t
    BY <1>2, <2>1 DEF Changes
  <2>3. Stored(profiles)'
    BY <1>3, <2>1 DEF KeysOK, Stored
  <2>4. ChangeOK(t)'
    BY <1>1 DEF ChangeOK
  <2>. QED BY <2>2, <2>3, <2>4 DEF KeysOK
<1>. QED BY <1>4 DEF KeysInv

\* A change takes a step, and the invariant is left to show for it alone.
LEMMA ChangeStep ==
  ASSUME TInv, NEW t \in Threads, ProfileStep(t), KeysInv, Calm'
  PROVE  /\ KeysOK /\ OwnFolders /\ ~renamed /\ Changes(t) /\ ChangeOK(t)
         /\ \A u \in Threads : Changes(u)' => u = t
         /\ overlapped' = overlapped
<1>1. UNCHANGED overlapped /\ (~renamed' => ~renamed)
  <2>1. CASE StoreKey(t)
    <3>1. overlapped' = overlapped /\ \E b : renamed' = (renamed \/ b)
      BY <2>1, Zenon DEF StoreKey
    <3>. QED BY <3>1, Zenon
  <2>2. CASE ~StoreKey(t)
    BY <2>2 DEF ProfileStep, Check, List, FindProfile, WriteTemporary, Replace, Prune, SaveFails,
       profileStore, profileHistory
  <2>. QED BY <2>1, <2>2
<1>2. Calm /\ KeysOK
  BY <1>1 DEF Calm, KeysInv
<1>3. Changes(t)
  BY ProfileStepMoves, CallOf, KindOfStep DEF TInv, Changes
<1>4. \A u \in Threads : u # t => call'[u] = call[u]
  BY ProfileStepMoves, OthersWait DEF TInv
<1>5. \A u \in Threads : Changes(u)' => u = t
  BY <1>2, <1>3, <1>4 DEF KeysOK, Changes
<1>. QED BY <1>1, <1>2, <1>3, <1>5 DEF Calm, KeysOK

LEMMA ChangeKeys ==
  ASSUME TInv, NEW t \in Threads, ProfileStep(t), KeysInv,
         Calm' => Stored(profiles)' /\ (Changes(t)' => ChangeOK(t)')
  PROVE  KeysInv'
<1>1. ASSUME Calm' PROVE KeysOK'
  BY <1>1, ChangeStep DEF KeysOK
<1>. QED BY <1>1 DEF KeysInv

LEMMA CheckKeys ==
  ASSUME TInv, KeysInv, NEW t \in Threads, Check(t), Calm'
  PROVE  Stored(profiles)' /\ (Changes(t)' => ChangeOK(t)')
<1>0. ProfileStep(t)
  BY DEF ProfileStep
<1>1. PICK c \in SaveCalls : c = call[t]
  BY CallOf, KindOfCall DEF TInv, Check
<1>2. c.upload => c.mode = "ssh"
  BY <1>0, <1>1, ChangeStep, SaveFields DEF ChangeOK, Check
<1>3. UNCHANGED <<profiles, temporary, keyFiles>>
  BY DEF Check, profileStore, store
<1>4. Stored(profiles)'
  BY <1>0, <1>3, ChangeStep DEF KeysOK, Stored
<1>5. CASE Ends(t)
  <2>1. ~Changes(t)'
    BY <1>5 DEF Ends, GoesWith, TInv, ThreadsOK, NoCall, Changes
  <2>. QED BY <1>4, <2>1
<1>6. CASE ~Ends(t)
  <2>1. PICK k, d : /\ d = profiles[c.original].key /\ k = IF c.mode = "ssh" THEN d ELSE NoKey
                    /\ GoesWith(t, "storeKey", [c EXCEPT !.key = k, !.stale = d])
    BY <1>1, <1>6 DEF Check
  <2>2. pc'[t] = "storeKey" /\ call'[t] = [c EXCEPT !.key = k, !.stale = d]
    BY <2>1 DEF GoesWith, TInv, ThreadsOK
  <2>3. call'[t].stale = d /\ call'[t].key = k /\ call'[t].mode = c.mode /\ call'[t].upload = c.upload
        /\ call'[t].original = c.original
    BY <2>2 DEF SaveCalls
  <2>. QED BY <1>2, <1>3, <1>4, <2>1, <2>2, <2>3 DEF ChangeOK
<1>. QED BY <1>5, <1>6

LEMMA StoreKeyKeys ==
  ASSUME TInv, KeysInv, NEW t \in Threads, StoreKey(t), Calm'
  PROVE  Stored(profiles)' /\ (Changes(t)' => ChangeOK(t)')
<1>0. ProfileStep(t)
  BY DEF ProfileStep
<1>1. PICK c \in SaveCalls : c = call[t]
  BY CallOf, KindOfCall DEF TInv, StoreKey
<1>2. /\ c.upload => c.mode = "ssh"
      /\ c.stale = profiles[c.original].key
      /\ c.key = IF c.mode = "ssh" THEN c.stale ELSE NoKey
  BY <1>0, <1>1, ChangeStep, SaveFields DEF ChangeOK, StoreKey
<1>3. UNCHANGED <<profiles, temporary>> /\ keyFiles \subseteq keyFiles'
  BY DEF StoreKey
<1>4. Stored(profiles)'
  BY <1>0, <1>3, ChangeStep DEF KeysOK, Stored
<1>5. CASE Ends(t)
  <2>1. ~Changes(t)'
    BY <1>5 DEF Ends, GoesWith, TInv, ThreadsOK, NoCall, Changes
  <2>. QED BY <1>4, <2>1
<1>6. CASE ~Ends(t)
  <2>1. PICK k : /\ k = IF c.upload THEN KeyOf[c.name] ELSE c.key
                 /\ renamed' = (renamed \/ k \notin {KeyOf[c.name], NoKey})
                 /\ ~(c.mode = "ssh" /\ k \notin keyFiles')
                 /\ GoesWith(t, "list", [c EXCEPT !.key = k])
    BY <1>1, <1>6 DEF StoreKey
  <2>2. pc'[t] = "list" /\ call'[t] = [c EXCEPT !.key = k]
    BY <2>1 DEF GoesWith, TInv, ThreadsOK
  <2>3. /\ call'[t].stale = c.stale /\ call'[t].key = k /\ call'[t].mode = c.mode
        /\ call'[t].upload = c.upload /\ call'[t].original = c.original /\ call'[t].name = c.name
        /\ c.name \in Names
    BY <2>2 DEF SaveCalls
  <2>4. k \in {KeyOf[c.name], NoKey}
    BY <2>1 DEF Calm
  <2>5. keyFiles' \subseteq Keys
    <3>1. keyFiles \subseteq Keys
      BY DEF TInv, ProfileTypeOK
    <3>. QED BY <1>1, <2>3, <3>1, KeysOfNames DEF StoreKey
  <2>6. k = KeyFor(c.mode, c.name)
    <3>1. c.mode = "ssh" => k # NoKey
      BY <2>1, <2>5, ProfileAssumption
    <3>. QED BY <1>2, <2>1, <2>4, <3>1 DEF KeyFor
  <2>. QED BY <1>2, <1>3, <1>4, <2>1, <2>2, <2>3, <2>6 DEF ChangeOK
<1>. QED BY <1>5, <1>6

\* The key of a profile is unused without it.
LEMMA OwnKeyUnused ==
  ASSUME profiles \in Profiles, Stored(profiles), OwnFolders, NEW o \in Names,
         NEW p, \A m \in Names : p[m].mode = "ssh" => \/ p[m] = profiles[m] /\ m # o
                                                      \/ p[m].key # profiles[o].key
  PROVE  Unused(p, profiles[o].key)
<1>1. SUFFICES ASSUME NEW m \in Names, p[m].mode = "ssh", p[m] = profiles[m], m # o
               PROVE  p[m].key # profiles[o].key
  BY DEF Unused
<1>2. p[m].key = KeyOf[m] /\ profiles[o].key \in {KeyOf[o], NoKey}
  BY <1>1 DEF Stored, KeyFor
<1>3. KeyOf[m] # KeyOf[o] /\ KeyOf[m] # NoKey
  BY <1>1, KeysOfNames DEF OwnFolders
<1>. QED BY <1>2, <1>3

LEMMA ListKeys ==
  ASSUME TInv, KeysInv, NEW t \in Threads, List(t), Calm'
  PROVE  Stored(profiles)' /\ (Changes(t)' => ChangeOK(t)')
<1>0. ProfileStep(t)
  BY DEF ProfileStep
<1>1. PICK c \in SaveCalls : c = call[t]
  BY CallOf, KindOfCall DEF TInv, List
<1>2. /\ c.stale = profiles[c.original].key
      /\ c.key = KeyFor(c.mode, c.name)
      /\ c.mode = "ssh" => c.key \in keyFiles
      /\ c.name \in Names /\ c.original \in Names
  BY <1>0, <1>1, ChangeStep, SaveFields DEF ChangeOK, List
<1>3. UNCHANGED <<profiles, temporary, keyFiles>>
  BY DEF List, profileStore, store
<1>4. Stored(profiles) /\ Stored(profiles)' /\ OwnFolders
  BY <1>0, <1>3, ChangeStep DEF KeysOK, Stored
<1>5. PICK n : /\ n = [[profiles EXCEPT ![c.original] = Absent] EXCEPT ![c.name] = Profile(c.mode, c.key)]
               /\ GoesWith(t, "write", [c EXCEPT !.content = {n}])
  BY <1>1 DEF List
<1>6. pc'[t] = "write" /\ call'[t] = [c EXCEPT !.content = {n}]
  BY <1>5 DEF GoesWith, TInv, ThreadsOK
<1>7. call'[t].content = {n} /\ call'[t].stale = c.stale /\ call'[t].key = c.key
  BY <1>6 DEF SaveCalls
<1>8. profiles \in Profiles
  BY DEF TInv, ProfileTypeOK
<1>9. \A m \in Names : n[m] = IF m = c.name THEN Profile(c.mode, c.key)
                              ELSE IF m = c.original THEN Absent ELSE profiles[m]
  BY <1>2, <1>5, <1>8 DEF Profiles
<1>10. Stored(n)
  BY <1>2, <1>4, <1>9, KeysOfNames DEF Stored, KeyFor
<1>11. c.stale # c.key => Unused(n, c.stale)
  <2>1. SUFFICES ASSUME c.stale # c.key PROVE Unused(n, profiles[c.original].key)
    BY <1>2
  <2>2. \A m \in Names : n[m].mode = "ssh" => \/ n[m] = profiles[m] /\ m # c.original
                                              \/ n[m].key # profiles[c.original].key
    BY <1>2, <1>9, <2>1, KeysOfNames
  <2>. QED BY <1>2, <1>4, <1>8, <2>2, OwnKeyUnused
<1>12. Stored(n)'
  BY <1>3, <1>10 DEF Stored
<1>. QED BY <1>4, <1>6, <1>7, <1>11, <1>12 DEF ChangeOK, Unused

LEMMA FindProfileKeys ==
  ASSUME TInv, KeysInv, NEW t \in Threads, FindProfile(t), Calm'
  PROVE  Stored(profiles)' /\ (Changes(t)' => ChangeOK(t)')
<1>0. ProfileStep(t)
  BY DEF ProfileStep
<1>1. PICK c \in DeleteCalls : c = call[t]
  BY CallOf, KindOfCall DEF TInv, FindProfile
<1>2. c.name \in Names /\ c.kind = "delete"
  BY DEF DeleteCalls
<1>3. UNCHANGED <<profiles, temporary, keyFiles>>
  BY DEF FindProfile, profileStore, store
<1>4. Stored(profiles) /\ Stored(profiles)' /\ OwnFolders
  BY <1>0, <1>3, ChangeStep DEF KeysOK, Stored
<1>5. CASE Ends(t)
  <2>1. ~Changes(t)'
    BY <1>5 DEF Ends, GoesWith, TInv, ThreadsOK, NoCall, Changes
  <2>. QED BY <1>4, <2>1
<1>6. CASE ~Ends(t)
  <2>1. PICK d, n : /\ d = profiles[c.name].key /\ n = [profiles EXCEPT ![c.name] = Absent]
                    /\ GoesWith(t, "write", [c EXCEPT !.stale = d, !.content = {n}])
    BY <1>1, <1>6 DEF FindProfile
  <2>2. pc'[t] = "write" /\ call'[t] = [c EXCEPT !.stale = d, !.content = {n}]
    BY <2>1 DEF GoesWith, TInv, ThreadsOK
  <2>3. call'[t].content = {n} /\ call'[t].stale = d /\ call'[t].kind = "delete"
    BY <2>2 DEF DeleteCalls
  <2>4. profiles \in Profiles
    BY DEF TInv, ProfileTypeOK
  <2>5. \A m \in Names : n[m] = IF m = c.name THEN Absent ELSE profiles[m]
    BY <1>2, <2>1, <2>4 DEF Profiles
  <2>6. Stored(n)
    BY <1>2, <1>4, <2>5, KeysOfNames DEF Stored, KeyFor
  <2>7. Unused(n, profiles[c.name].key)
    <3>1. \A m \in Names : n[m].mode = "ssh" => n[m] = profiles[m] /\ m # c.name
      BY <1>2, <2>5, KeysOfNames
    <3>. QED BY <1>2, <1>4, <2>4, <3>1, OwnKeyUnused
  <2>8. Stored(n)'
    BY <1>3, <2>6 DEF Stored
  <2>. QED BY <1>4, <2>1, <2>2, <2>3, <2>7, <2>8 DEF ChangeOK, Unused
<1>. QED BY <1>5, <1>6

LEMMA ReplaceKeys ==
  ASSUME TInv, KeysInv, NEW t \in Threads, WriteTemporary(t) \/ Replace(t) \/ Prune(t) \/ SaveFails(t), Calm'
  PROVE  Stored(profiles)' /\ (Changes(t)' => ChangeOK(t)')
<1>0. ProfileStep(t)
  BY DEF ProfileStep
<1>1. Stored(profiles) /\ ChangeOK(t)
  BY <1>0, ChangeStep DEF KeysOK
<1>2. Ends(t) => ~Changes(t)'
  BY DEF Ends, GoesWith, TInv, ThreadsOK, NoCall, Changes
<1>3. CASE WriteTemporary(t)
  <2>1. /\ pc[t] = "write" /\ pc'[t] = "replace" /\ call'[t] = call[t] /\ temporary' = call[t].content
        /\ UNCHANGED <<profiles, keyFiles>>
    BY <1>3 DEF WriteTemporary, Goes, TInv, ThreadsOK
  <2>2. Stored(profiles)'
    BY <1>1, <2>1 DEF Stored
  <2>. QED BY <1>1, <2>1, <2>2 DEF ChangeOK, Stored, Unused
<1>4. CASE Replace(t)
  <2>1. pc[t] = "replace" /\ keyFiles' = keyFiles /\ temporary = call[t].content
    BY <1>1, <1>4 DEF Replace, ChangeOK
  <2>2. CASE temporary = {}
    BY <1>1, <1>2, <1>4, <2>1, <2>2 DEF Replace, Stored
  <2>3. CASE temporary # {}
    <3>1. /\ profiles' \in call[t].content /\ pc'[t] = "prune" /\ call'[t] = call[t]
      BY <1>4, <2>1, <2>3 DEF Replace, Goes, TInv, ThreadsOK
    <3>2. PICK p \in call[t].content : p = profiles'
      BY <3>1
    <3>3. Stored(p) /\ (call[t].stale # call[t].key => Unused(p, call[t].stale))
      BY <1>1, <2>1 DEF ChangeOK
    <3>4. Stored(profiles)'
      BY <2>1, <3>2, <3>3 DEF Stored
    <3>. QED BY <3>1, <3>2, <3>3, <3>4 DEF ChangeOK, Unused
  <2>. QED BY <2>2, <2>3
<1>5. CASE Prune(t)
  <2>1. ~Changes(t)' /\ pc[t] = "prune" /\ profiles' = profiles
    BY <1>2, <1>5 DEF Prune
  <2>2. Stored(profiles)'
    <3>1. CASE call[t].stale = call[t].key
      BY <1>1, <1>5, <2>1, <3>1 DEF Prune, Stored
    <3>2. CASE call[t].stale # call[t].key
      <4>1. Unused(profiles, call[t].stale) /\ keyFiles' = keyFiles \ {call[t].stale}
        BY <1>1, <1>5, <2>1, <3>2 DEF Prune, ChangeOK
      <4>. QED BY <1>1, <2>1, <4>1 DEF Stored, Unused
    <3>. QED BY <3>1, <3>2
  <2>. QED BY <2>1, <2>2
<1>6. CASE SaveFails(t)
  BY <1>1, <1>2, <1>6 DEF SaveFails, Stored, profileStore, store
<1>. QED BY <1>3, <1>4, <1>5, <1>6

LEMMA NextKeysInv ==
  ASSUME TInv, TInv', KeysInv, [ConsoleNext]_consoleVars
  PROVE  KeysInv'
<1>1. ASSUME NEW t \in Threads, Arrives(t) PROVE KeysInv'
  <2>1. CASE BeginSave(t) \/ BeginDelete(t)
    BY <2>1, BeginChangeKeys
  <2>2. CASE ~BeginSave(t) /\ ~BeginDelete(t)
    BY <1>1, <2>2, OtherArrivals, KeysKept
  <2>. QED BY <2>1, <2>2
<1>2. ASSUME NEW t \in Threads, NEW S, pc[t] \in S, S \cap ProfileSteps = {}, "idle" \notin ProfileSteps,
             \E s \in S \cup {"idle"} : \E c : GoesWith(t, s, c), UNCHANGED profileStore
      PROVE  KeysInv'
  <2>1. pc'[t] \in S \cup {"idle"}
    BY <1>2 DEF GoesWith, TInv, ThreadsOK
  <2>2. call[t].kind \notin {"save", "delete"} /\ call'[t].kind \notin {"save", "delete"}
    <3>1. Fits(pc'[t], call'[t]) /\ Fits(pc[t], call[t])
      BY DEF TInv, ThreadsOK
    <3>. QED BY <1>2, <2>1, <3>1, KindOfStep
  <2>3. \A u \in Threads : u # t => pc'[u] = pc[u] /\ call'[u] = call[u]
    BY <1>2, OthersWait DEF TInv
  <2>. QED BY <1>2, <2>2, <2>3, KeysKept
<1>3. /\ "idle" \notin ProfileSteps /\ "connect" \notin ProfileSteps
      /\ ImportSteps \cap ProfileSteps = {} /\ ArchiveSteps \cap ProfileSteps = {}
  BY DEF ImportSteps, ProfileSteps, ArchiveSteps
<1>4. ASSUME NEW t \in Threads, ProfileStep(t) PROVE KeysInv'
  <2>1. Calm' => Stored(profiles)' /\ (Changes(t)' => ChangeOK(t)')
    BY <1>4, CheckKeys, StoreKeyKeys, ListKeys, FindProfileKeys, ReplaceKeys DEF ProfileStep
  <2>. QED BY <1>4, <2>1, ChangeKeys
<1>5. ASSUME NEW t \in Threads, ImportStep(t), UNCHANGED OtherThanImports PROVE KeysInv'
  BY <1>2, <1>3, <1>5, ImportStepMoves DEF TInv, OtherThanImports
<1>6. ASSUME NEW t \in Threads, ArchiveStep(t), UNCHANGED OtherThanArchive PROVE KeysInv'
  BY <1>2, <1>3, <1>6, ArchiveStepMoves DEF TInv, OtherThanArchive
<1>7. ASSUME NEW t \in Threads, Connect(t) PROVE KeysInv'
  <2>1. pc[t] \in {"connect"} /\ {"connect"} \cap ProfileSteps = {} /\ GoesWith(t, "idle", NoCall)
        /\ UNCHANGED profileStore
    BY <1>3, <1>7 DEF Connect, Ends
  <2>. QED BY <1>2, <1>3, <2>1
<1>8. ASSUME NEW m \in Messages, Execute(m), UNCHANGED OtherThanArchive PROVE KeysInv'
  <2>1. UNCHANGED <<pc, call>> /\ UNCHANGED profileStore
    BY <1>8 DEF Execute, threads, OtherThanArchive
  <2>. QED BY <2>1, KeysKept
<1>9. CASE Crash
  <2>1. \A u \in Threads : ~Changes(u)'
    BY <1>9 DEF Crash, ProcessEnds, NoCall, Changes
  <2>2. UNCHANGED <<profiles, keyFiles, overlapped, renamed>>
    BY <1>9 DEF Crash, OtherThanImports, profileStore, store, profileHistory
  <2>. QED BY <2>1, <2>2 DEF KeysInv, Calm, KeysOK, Stored
<1>10. CASE UNCHANGED consoleVars
  <2>1. UNCHANGED <<pc, call>> /\ UNCHANGED profileStore
    BY <1>10 DEF consoleVars, threads
  <2>. QED BY <2>1, KeysKept
<1>. QED BY <1>1, <1>4, <1>5, <1>6, <1>7, <1>8, <1>9, <1>10, StepCases

(* Where names have folders of their own and no profile kept the folder of   *)
(* its former name, changes that do not overlap leave every SSH profile with *)
(* its key, whatever file operation raises and wherever the process ends.    *)
THEOREM SpecKeysStored == ConsoleSpec => []KeysStored
<1>1. ConsoleInit => KeysInv
  BY InitKeysInv
<1>2. TInv /\ TInv' /\ KeysInv /\ [ConsoleNext]_consoleVars => KeysInv'
  BY NextKeysInv
<1>3. KeysInv => KeysStored
  BY DEF KeysInv, Calm, KeysOK, Stored, KeysStored
<1>. QED BY <1>1, <1>2, <1>3, SpecTInv, PTL DEF ConsoleSpec
=============================================================================
