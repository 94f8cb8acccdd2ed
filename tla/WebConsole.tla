----------------------------- MODULE WebConsole -----------------------------
(***************************************************************************)
(* The web process as a whole: the pages for connection profiles, imports  *)
(* and durable messages, which the same threads serve, the sign-in that    *)
(* every page but the creation of a profile needs, and the end of the      *)
(* process, which takes the sessions and nothing else.                     *)
(***************************************************************************)
EXTENDS ProfileStore, TableImport, ArchiveRegistry

consoleVars == <<profileStore, imports, archive, threads, limits>>

ConsoleInit == InitThreads /\ InitProfiles /\ InitImport /\ InitArchive

-----------------------------------------------------------------------------
(* login *)
BeginLogin(t) ==
  \E n \in Names :
    /\ profiles[n] # Absent
    /\ Begin(t, "connect", [kind |-> "login", profile |-> profiles[n]])

\* The tunnel needs the key, and the database has to answer.
Connect(t) ==
  /\ pc[t] = "connect"
  /\ \/ /\ call[t].profile.mode = "ssh" => call[t].profile.key \in keyFiles
        /\ \E s \in Sessions : Create(s)
     \/ UNCHANGED imports
  /\ Ends(t)
  /\ UNCHANGED <<profileStore, archive, limits>>

-----------------------------------------------------------------------------
Authenticated == \E s \in Sessions : Live(s)

OtherThanProfiles == <<imports, archive>>
OtherThanImports == <<profileStore, archive>>
OtherThanArchive == <<profileStore, imports>>

\* A request passes login_required, or creates a profile or a session.
Arrives(t) ==
  \/ BeginSave(t) /\ (call'[t].createOnly \/ Authenticated) /\ UNCHANGED OtherThanProfiles
  \/ Authenticated /\ BeginDelete(t) /\ UNCHANGED OtherThanProfiles
  \/ BeginImport(t) /\ UNCHANGED OtherThanImports
  \/ Authenticated /\ BeginArchiveRequest(t) /\ UNCHANGED <<archive, OtherThanArchive>>
  \/ BeginLogin(t) /\ UNCHANGED <<archive, OtherThanArchive>>

Serves(t) ==
  \/ ProfileStep(t) /\ UNCHANGED OtherThanProfiles
  \/ ImportStep(t) /\ UNCHANGED OtherThanImports
  \/ ArchiveStep(t) /\ UNCHANGED OtherThanArchive
  \/ Connect(t)

Crash == ProcessEnds /\ SessionsEnd /\ UNCHANGED OtherThanImports

ConsoleNext ==
  \/ \E t \in Threads : Arrives(t) \/ Serves(t)
  \/ \E m \in Messages : Execute(m) /\ UNCHANGED OtherThanArchive
  \/ Crash

ConsoleSpec == ConsoleInit /\ [][ConsoleNext]_consoleVars

-----------------------------------------------------------------------------
Steps ==
  {"idle", "connect", "check", "storeKey", "list", "write", "replace", "prune"}
  \cup ImportSteps \cup ArchiveSteps

(* The variables have their types, and no table has rows that does not exist. *)
ConsoleTypeOK ==
  /\ pc \in [Threads -> Steps]
  /\ \A t \in Threads : pc[t] = "idle" <=> call[t] = NoCall
  /\ requests \in 0..MaxRequests /\ faults \in 0..MaxFaults
  /\ ProfileTypeOK /\ ImportTypeOK /\ ArchiveTypeOK
=============================================================================
