---------------------------- MODULE ProfileStore ----------------------------
(***************************************************************************)
(* Connection profiles: ProfileStore of profile_store.py and the requests  *)
(* of profile_routes.py.  Every change reads the whole JSON file, writes   *)
(* the new content to one temporary file that all threads share, and       *)
(* renames it; the private keys of SSH profiles are files of their own.    *)
(* Writing a file once it is open is one step.                             *)
(***************************************************************************)
EXTENDS Requests

CONSTANTS
  Names,   \* profile names
  Keys,    \* folders of private keys
  KeyOf,   \* the folder a name is given: the name in lower case
  NoKey,   \* stands for a profile without ssh_key_id
  InitialProfiles \* the profiles at first

Profile(mode, key) == [mode |-> mode, key |-> key]
Absent == Profile("none", NoKey)
Profiles == [Names -> [mode : {"none", "direct", "ssh"}, key : Keys \cup {NoKey}]]

ASSUME ProfileAssumption ==
  /\ KeyOf \in [Names -> Keys] /\ NoKey \notin Keys
  /\ InitialProfiles \in Profiles
  /\ \A n \in Names :
       InitialProfiles[n].key = IF InitialProfiles[n].mode = "ssh" THEN KeyOf[n] ELSE NoKey

VARIABLES
  profiles,   \* connection profiles: mode and key of each name
  temporary,  \* the temporary file: its content, in a set, or nothing
  keyFiles,   \* folders that hold a private key
  overlapped, \* history: a change began while another one was under way
  renamed     \* history: a profile kept the key of its former name

store == <<profiles, temporary, keyFiles>>
profileHistory == <<overlapped, renamed>>
profileStore == <<store, profileHistory>>

InitProfiles ==
  /\ profiles = InitialProfiles
  /\ temporary = {}
  /\ keyFiles = {profiles[n].key : n \in Names} \ {NoKey}
  /\ overlapped = FALSE /\ renamed = FALSE

Changing == \E t \in Threads : call[t].kind \in {"save", "delete"}

-----------------------------------------------------------------------------
(* save: `original' is the name the form was opened with, and the new name   *)
(* itself where the form has none.                                           *)
BeginSave(t) ==
  \E name, original \in Names, mode \in {"direct", "ssh"}, upload, createOnly \in BOOLEAN :
    /\ createOnly => original = name
    /\ upload => mode = "ssh"
    /\ overlapped' = (overlapped \/ Changing)
    /\ Begin(t, "check", [kind |-> "save", name |-> name, original |-> original, mode |-> mode,
                          upload |-> upload, createOnly |-> createOnly, key |-> NoKey,
                          stale |-> NoKey, content |-> {}])
    /\ UNCHANGED <<store, renamed>>

\* The name may be taken; the previous profile may have a key.
Check(t) ==
  /\ pc[t] = "check" /\ call[t].kind = "save"
  /\ LET previous == profiles[call[t].original]
         key == IF call[t].mode = "ssh" THEN previous.key ELSE NoKey
     IN IF call[t].createOnly /\ profiles[call[t].name] # Absent THEN Ends(t)
        ELSE GoesWith(t, "storeKey", [call[t] EXCEPT !.key = key, !.stale = previous.key])
  /\ UNCHANGED <<profileStore, limits>>

\* An uploaded key goes to the folder of the new name.  An SSH profile without
\* a key file is refused.
StoreKey(t) ==
  /\ pc[t] = "storeKey"
  /\ LET folder == KeyOf[call[t].name]
         key == IF call[t].upload THEN folder ELSE call[t].key
     IN /\ keyFiles' = IF call[t].upload THEN keyFiles \cup {folder} ELSE keyFiles
        /\ renamed' = (renamed \/ key \notin {folder, NoKey})
        /\ IF call[t].mode = "ssh" /\ key \notin keyFiles' THEN Ends(t)
           ELSE GoesWith(t, "list", [call[t] EXCEPT !.key = key])
  /\ UNCHANGED <<profiles, temporary, overlapped, limits>>

List(t) ==
  /\ pc[t] = "list"
  /\ LET cleaned == Profile(call[t].mode, call[t].key)
         kept == [profiles EXCEPT ![call[t].original] = Absent]
     IN GoesWith(t, "write", [call[t] EXCEPT !.content = {[kept EXCEPT ![call[t].name] = cleaned]}])
  /\ UNCHANGED <<profileStore, limits>>

-----------------------------------------------------------------------------
(* delete *)
BeginDelete(t) ==
  \E name \in Names :
    /\ overlapped' = (overlapped \/ Changing)
    /\ Begin(t, "check", [kind |-> "delete", name |-> name, key |-> NoKey, stale |-> NoKey,
                          content |-> {}])
    /\ UNCHANGED <<store, renamed>>

FindProfile(t) ==
  /\ pc[t] = "check" /\ call[t].kind = "delete"
  /\ LET name == call[t].name
     IN IF profiles[name] = Absent THEN Ends(t)
        ELSE GoesWith(t, "write", [call[t] EXCEPT !.stale = profiles[name].key,
                                     !.content = {[profiles EXCEPT ![name] = Absent]}])
  /\ UNCHANGED <<profileStore, limits>>

-----------------------------------------------------------------------------
(* _save and what follows it *)
WriteTemporary(t) ==
  /\ pc[t] = "write"
  /\ temporary' = call[t].content
  /\ Goes(t, "replace")
  /\ UNCHANGED <<profiles, keyFiles, profileHistory, limits>>

\* Another thread may have renamed the file, with either content, already.
Replace(t) ==
  /\ pc[t] = "replace"
  /\ IF temporary = {}
     THEN Ends(t) /\ UNCHANGED profiles
     ELSE /\ \E content \in temporary : profiles' = content
          /\ Goes(t, "prune")
  /\ temporary' = {}
  /\ UNCHANGED <<keyFiles, profileHistory, limits>>

\* Mutated Prune: the key is removed also when it is the one of the profile.
PruneAlways(t) ==
  /\ pc[t] = "prune"
  /\ keyFiles' = keyFiles \ {call[t].stale}
  /\ Ends(t)
  /\ UNCHANGED <<profiles, temporary, profileHistory, limits>>

Prune(t) ==
  /\ pc[t] = "prune"
  /\ keyFiles' = IF call[t].stale # call[t].key THEN keyFiles \ {call[t].stale} ELSE keyFiles
  /\ Ends(t)
  /\ UNCHANGED <<profiles, temporary, profileHistory, limits>>

\* A file operation raises.
SaveFails(t) ==
  /\ pc[t] \in {"check", "storeKey", "list", "write", "replace"} /\ Fault
  /\ Ends(t)
  /\ UNCHANGED profileStore

ProfileStep(t) ==
  \/ Check(t) \/ StoreKey(t) \/ List(t) \/ FindProfile(t)
  \/ WriteTemporary(t) \/ Replace(t) \/ Prune(t) \/ SaveFails(t)

ProfileTypeOK ==
  /\ profiles \in Profiles
  /\ temporary \subseteq Profiles
  /\ keyFiles \subseteq Keys
  /\ overlapped \in BOOLEAN /\ renamed \in BOOLEAN

OwnFolders == \A m, n \in Names : m # n => KeyOf[m] # KeyOf[n]

(* "An SSH tunnel profile requires a private key upload stored on the server."
   Changes that do not overlap keep it so, wherever a file operation raises or
   the process ends.  Two names can come to share a folder, when a profile that
   was renamed keeps its folder and the name is given again, or when names
   differ in case only: then one of them can lose its key. *)
KeysStored ==
  OwnFolders /\ ~overlapped /\ ~renamed =>
    \A n \in Names : profiles[n].mode = "ssh" => profiles[n].key \in keyFiles
=============================================================================
