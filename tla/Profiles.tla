-------------------------------- MODULE Profiles --------------------------------
(***************************************************************************)
(* profiles.json, the connection profiles of the command line              *)
(* (packages/client/src/profiles.ts), and the pxr commands that change it: *)
(* login, logout, profile use, and start, which saves the token of the     *)
(* runtime it has started under the name "local".  Each command reads the  *)
(* whole file, and later replaces it by renaming a file of its own; there  *)
(* is no lock, so of two commands at once the later rename decides.        *)
(***************************************************************************)
CONSTANTS
  Shells,    \* pxr commands under way
  Names,     \* of profiles
  Local,     \* the profile of the runtime on this machine
  Secrets,   \* API tokens
  Nothing

ASSUME ProfilesAssumption == Local \in Names /\ Nothing \notin Names \cup Secrets

VARIABLES
  profiles,   \* profiles.json: the current profile's name, and the tokens by name
  shell,      \* by command: how far it is, and what it has read
  vouched       \* history: tokens a login named, or a start ended with

profileVars == <<profiles, shell, vouched>>

ProfileFile == [current : Names \cup {Nothing}, token : [Names -> Secrets \cup {Nothing}]]
NoProfiles == [current |-> Nothing, token |-> [n \in Names |-> Nothing]]
Idle == [at |-> "idle"]
ShellRow ==
  [at : {"starting", "save", "use", "logout"},
   name : Names, secret : Secrets \cup {Nothing}]
  \cup [at : {"rename"}, file : ProfileFile]

Runs(s, at) == shell[s] # Idle /\ shell[s].at = at
Go(s, row) == shell' = [shell EXCEPT ![s] = row]

-------------------------------------------------------------------------------
ProfilesInit ==
  /\ profiles = NoProfiles
  /\ shell = [s \in Shells |-> Idle]
  /\ vouched = {}

Login(s, n, k) ==
  /\ shell[s] = Idle
  /\ Go(s, [at |-> "save", name |-> n, secret |-> k])
  /\ vouched' = vouched \cup {k}
  /\ UNCHANGED profiles

\* runtimeStartContext: the token of the environment, else of the local profile,
\* else a new one.
Start(s, k) ==
  /\ shell[s] = Idle
  /\ Go(s, [at |-> "starting", name |-> Local, secret |-> k])
  /\ UNCHANGED <<profiles, vouched>>

\* startRuntimeProcess ends well; when it throws, so does the command.
Started(s) ==
  /\ Runs(s, "starting")
  /\ Go(s, [shell[s] EXCEPT !.at = "save"])
  /\ vouched' = vouched \cup {shell[s].secret}
  /\ UNCHANGED profiles

Invoke(s, at, n) ==
  /\ shell[s] = Idle /\ at \in {"use", "logout"}
  /\ Go(s, [at |-> at, name |-> n, secret |-> Nothing])
  /\ UNCHANGED <<profiles, vouched>>

\* save, use and remove make the new contents from what they read.
Saved(s) ==
  [current |-> shell[s].name, token |-> [profiles.token EXCEPT ![shell[s].name] = shell[s].secret]]
Used(s) == [profiles EXCEPT !.current = shell[s].name]
\* Seeded fault: the name stays the current one.
RemovedKeepingCurrent(s) == [profiles EXCEPT !.token[shell[s].name] = Nothing]
Removed(s) ==
  [current |-> IF profiles.current = shell[s].name THEN Nothing ELSE profiles.current,
   token |-> [profiles.token EXCEPT ![shell[s].name] = Nothing]]

ReadAndChange(s) ==
  /\ \/ Runs(s, "save") /\ Go(s, [at |-> "rename", file |-> Saved(s)])
     \/ /\ Runs(s, "use")
        /\ IF profiles.token[shell[s].name] = Nothing THEN Go(s, Idle)
           ELSE Go(s, [at |-> "rename", file |-> Used(s)])
     \/ Runs(s, "logout") /\ Go(s, [at |-> "rename", file |-> Removed(s)])
  /\ UNCHANGED <<profiles, vouched>>

\* rename, or rm when no profile is left, which reads back the same.
Rename(s) ==
  /\ Runs(s, "rename")
  /\ profiles' = shell[s].file
  /\ Go(s, Idle)
  /\ UNCHANGED vouched

\* A command that fails or is killed leaves the file as it was.
ShellEnds(s) ==
  /\ shell[s] # Idle
  /\ Go(s, Idle)
  /\ UNCHANGED <<profiles, vouched>>

ProfilesNext ==
  \E s \in Shells :
    \/ \E k \in Secrets : Start(s, k) \/ \E n \in Names : Login(s, n, k)
    \/ \E n \in Names, at \in {"use", "logout"} : Invoke(s, at, n)
    \/ Started(s) \/ ReadAndChange(s) \/ Rename(s) \/ ShellEnds(s)

ProfilesSpec == ProfilesInit /\ [][ProfilesNext]_profileVars

-------------------------------------------------------------------------------
(* Properties.                                                             *)

ProfilesTypeOK ==
  /\ profiles \in ProfileFile
  /\ shell \in [Shells -> ShellRow \cup {Idle}]
  /\ vouched \subseteq Secrets

\* Whatever commands run at the same time, and wherever one is killed, the current
\* profile is one of the file's, and every token in it came from a login or from a
\* start of the runtime that ended well.
ProfilesAreUsable ==
  /\ profiles.current # Nothing => profiles.token[profiles.current] # Nothing
  /\ \A n \in Names : profiles.token[n] \in vouched \cup {Nothing}
===============================================================================
