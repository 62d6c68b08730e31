------------------------------- MODULE Session -------------------------------
(***************************************************************************)
(* The credentials the server works with: f5xc-api-configure-auth          *)
(* (src/src/tools/configure-auth.ts), the start of the server (server.ts,  *)
(* index.ts) and what keeps the state of that start (the tool server-info  *)
(* of tool-handlers/metadata.ts, the HTTP client of the resource handler). *)
(*                                                                         *)
(* The profiles are files and outlive the process; the credential manager  *)
(* of the package f5xc-auth holds what was loaded last, from the           *)
(* environment or else from the active profile.  configure and set-active  *)
(* await the URL check, each file operation and the reload, and calls of   *)
(* the tool interleave there.                                              *)
(*                                                                         *)
(* (A definition named Bug... is the one that follows it with a mistake in *)
(* it; no behaviour of the model uses it.)                                 *)
(***************************************************************************)

CONSTANTS
  Calls,     \* calls of configure-auth that can be in progress at once
  Names,     \* profile names
  Tenants,   \* credentials: a tenant's URL and a token for it
  Envs,      \* what the environment variables may hold: credentials or Nothing
  Nothing

VARIABLES
  env,       \* the credentials in the environment of the process
  profiles,  \* on disk: the credentials of each profile
  active,    \* on disk: the name of the active profile
  session,   \* the loaded credentials and the profile they are from; Down
  startedAs, \* whether the server started with credentials, and with which
  call,      \* per call: where it stands
  answer,    \* what the call that ended in the last step answered
  settled    \* history: no call has overlapped with another, or has failed after
             \* it had written to the disk, since the start or since the last call
             \* that succeeded alone

vars == <<env, profiles, active, session, startedAs, call, answer, settled>>

ASSUME SessionConstants ==
  /\ Nothing \notin Tenants /\ Nothing \notin Names
  /\ Envs \subseteq Tenants \cup {Nothing}

Down == [tenant |-> Nothing, profile |-> Nothing, running |-> FALSE]

Loaded(t, n) == [tenant |-> t, profile |-> n, running |-> TRUE]

Idle == [pc |-> "idle"]

InProgress == {c \in Calls : call[c].pc # "idle"}

-----------------------------------------------------------------------------
(* The credential manager (external): initialize() and reload() *)

\* Environment variables come first, then the active profile.
Credentials ==
  IF env # Nothing \/ active = Nothing THEN Loaded(env, Nothing)
  ELSE Loaded(profiles[active], active)

-----------------------------------------------------------------------------
(* The process *)

\* createServer() loads the credentials; the constructor of the server makes the
\* HTTP client of the resource handler and reads the mode server-info reports.
Start ==
  /\ ~session.running
  /\ session' = Credentials
  /\ startedAs' = session'.tenant
  /\ settled' = TRUE
  /\ answer' = Nothing
  /\ UNCHANGED <<env, profiles, active, call>>

\* A signal, an uncaught exception or a crash: calls in progress go with it.
Stop ==
  /\ session.running
  /\ session' = Down
  /\ startedAs' = Nothing
  /\ call' = [c \in Calls |-> Idle]
  /\ answer' = Nothing
  /\ UNCHANGED <<env, profiles, active, settled>>

-----------------------------------------------------------------------------
(* What tells a client whether the server executes calls *)

Mode(credentials) == IF credentials = Nothing THEN "documentation" ELSE "execution"

\* configure-auth with the action status asks the credential manager.
StatusMode == Mode(session.tenant)

\* server-info reports what it read when it was registered.
ServerInfoMode == Mode(startedAs)

\* A resource is fetched with the HTTP client made at the start, if there is one.
ResourceMode ==
  IF StatusMode = "documentation" \/ startedAs = Nothing
  THEN "documentation" ELSE "execution"

-----------------------------------------------------------------------------
(* f5xc-api-configure-auth *)

\* A call begins.  found: the session and the active profile it finds; alone:
\* no other call has been in progress since.
Begin(c, pc, action, n, t) ==
  /\ session.running
  /\ call[c].pc = "idle"
  /\ call' = [d \in Calls |->
       IF d = c
       THEN [pc |-> pc, action |-> action, name |-> n, tenant |-> t, read |-> Nothing,
             found |-> [session |-> session, active |-> active],
             alone |-> InProgress = {}]
       ELSE IF d \in InProgress THEN [call[d] EXCEPT !.alone = FALSE] ELSE call[d]]
  /\ settled' = (settled /\ InProgress = {})
  /\ answer' = Nothing
  /\ UNCHANGED <<env, profiles, active, session, startedAs>>

Moves(c, pc) ==
  /\ call' = [call EXCEPT ![c].pc = pc]
  /\ answer' = Nothing

End(c, success) ==
  /\ call' = [call EXCEPT ![c] = Idle]
  /\ answer' = [success |-> success, of |-> call[c]]

ConfigureStarts(c, n, t) == Begin(c, "verifying", "configure", n, t)

\* The name that stands for none given is forgotten.
BugSetActiveStarts(c, n) == Begin(c, "activating", "set-active", Nothing, Nothing)

SetActiveStarts(c, n) == Begin(c, "activating", "set-active", n, Nothing)

\* The endpoint does not answer: nothing was written.
VerificationFails(c) ==
  /\ call[c].pc = "verifying"
  /\ End(c, FALSE)
  /\ UNCHANGED <<env, profiles, active, session, startedAs, settled>>

VerificationPasses(c) ==
  /\ call[c].pc = "verifying"
  /\ Moves(c, "saving")
  /\ UNCHANGED <<env, profiles, active, session, startedAs, settled>>

SaveFails(c) ==
  /\ call[c].pc = "saving"
  /\ End(c, FALSE)
  /\ UNCHANGED <<env, profiles, active, session, startedAs, settled>>

\* A profile of that name is replaced.
SaveSucceeds(c) ==
  /\ call[c].pc = "saving"
  /\ profiles' = [profiles EXCEPT ![call[c].name] = call[c].tenant]
  /\ Moves(c, "activating")
  /\ UNCHANGED <<env, active, session, startedAs, settled>>

\* The result is not looked at.
BugActivationFails(c) ==
  /\ call[c].pc = "activating"
  /\ Moves(c, "reloading")
  /\ UNCHANGED <<env, profiles, active, session, startedAs, settled>>

\* The profile does not exist or the file cannot be written.  What configure has
\* saved stays saved.
ActivationFails(c) ==
  /\ call[c].pc = "activating"
  /\ End(c, FALSE)
  /\ settled' = (settled /\ call[c].action # "configure")
  /\ UNCHANGED <<env, profiles, active, session, startedAs>>

\* The reload is forgotten.
BugActivationSucceeds(c) ==
  /\ call[c].pc = "activating"
  /\ profiles[call[c].name] # Nothing
  /\ active' = call[c].name
  /\ End(c, TRUE)
  /\ UNCHANGED <<env, profiles, session, startedAs, settled>>

ActivationSucceeds(c) ==
  /\ call[c].pc = "activating"
  /\ profiles[call[c].name] # Nothing
  /\ active' = call[c].name
  /\ Moves(c, "reloading")
  /\ UNCHANGED <<env, profiles, session, startedAs, settled>>

ReloadReads(c) ==
  /\ call[c].pc = "reloading"
  /\ call' = [call EXCEPT ![c].pc = "reloaded", ![c].read = Credentials]
  /\ answer' = Nothing
  /\ UNCHANGED <<env, profiles, active, session, startedAs, settled>>

ReloadFails(c) ==
  /\ call[c].pc = "reloading"
  /\ End(c, FALSE)
  /\ settled' = FALSE
  /\ UNCHANGED <<env, profiles, active, session, startedAs>>

\* The session takes the profile just made active, whatever the environment holds.
BugReloadEnds(c) ==
  /\ call[c].pc = "reloaded"
  /\ session' = Loaded(profiles[call[c].name], call[c].name)
  /\ End(c, TRUE)
  /\ settled' = (settled \/ call[c].alone)
  /\ UNCHANGED <<env, profiles, active, startedAs>>

\* "Credentials saved ... API execution is now enabled", "Switched to profile ...
\* Credentials reloaded"
ReloadEnds(c) ==
  /\ call[c].pc = "reloaded"
  /\ session' = call[c].read
  /\ End(c, TRUE)
  /\ settled' = (settled \/ call[c].alone)
  /\ UNCHANGED <<env, profiles, active, startedAs>>

Init ==
  /\ env \in Envs
  /\ profiles \in [Names -> Tenants \cup {Nothing}]
  /\ active \in {n \in Names : profiles[n] # Nothing} \cup {Nothing}
  /\ session = Down
  /\ startedAs = Nothing
  /\ call = [c \in Calls |-> Idle]
  /\ answer = Nothing
  /\ settled = TRUE

Next ==
  \/ Start
  \/ Stop
  \/ \E c \in Calls :
       \/ \E n \in Names :
            SetActiveStarts(c, n) \/ \E t \in Tenants : ConfigureStarts(c, n, t)
       \/ VerificationFails(c)
       \/ VerificationPasses(c)
       \/ SaveFails(c)
       \/ SaveSucceeds(c)
       \/ ActivationFails(c)
       \/ ActivationSucceeds(c)
       \/ ReloadReads(c)
       \/ ReloadFails(c)
       \/ ReloadEnds(c)

Spec == Init /\ [][Next]_vars

-----------------------------------------------------------------------------
(* Properties *)

CredentialsOrNone == Tenants \cup {Nothing}

SessionType ==
  [tenant : CredentialsOrNone, profile : Names \cup {Nothing}, running : BOOLEAN]

CallInProgress ==
  [pc : {"verifying", "saving", "activating", "reloading", "reloaded"},
   action : {"configure", "set-active"},
   name : Names,
   tenant : CredentialsOrNone,
   found : [session : SessionType, active : Names \cup {Nothing}],
   read : SessionType \cup {Nothing},
   alone : BOOLEAN]

CallType == CallInProgress \cup {Idle}

\* The state has its type, the active profile exists, and every call in progress
\* names a profile: what the files of src/tools/configure-auth.ts hold.
TypeOK ==
  /\ env \in Envs
  /\ profiles \in [Names -> CredentialsOrNone]
  /\ active \in {n \in Names : profiles[n] # Nothing} \cup {Nothing}
  /\ session \in SessionType
  /\ startedAs \in CredentialsOrNone
  /\ call \in [Calls -> CallType]
  /\ answer \in {Nothing} \cup [success : BOOLEAN, of : CallInProgress]
  /\ settled \in BOOLEAN

\* A call that ran alone and reports success has made its profile the active one,
\* with the credentials it was given, and without credentials in the environment
\* the server now works with them; one that reports a failure has left the session
\* alone, and the active profile too unless it was the reload that failed
\* (handleConfigure and handleSetActive: the order of save, activate and reload).
AloneTakesEffect ==
  answer # Nothing =>
    LET c == answer.of IN
      c.alone =>
        IF answer.success
        THEN /\ active = c.name
             /\ c.action = "configure" => profiles[c.name] = c.tenant
             /\ env = Nothing => session = Loaded(profiles[c.name], c.name)
        ELSE /\ session = c.found.session
             /\ c.pc # "reloading" => active = c.found.active

\* Between calls the server works with the credentials it would load if it were
\* restarted, unless calls have overlapped or one has failed half-way: a change of
\* credentials is never only in memory or only on disk.
DurableSession ==
  session.running /\ InProgress = {} /\ settled => session = Credentials

\* Credentials in the environment override the profiles at all times, whatever
\* configure-auth does (docs/authentication.mdx:148).
EnvironmentWins ==
  session.running /\ env # Nothing => session = Loaded(env, Nothing)

\* What server-info and the resources report as the mode of the server is what
\* configure-auth reports.  It is not: see the finding.
ModesAgree ==
  session.running => ServerInfoMode = StatusMode /\ ResourceMode = StatusMode

=============================================================================
