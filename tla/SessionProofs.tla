---------------------------- MODULE SessionProofs ----------------------------
(***************************************************************************)
(* Proofs about Session, for any number of calls, names and credentials:   *)
(* the type invariant, that the environment overrides the profiles, that   *)
(* between calls memory and disk agree, and that a call that ran alone has *)
(* done what it reports.                                                   *)
(***************************************************************************)

EXTENDS Session, TLAPS

-----------------------------------------------------------------------------
(* The inductive invariant *)

\* Nothing is in progress while the server is down, and a call that has run alone
\* is the only one.
Solitude ==
  /\ ~session.running => InProgress = {}
  /\ \A c \in InProgress : call[c].alone => InProgress = {c}
  /\ settled => \A c \in InProgress : call[c].alone

\* What a call that runs alone has read and written so far is still so.
Undisturbed(c) ==
  /\ session = call[c].found.session
  /\ call[c].pc \in {"verifying", "saving", "activating"} => active = call[c].found.active
  /\ call[c].pc \in {"reloading", "reloaded"} =>
       active = call[c].name /\ profiles[call[c].name] # Nothing
  /\ call[c].pc \in {"activating", "reloading", "reloaded"} /\ call[c].action = "configure" =>
       profiles[call[c].name] = call[c].tenant
  /\ call[c].pc = "reloaded" => call[c].read = Credentials

LonersUndisturbed == \A c \in InProgress : call[c].alone => Undisturbed(c)

\* The call has written nothing to the disk yet.
HasNotWritten(c) ==
  \/ call[c].pc \in {"verifying", "saving"}
  \/ call[c].pc = "activating" /\ call[c].action = "set-active"

\* Memory and disk agree until a call writes.
AgreeUntilWritten ==
  session.running /\ settled /\ (\A c \in InProgress : HasNotWritten(c)) =>
    session = Credentials

\* With credentials in the environment, whatever is read is those.
ReadsEnvironment ==
  env # Nothing =>
    \A c \in Calls : call[c].pc = "reloaded" => call[c].read = Loaded(env, Nothing)

\* Only configure verifies and saves, with credentials given, and what has been
\* read are credentials.
StagesFit ==
  \A c \in InProgress :
    /\ call[c].pc \in {"verifying", "saving"} =>
         call[c].action = "configure" /\ call[c].tenant \in Tenants
    /\ call[c].pc = "reloaded" => call[c].read \in SessionType /\ call[c].read.running

SessionInv ==
  /\ TypeOK
  /\ StagesFit
  /\ Solitude
  /\ LonersUndisturbed
  /\ AgreeUntilWritten
  /\ ReadsEnvironment
  /\ EnvironmentWins
  /\ AloneTakesEffect

-----------------------------------------------------------------------------
(* Lemmas *)

\* What initialize() and reload() load is typed, and the process runs with it.
LEMMA CredentialsTyped ==
  ASSUME TypeOK
  PROVE  Credentials \in SessionType /\ Credentials.running
  BY SessionConstants
  DEF TypeOK, Credentials, Loaded, SessionType, CredentialsOrNone

\* A call in progress has the fields of one.
LEMMA InProgressTyped ==
  ASSUME TypeOK, NEW c \in Calls, call[c].pc # "idle"
  PROVE  call[c] \in CallInProgress
  BY DEF TypeOK, CallType, Idle

\* The steps a call takes once it has begun.
CallSteps(c) ==
  \/ VerificationFails(c)
  \/ VerificationPasses(c)
  \/ SaveFails(c)
  \/ SaveSucceeds(c)
  \/ ActivationFails(c)
  \/ ActivationSucceeds(c)
  \/ ReloadReads(c)
  \/ ReloadFails(c)
  \/ ReloadEnds(c)

\* A call that begins: the two handlers at their first await.
Begins(c) ==
  \/ \E n \in Names, t \in Tenants : Begin(c, "verifying", "configure", n, t)
  \/ \E n \in Names : Begin(c, "activating", "set-active", n, Nothing)

LEMMA NextCases ==
  ASSUME [Next]_vars
  PROVE  \/ Start \/ Stop \/ UNCHANGED vars
         \/ \E c \in Calls : Begins(c) \/ CallSteps(c)
  BY DEF Next, Begins, CallSteps, ConfigureStarts, SetActiveStarts

-----------------------------------------------------------------------------
(* Types *)

\* Every step keeps the type of the state.
LEMMA TypeStep ==
  ASSUME TypeOK, [Next]_vars, StagesFit
  PROVE  TypeOK'
<1> USE SessionConstants
<1>1. CASE Start
  BY <1>1, CredentialsTyped DEF Start, TypeOK, SessionType
<1>2. CASE Stop
  BY <1>2 DEF Stop, TypeOK, SessionType, Down, CallType, CredentialsOrNone
<1>3. CASE UNCHANGED vars
  BY <1>3 DEF vars, TypeOK
<1>4. ASSUME NEW c \in Calls, Begins(c)  PROVE TypeOK'
  <2>1. PICK pc \in {"verifying", "activating"}, a \in {"configure", "set-active"},
             n \in Names, t \in CredentialsOrNone : Begin(c, pc, a, n, t)
    BY <1>4 DEF Begins, CredentialsOrNone
  <2> DEFINE begun ==
        [pc |-> pc, action |-> a, name |-> n, tenant |-> t, read |-> Nothing,
         found |-> [session |-> session, active |-> active],
         alone |-> InProgress = {}]
  <2>2. begun \in CallInProgress
    BY DEF TypeOK, CallInProgress
  <2>3. ASSUME NEW d \in InProgress  PROVE [call[d] EXCEPT !.alone = FALSE] \in CallInProgress
    BY <2>3, InProgressTyped DEF InProgress, CallInProgress
  <2>4. \A d \in Calls : call'[d] \in CallType
    BY <2>1, <2>2, <2>3 DEF Begin, TypeOK, CallType
  <2>5. call' \in [Calls -> CallType]
    BY <2>1, <2>4 DEF Begin
  <2> QED BY <2>1, <2>5 DEF Begin, TypeOK
<1>5. ASSUME NEW c \in Calls, CallSteps(c)  PROVE TypeOK'
  <2>1. call[c] \in CallInProgress
    BY <1>5, InProgressTyped
    DEF CallSteps, VerificationFails, VerificationPasses, SaveFails, SaveSucceeds,
        ActivationFails, ActivationSucceeds, ReloadReads, ReloadFails, ReloadEnds
  <2>2. ASSUME NEW success \in BOOLEAN, End(c, success)
        PROVE  /\ call' \in [Calls -> CallType]
               /\ answer' \in {Nothing} \cup [success : BOOLEAN, of : CallInProgress]
    BY <2>1, <2>2 DEF End, TypeOK, CallType
  <2>3. ASSUME NEW pc \in {"saving", "activating", "reloading"}, Moves(c, pc)
        PROVE  /\ call' \in [Calls -> CallType]
               /\ answer' = Nothing
    <3>1. [call[c] EXCEPT !.pc = pc] \in CallInProgress
      BY <2>1 DEF CallInProgress
    <3> QED BY <2>3, <3>1 DEF Moves, TypeOK, CallType
  <2>4. CASE VerificationFails(c)
    BY <2>4, <2>2 DEF VerificationFails, TypeOK
  <2>5. CASE VerificationPasses(c)
    BY <2>5, <2>3 DEF VerificationPasses, TypeOK
  <2>6. CASE SaveFails(c)
    BY <2>6, <2>2 DEF SaveFails, TypeOK
  <2>7. CASE SaveSucceeds(c)
    <3>1. call[c].tenant \in Tenants /\ call[c].name \in Names
      BY <2>7, <2>1 DEF SaveSucceeds, StagesFit, InProgress, CallInProgress
    <3>2. /\ profiles' \in [Names -> CredentialsOrNone]
          /\ \A n \in Names : profiles[n] # Nothing => profiles'[n] # Nothing
      BY <2>7, <3>1 DEF SaveSucceeds, TypeOK, CredentialsOrNone
    <3> QED BY <2>7, <2>3, <3>2 DEF SaveSucceeds, TypeOK
  <2>8. CASE ActivationFails(c)
    BY <2>8, <2>2 DEF ActivationFails, TypeOK
  <2>9. CASE ActivationSucceeds(c)
    BY <2>9, <2>3, <2>1 DEF ActivationSucceeds, TypeOK, CallInProgress
  <2>10. CASE ReloadReads(c)
    <3>1. [call[c] EXCEPT !.pc = "reloaded", !.read = Credentials] \in CallInProgress
      BY <2>1, CredentialsTyped DEF CallInProgress
    <3> QED BY <2>10, <3>1 DEF ReloadReads, TypeOK, CallType
  <2>11. CASE ReloadFails(c)
    BY <2>11, <2>2 DEF ReloadFails, TypeOK
  <2>12. CASE ReloadEnds(c)
    <3>1. call[c].read \in SessionType
      BY <2>12 DEF ReloadEnds, StagesFit, InProgress
    <3>2. call[c].alone \in BOOLEAN
      BY <2>1 DEF CallInProgress
    <3> QED BY <2>12, <2>2, <3>1, <3>2 DEF ReloadEnds, TypeOK
  <2> QED BY <1>5, <2>4, <2>5, <2>6, <2>7, <2>8, <2>9, <2>10, <2>11, <2>12 DEF CallSteps
<1> QED BY <1>1, <1>2, <1>3, <1>4, <1>5, NextCases

-----------------------------------------------------------------------------
(* What begins, moves or ends *)

\* A call that ends leaves the others as they are.
LEMMA EndEffect ==
  ASSUME TypeOK, NEW c \in Calls, call[c].pc # "idle", NEW success, End(c, success)
  PROVE  /\ InProgress' = InProgress \ {c}
         /\ \A d \in Calls : d # c => call'[d] = call[d]
         /\ c \in InProgress
         /\ call'[c].pc = "idle"
         /\ answer'.success = success /\ answer'.of = call[c]
  BY DEF End, TypeOK, InProgress, Idle

\* A call that moves changes its place only.
LEMMA MovesEffect ==
  ASSUME TypeOK, NEW c \in Calls, call[c].pc # "idle",
         NEW pc \in {"saving", "activating", "reloading"}, Moves(c, pc)
  PROVE  /\ InProgress' = InProgress
         /\ \A d \in Calls : d # c => call'[d] = call[d]
         /\ c \in InProgress
         /\ call'[c].pc = pc
         /\ call'[c].action = call[c].action
         /\ call'[c].name = call[c].name
         /\ call'[c].tenant = call[c].tenant
         /\ call'[c].found = call[c].found
         /\ call'[c].alone = call[c].alone
  <1>1. call[c] \in CallInProgress
    BY InProgressTyped
  <1>2. call'[c] = [call[c] EXCEPT !.pc = pc] /\ \A d \in Calls : d # c => call'[d] = call[d]
    BY DEF Moves, TypeOK
  <1>3. /\ call'[c].pc = pc
        /\ call'[c].action = call[c].action
        /\ call'[c].name = call[c].name
        /\ call'[c].tenant = call[c].tenant
        /\ call'[c].found = call[c].found
        /\ call'[c].alone = call[c].alone
    BY <1>1, <1>2 DEF CallInProgress
  <1>4. InProgress' = InProgress /\ c \in InProgress
    BY <1>2, <1>3 DEF InProgress
  <1> QED BY <1>2, <1>3, <1>4

\* The reload has read: the call keeps what it is.
LEMMA ReadEffect ==
  ASSUME TypeOK, NEW c \in Calls, ReloadReads(c)
  PROVE  /\ InProgress' = InProgress
         /\ \A d \in Calls : d # c => call'[d] = call[d]
         /\ c \in InProgress
         /\ call'[c].pc = "reloaded"
         /\ call'[c].read = Credentials
         /\ call'[c].action = call[c].action
         /\ call'[c].name = call[c].name
         /\ call'[c].tenant = call[c].tenant
         /\ call'[c].found = call[c].found
         /\ call'[c].alone = call[c].alone
  <1>1. call[c] \in CallInProgress
    BY InProgressTyped DEF ReloadReads
  <1>2. /\ call'[c] = [call[c] EXCEPT !.pc = "reloaded", !.read = Credentials]
        /\ \A d \in Calls : d # c => call'[d] = call[d]
    BY DEF ReloadReads, TypeOK
  <1>3. /\ call'[c].pc = "reloaded"
        /\ call'[c].read = Credentials
        /\ call'[c].action = call[c].action
        /\ call'[c].name = call[c].name
        /\ call'[c].tenant = call[c].tenant
        /\ call'[c].found = call[c].found
        /\ call'[c].alone = call[c].alone
    BY <1>1, <1>2 DEF CallInProgress
  <1>4. InProgress' = InProgress /\ c \in InProgress
    BY <1>2, <1>3 DEF InProgress, ReloadReads
  <1> QED BY <1>2, <1>3, <1>4

\* A call that begins ends the solitude of the others.
LEMMA BeginEffect ==
  ASSUME TypeOK, NEW c \in Calls,
         NEW pc \in {"verifying", "activating"}, NEW action, NEW n, NEW t,
         Begin(c, pc, action, n, t)
  PROVE  /\ InProgress' = InProgress \cup {c}
         /\ c \notin InProgress
         /\ call'[c].pc = pc
         /\ call'[c].action = action
         /\ call'[c].tenant = t
         /\ call'[c].found = [session |-> session, active |-> active]
         /\ call'[c].alone = (InProgress = {})
         /\ \A d \in InProgress :
              /\ ~call'[d].alone
              /\ call'[d].pc = call[d].pc
              /\ call'[d].action = call[d].action
              /\ call'[d].tenant = call[d].tenant
              /\ call'[d].read = call[d].read
  <1>1. /\ call'[c] = [pc |-> pc, action |-> action, name |-> n, tenant |-> t,
                      read |-> Nothing,
                      found |-> [session |-> session, active |-> active],
                      alone |-> InProgress = {}]
        /\ \A d \in InProgress : d # c => call'[d] = [call[d] EXCEPT !.alone = FALSE]
        /\ \A d \in Calls : d # c /\ d \notin InProgress => call'[d] = call[d]
    BY DEF Begin, InProgress
  <1>2. c \notin InProgress
    BY DEF Begin, InProgress
  <1>3. ASSUME NEW d \in InProgress
        PROVE  /\ ~call'[d].alone
               /\ call'[d].pc = call[d].pc
               /\ call'[d].action = call[d].action
               /\ call'[d].tenant = call[d].tenant
               /\ call'[d].read = call[d].read
    <2>1. call[d] \in CallInProgress /\ d \in Calls
      BY <1>3, InProgressTyped DEF InProgress
    <2> QED BY <1>1, <1>2, <2>1 DEF CallInProgress
  <1>4. InProgress' = InProgress \cup {c}
    BY <1>1, <1>3 DEF InProgress
  <1> QED BY <1>1, <1>2, <1>3, <1>4

-----------------------------------------------------------------------------
(* One lemma per kind of step *)

\* The parts of the invariant that are not about types alone.
Parts ==
  /\ StagesFit
  /\ Solitude
  /\ LonersUndisturbed
  /\ AgreeUntilWritten
  /\ ReadsEnvironment
  /\ EnvironmentWins
  /\ AloneTakesEffect

LEMMA StartStep ==
  ASSUME SessionInv, Start
  PROVE  Parts'
<1>1. InProgress' = InProgress /\ InProgress = {}
  BY DEF SessionInv, Solitude, InProgress, Start
<1>2. session' = Credentials /\ Credentials' = Credentials
  BY DEF Start, Credentials
<1>3. session'.running
  BY <1>2, CredentialsTyped DEF SessionInv
<1>4. StagesFit' /\ Solitude' /\ LonersUndisturbed'
  BY <1>1, <1>3 DEF StagesFit, Solitude, LonersUndisturbed
<1>5. AgreeUntilWritten'
  BY <1>2 DEF AgreeUntilWritten
<1>6. ReadsEnvironment'
  BY DEF SessionInv, ReadsEnvironment, Start, Loaded
<1>7. EnvironmentWins'
  BY <1>2 DEF EnvironmentWins, Credentials, Start, Loaded
<1>8. AloneTakesEffect'
  BY DEF AloneTakesEffect, Start
<1> QED BY <1>4, <1>5, <1>6, <1>7, <1>8 DEF Parts

LEMMA StopStep ==
  ASSUME SessionInv, Stop
  PROVE  Parts'
<1>1. InProgress' = {} /\ \A c \in Calls : call'[c].pc = "idle"
  BY DEF InProgress, Stop, Idle
<1>2. ~session'.running
  BY DEF Stop, Down
<1>3. StagesFit' /\ Solitude' /\ LonersUndisturbed'
  BY <1>1 DEF StagesFit, Solitude, LonersUndisturbed
<1>4. AgreeUntilWritten' /\ EnvironmentWins'
  BY <1>2 DEF AgreeUntilWritten, EnvironmentWins
<1>5. ReadsEnvironment'
  BY <1>1 DEF ReadsEnvironment
<1>6. AloneTakesEffect'
  BY DEF AloneTakesEffect, Stop
<1> QED BY <1>3, <1>4, <1>5, <1>6 DEF Parts

LEMMA BeginStep ==
  ASSUME SessionInv, NEW c \in Calls, Begins(c)
  PROVE  Parts'
<1>1. PICK pc \in {"verifying", "activating"}, a \in {"configure", "set-active"},
           n \in Names, t \in CredentialsOrNone :
        /\ Begin(c, pc, a, n, t)
        /\ pc = "verifying" => a = "configure" /\ t \in Tenants
        /\ pc = "activating" => a = "set-active"
  BY DEF Begins, CredentialsOrNone
<1>2. TypeOK
  BY DEF SessionInv
<1> DEFINE Effect ==
      /\ InProgress' = InProgress \cup {c}
      /\ c \notin InProgress
      /\ call'[c].pc = pc
      /\ call'[c].action = a
      /\ call'[c].tenant = t
      /\ call'[c].found = [session |-> session, active |-> active]
      /\ call'[c].alone = (InProgress = {})
      /\ \A d \in InProgress :
           /\ ~call'[d].alone
           /\ call'[d].pc = call[d].pc
           /\ call'[d].action = call[d].action
           /\ call'[d].tenant = call[d].tenant
           /\ call'[d].read = call[d].read
<1>3. Effect
  BY <1>1, <1>2, BeginEffect
<1>4. /\ UNCHANGED <<env, profiles, active, session>>
      /\ session.running
      /\ settled' = (settled /\ InProgress = {})
      /\ answer' = Nothing
  BY <1>1 DEF Begin
<1>5. Credentials' = Credentials
  BY <1>4 DEF Credentials
<1>6. StagesFit'
  BY <1>1, <1>3 DEF StagesFit, SessionInv
<1>7. Solitude'
  BY <1>3, <1>4 DEF Solitude
<1>8. LonersUndisturbed'
  <2>1. ASSUME NEW d \in InProgress', call'[d].alone  PROVE d = c
    BY <2>1, <1>3
  <2>2. Undisturbed(c)'
    BY <1>1, <1>3, <1>4 DEF Undisturbed
  <2> QED BY <2>1, <2>2 DEF LonersUndisturbed
<1>9. AgreeUntilWritten'
  BY <1>3, <1>4, <1>5 DEF AgreeUntilWritten, SessionInv
<1>10. ReadsEnvironment'
  <2>1. ASSUME env # Nothing, NEW d \in Calls, call'[d].pc = "reloaded"
        PROVE  d \in InProgress
    BY <2>1, <1>1, <1>3 DEF InProgress
  <2> QED BY <2>1, <1>3, <1>4 DEF ReadsEnvironment, SessionInv, InProgress, Loaded
<1>11. EnvironmentWins'
  BY <1>4 DEF EnvironmentWins, SessionInv, Loaded
<1>12. AloneTakesEffect'
  BY <1>4 DEF AloneTakesEffect
<1> QED BY <1>6, <1>7, <1>8, <1>9, <1>10, <1>11, <1>12 DEF Parts

\* Whatever the call that ends has done to the disk and to the session.
LEMMA EndStep ==
  ASSUME SessionInv, NEW c \in Calls, call[c].pc # "idle",
         NEW success, End(c, success),
         env' = env, session'.running, settled' => settled \/ call[c].alone
  PROVE  /\ StagesFit' /\ Solitude' /\ LonersUndisturbed' /\ ReadsEnvironment'
         /\ settled' => InProgress' = {}
         /\ call[c] \in CallInProgress /\ c \in InProgress
         /\ answer'.success = success /\ answer'.of = call[c]
<1>1. TypeOK
  BY DEF SessionInv
<1>2. /\ InProgress' = InProgress \ {c}
      /\ \A d \in Calls : d # c => call'[d] = call[d]
      /\ c \in InProgress
      /\ call'[c].pc = "idle"
      /\ answer'.success = success /\ answer'.of = call[c]
  BY <1>1, EndEffect
<1>3. \A d \in InProgress' : ~call'[d].alone
  BY <1>2 DEF SessionInv, Solitude, InProgress
<1>4. settled' => InProgress' = {}
  BY <1>2 DEF SessionInv, Solitude
<1>5. StagesFit'
  BY <1>2 DEF SessionInv, StagesFit, InProgress
<1>6. Solitude' /\ LonersUndisturbed'
  BY <1>3, <1>4 DEF Solitude, LonersUndisturbed
<1>7. ReadsEnvironment'
  BY <1>2 DEF SessionInv, ReadsEnvironment, Loaded
<1>8. call[c] \in CallInProgress
  BY <1>1, InProgressTyped
<1> QED BY <1>2, <1>4, <1>5, <1>6, <1>7, <1>8

\* A call that fails has left the session alone; what it has written, if anything,
\* is no longer settled.
LEMMA FailureStep ==
  ASSUME SessionInv, NEW c \in Calls,
         VerificationFails(c) \/ SaveFails(c) \/ ActivationFails(c) \/ ReloadFails(c)
  PROVE  Parts'
<1>1. /\ call[c].pc # "idle"
      /\ End(c, FALSE)
      /\ UNCHANGED <<env, profiles, active, session>>
      /\ settled' => settled /\ HasNotWritten(c)
      /\ call[c].pc \in {"verifying", "saving", "activating", "reloading"}
  <2>1. TypeOK
    BY DEF SessionInv
  <2>2. ASSUME call[c].pc = "activating", call[c].action # "configure"
        PROVE  call[c].action = "set-active"
    BY <2>1, <2>2, InProgressTyped DEF CallInProgress
  <2>3. CASE VerificationFails(c)
    BY <2>3 DEF VerificationFails, HasNotWritten
  <2>4. CASE SaveFails(c)
    BY <2>4 DEF SaveFails, HasNotWritten
  <2>5. CASE ActivationFails(c)
    BY <2>2, <2>5 DEF ActivationFails, HasNotWritten
  <2>6. CASE ReloadFails(c)
    BY <2>6 DEF ReloadFails
  <2> QED BY <2>3, <2>4, <2>5, <2>6
<1>2. c \in InProgress /\ session.running
  <2>1. c \in InProgress
    BY <1>1 DEF InProgress
  <2> QED BY <2>1 DEF SessionInv, Solitude
<1>3. /\ StagesFit' /\ Solitude' /\ LonersUndisturbed' /\ ReadsEnvironment'
      /\ settled' => InProgress' = {}
      /\ answer'.success = FALSE /\ answer'.of = call[c]
  BY <1>1, <1>2, EndStep
<1>4. AgreeUntilWritten'
  <2>1. ASSUME settled'  PROVE session = Credentials
    <3>1. InProgress = {c}
      BY <1>1, <1>2, <2>1 DEF SessionInv, Solitude
    <3> QED BY <1>1, <1>2, <2>1, <3>1 DEF SessionInv, AgreeUntilWritten
  <2>2. Credentials' = Credentials
    BY <1>1 DEF Credentials
  <2> QED BY <1>1, <2>1, <2>2 DEF AgreeUntilWritten
<1>5. EnvironmentWins'
  BY <1>1 DEF SessionInv, EnvironmentWins, Loaded
<1>6. AloneTakesEffect'
  BY <1>1, <1>2, <1>3
  DEF AloneTakesEffect, SessionInv, LonersUndisturbed, Undisturbed
<1> QED BY <1>3, <1>4, <1>5, <1>6 DEF Parts

\* The session takes what the call has read.
LEMMA ReloadEndsStep ==
  ASSUME SessionInv, NEW c \in Calls, ReloadEnds(c)
  PROVE  Parts'
<1>1. /\ call[c].pc = "reloaded"
      /\ session' = call[c].read
      /\ End(c, TRUE)
      /\ settled' = (settled \/ call[c].alone)
      /\ UNCHANGED <<env, profiles, active>>
  BY DEF ReloadEnds
<1>2. c \in InProgress /\ session'.running
  BY <1>1 DEF SessionInv, StagesFit, InProgress
<1>3. /\ StagesFit' /\ Solitude' /\ LonersUndisturbed' /\ ReadsEnvironment'
      /\ settled' => InProgress' = {}
      /\ call[c] \in CallInProgress
      /\ answer'.success = TRUE /\ answer'.of = call[c]
  BY <1>1, <1>2, EndStep
<1>4. call[c].alone => Undisturbed(c)
  BY <1>2 DEF SessionInv, LonersUndisturbed
<1>5. Credentials' = Credentials
  BY <1>1 DEF Credentials
<1>6. AgreeUntilWritten'
  <2>1. settled' => call[c].alone
    BY <1>1, <1>2 DEF SessionInv, Solitude
  <2> QED BY <1>1, <1>4, <1>5, <2>1 DEF AgreeUntilWritten, Undisturbed
<1>7. EnvironmentWins'
  BY <1>1 DEF SessionInv, EnvironmentWins, ReadsEnvironment, Loaded
<1>8. AloneTakesEffect'
  <2>1. SUFFICES ASSUME call[c].alone
                 PROVE  /\ active' = call[c].name
                        /\ call[c].action = "configure" =>
                             profiles'[call[c].name] = call[c].tenant
                        /\ env' = Nothing =>
                             session' = Loaded(profiles[call[c].name], call[c].name)
    BY <1>1, <1>3 DEF AloneTakesEffect, Loaded
  <2>2. active = call[c].name /\ call[c].name \in Names
    BY <1>1, <1>3, <1>4, <2>1 DEF Undisturbed, CallInProgress
  <2>3. env' = Nothing => session' = Loaded(profiles[call[c].name], call[c].name)
    BY <1>1, <1>4, <2>1, <2>2, SessionConstants DEF Undisturbed, Credentials
  <2> QED BY <1>1, <1>4, <2>1, <2>2, <2>3 DEF Undisturbed
<1> QED BY <1>3, <1>6, <1>7, <1>8 DEF Parts

\* Nothing is written: the call is one await further.
LEMMA VerificationPassesStep ==
  ASSUME SessionInv, NEW c \in Calls, VerificationPasses(c)
  PROVE  Parts'
<1>1. TypeOK /\ call[c].pc = "verifying" /\ Moves(c, "saving")
  BY DEF SessionInv, VerificationPasses
<1>2. /\ InProgress' = InProgress
      /\ \A d \in Calls : d # c => call'[d] = call[d]
      /\ c \in InProgress
      /\ call'[c].pc = "saving"
      /\ call'[c].action = call[c].action
      /\ call'[c].name = call[c].name
      /\ call'[c].tenant = call[c].tenant
      /\ call'[c].found = call[c].found
      /\ call'[c].alone = call[c].alone
  BY <1>1, MovesEffect
<1>3. UNCHANGED <<env, profiles, active, session, settled>> /\ answer' = Nothing
  BY DEF VerificationPasses, Moves
<1>4. Credentials' = Credentials
  BY <1>3 DEF Credentials
<1>5. StagesFit'
  BY <1>1, <1>2 DEF SessionInv, StagesFit, InProgress
<1>6. Solitude'
  BY <1>2, <1>3 DEF SessionInv, Solitude, InProgress
<1>7. LonersUndisturbed'
  <2>1. ASSUME NEW d \in InProgress', call'[d].alone  PROVE Undisturbed(d)'
    <3>1. Undisturbed(d)
      BY <1>2, <2>1 DEF SessionInv, LonersUndisturbed, InProgress
    <3>2. CASE d = c
      BY <1>1, <1>2, <1>3, <3>1, <3>2 DEF Undisturbed
    <3>3. CASE d # c
      BY <1>2, <1>3, <1>4, <2>1, <3>1, <3>3 DEF Undisturbed, InProgress
    <3> QED BY <3>2, <3>3
  <2> QED BY <2>1 DEF LonersUndisturbed
<1>8. AgreeUntilWritten'
  <2>1. ASSUME NEW d \in InProgress  PROVE HasNotWritten(d)' => HasNotWritten(d)
    BY <1>1, <1>2, <2>1 DEF HasNotWritten, InProgress
  <2> QED BY <1>2, <1>3, <1>4, <2>1 DEF SessionInv, AgreeUntilWritten
<1>9. ReadsEnvironment'
  BY <1>2, <1>3 DEF SessionInv, ReadsEnvironment, Loaded
<1>10. EnvironmentWins' /\ AloneTakesEffect'
  BY <1>3 DEF SessionInv, EnvironmentWins, AloneTakesEffect, Loaded
<1> QED BY <1>5, <1>6, <1>7, <1>8, <1>9, <1>10 DEF Parts

\* configure writes the profile: memory and disk may differ from here on.
LEMMA SaveSucceedsStep ==
  ASSUME SessionInv, NEW c \in Calls, SaveSucceeds(c)
  PROVE  Parts'
<1>1. TypeOK /\ call[c].pc = "saving" /\ Moves(c, "activating")
  BY DEF SessionInv, SaveSucceeds
<1>2. /\ InProgress' = InProgress
      /\ \A d \in Calls : d # c => call'[d] = call[d]
      /\ c \in InProgress
      /\ call'[c].pc = "activating"
      /\ call'[c].action = call[c].action
      /\ call'[c].name = call[c].name
      /\ call'[c].tenant = call[c].tenant
      /\ call'[c].found = call[c].found
      /\ call'[c].alone = call[c].alone
  BY <1>1, MovesEffect
<1>3. /\ UNCHANGED <<env, active, session, settled>>
      /\ profiles' = [profiles EXCEPT ![call[c].name] = call[c].tenant]
      /\ answer' = Nothing
  BY DEF SaveSucceeds, Moves
<1>4. call[c].action = "configure"
  BY <1>1, <1>2 DEF SessionInv, StagesFit
<1>5. StagesFit'
  BY <1>2 DEF SessionInv, StagesFit, InProgress
<1>6. Solitude'
  BY <1>2, <1>3 DEF SessionInv, Solitude, InProgress
<1>7. LonersUndisturbed'
  <2>1. ASSUME NEW d \in InProgress', call'[d].alone  PROVE d = c /\ Undisturbed(c)
    BY <1>2, <2>1 DEF SessionInv, Solitude, LonersUndisturbed, InProgress
  <2>2. call[c].name \in Names
    BY <1>1, InProgressTyped DEF CallInProgress
  <2>3. profiles'[call[c].name] = call[c].tenant
    BY <1>1, <1>3, <2>2 DEF TypeOK
  <2>4. Undisturbed(c) => Undisturbed(c)'
    BY <1>1, <1>2, <1>3, <2>3 DEF Undisturbed
  <2> QED BY <2>1, <2>4 DEF LonersUndisturbed
<1>8. AgreeUntilWritten'
  BY <1>2, <1>4 DEF AgreeUntilWritten, HasNotWritten
<1>9. ReadsEnvironment'
  BY <1>2, <1>3 DEF SessionInv, ReadsEnvironment, Loaded
<1>10. EnvironmentWins' /\ AloneTakesEffect'
  BY <1>3 DEF SessionInv, EnvironmentWins, AloneTakesEffect, Loaded
<1> QED BY <1>5, <1>6, <1>7, <1>8, <1>9, <1>10 DEF Parts

\* The profile becomes the active one.
LEMMA ActivationSucceedsStep ==
  ASSUME SessionInv, NEW c \in Calls, ActivationSucceeds(c)
  PROVE  Parts'
<1>1. TypeOK /\ call[c].pc = "activating" /\ Moves(c, "reloading")
  BY DEF SessionInv, ActivationSucceeds
<1>2. /\ InProgress' = InProgress
      /\ \A d \in Calls : d # c => call'[d] = call[d]
      /\ c \in InProgress
      /\ call'[c].pc = "reloading"
      /\ call'[c].action = call[c].action
      /\ call'[c].name = call[c].name
      /\ call'[c].tenant = call[c].tenant
      /\ call'[c].found = call[c].found
      /\ call'[c].alone = call[c].alone
  BY <1>1, MovesEffect
<1>3. /\ UNCHANGED <<env, profiles, session, settled>>
      /\ profiles[call[c].name] # Nothing
      /\ active' = call[c].name
      /\ answer' = Nothing
  BY DEF ActivationSucceeds, Moves
<1>4. StagesFit'
  BY <1>2 DEF SessionInv, StagesFit, InProgress
<1>5. Solitude'
  BY <1>2, <1>3 DEF SessionInv, Solitude, InProgress
<1>6. LonersUndisturbed'
  <2>1. ASSUME NEW d \in InProgress', call'[d].alone  PROVE d = c /\ Undisturbed(c)
    BY <1>2, <2>1 DEF SessionInv, Solitude, LonersUndisturbed, InProgress
  <2>2. Undisturbed(c) => Undisturbed(c)'
    BY <1>1, <1>2, <1>3 DEF Undisturbed
  <2> QED BY <2>1, <2>2 DEF LonersUndisturbed
<1>7. AgreeUntilWritten'
  BY <1>2 DEF AgreeUntilWritten, HasNotWritten
<1>8. ReadsEnvironment'
  BY <1>2, <1>3 DEF SessionInv, ReadsEnvironment, Loaded
<1>9. EnvironmentWins' /\ AloneTakesEffect'
  BY <1>3 DEF SessionInv, EnvironmentWins, AloneTakesEffect, Loaded
<1> QED BY <1>4, <1>5, <1>6, <1>7, <1>8, <1>9 DEF Parts

\* The reload has read what is on disk now.
LEMMA ReloadReadsStep ==
  ASSUME SessionInv, NEW c \in Calls, ReloadReads(c)
  PROVE  Parts'
<1>1. TypeOK /\ call[c].pc = "reloading"
  BY DEF SessionInv, ReloadReads
<1>2. /\ InProgress' = InProgress
      /\ \A d \in Calls : d # c => call'[d] = call[d]
      /\ c \in InProgress
      /\ call'[c].pc = "reloaded"
      /\ call'[c].read = Credentials
      /\ call'[c].action = call[c].action
      /\ call'[c].name = call[c].name
      /\ call'[c].tenant = call[c].tenant
      /\ call'[c].found = call[c].found
      /\ call'[c].alone = call[c].alone
  BY <1>1, ReadEffect
<1>3. UNCHANGED <<env, profiles, active, session, settled>> /\ answer' = Nothing
  BY DEF ReloadReads
<1>4. Credentials' = Credentials
  BY <1>3 DEF Credentials
<1>5. StagesFit'
  BY <1>1, <1>2, CredentialsTyped DEF SessionInv, StagesFit, InProgress
<1>6. Solitude'
  BY <1>2, <1>3 DEF SessionInv, Solitude, InProgress
<1>7. LonersUndisturbed'
  <2>1. ASSUME NEW d \in InProgress', call'[d].alone  PROVE d = c /\ Undisturbed(c)
    BY <1>2, <2>1 DEF SessionInv, Solitude, LonersUndisturbed, InProgress
  <2>2. Undisturbed(c) => Undisturbed(c)'
    BY <1>1, <1>2, <1>3, <1>4 DEF Undisturbed
  <2> QED BY <2>1, <2>2 DEF LonersUndisturbed
<1>8. AgreeUntilWritten'
  BY <1>2 DEF AgreeUntilWritten, HasNotWritten
<1>9. ReadsEnvironment'
  <2>1. env # Nothing => Credentials = Loaded(env, Nothing)
    BY DEF Credentials
  <2> QED BY <1>2, <1>3, <2>1 DEF SessionInv, ReadsEnvironment, Loaded
<1>10. EnvironmentWins' /\ AloneTakesEffect'
  BY <1>3 DEF SessionInv, EnvironmentWins, AloneTakesEffect, Loaded
<1> QED BY <1>5, <1>6, <1>7, <1>8, <1>9, <1>10 DEF Parts

-----------------------------------------------------------------------------
(* The theorems *)

LEMMA Initially ==
  ASSUME Init
  PROVE  SessionInv
<1>1. InProgress = {} /\ ~session.running /\ \A c \in Calls : call[c].pc = "idle"
  BY DEF Init, InProgress, Idle, Down
<1>2. TypeOK
  BY SessionConstants DEF Init, TypeOK, Down, Idle, SessionType, CallType, CredentialsOrNone
<1>3. StagesFit /\ Solitude /\ LonersUndisturbed
  BY <1>1 DEF StagesFit, Solitude, LonersUndisturbed
<1>4. AgreeUntilWritten /\ EnvironmentWins /\ ReadsEnvironment
  BY <1>1 DEF AgreeUntilWritten, EnvironmentWins, ReadsEnvironment
<1>5. AloneTakesEffect
  BY DEF Init, AloneTakesEffect
<1> QED BY <1>2, <1>3, <1>4, <1>5 DEF SessionInv

LEMMA Stutters ==
  ASSUME SessionInv, UNCHANGED vars
  PROVE  Parts'
  BY DEF vars, SessionInv, Parts, StagesFit, Solitude, LonersUndisturbed, Undisturbed,
         AgreeUntilWritten, HasNotWritten, ReadsEnvironment, EnvironmentWins,
         AloneTakesEffect, InProgress, Credentials, Loaded

LEMMA Inductive ==
  ASSUME SessionInv, [Next]_vars
  PROVE  SessionInv'
<1>1. TypeOK'
  BY TypeStep DEF SessionInv
<1>2. Parts'
  <2>1. CASE Start
    BY <2>1, StartStep
  <2>2. CASE Stop
    BY <2>2, StopStep
  <2>3. CASE UNCHANGED vars
    BY <2>3, Stutters
  <2>4. ASSUME NEW c \in Calls, Begins(c)  PROVE Parts'
    BY <2>4, BeginStep
  <2>5. ASSUME NEW c \in Calls, CallSteps(c)  PROVE Parts'
    BY <2>5, FailureStep, VerificationPassesStep, SaveSucceedsStep,
       ActivationSucceedsStep, ReloadReadsStep, ReloadEndsStep
    DEF CallSteps
  <2> QED BY <2>1, <2>2, <2>3, <2>4, <2>5, NextCases
<1> QED BY <1>1, <1>2 DEF SessionInv, Parts

LEMMA Invariant == Spec => []SessionInv
<1>1. Init => SessionInv
  BY Initially
<1>2. SessionInv /\ [Next]_vars => SessionInv'
  BY Inductive
<1> QED BY <1>1, <1>2, PTL DEF Spec

\* The state keeps its type and the active profile exists, for any calls of
\* configure-auth interleaved at their awaits.
THEOREM TypeCorrect == Spec => []TypeOK
<1>1. SessionInv => TypeOK
  BY DEF SessionInv
<1> QED BY <1>1, Invariant, PTL

\* Credentials in the environment override the profiles, whatever calls of
\* configure-auth do and however they interleave.
THEOREM EnvironmentOverrides == Spec => []EnvironmentWins
<1>1. SessionInv => EnvironmentWins
  BY DEF SessionInv
<1> QED BY <1>1, Invariant, PTL

\* Between calls that have not overlapped or failed half-way, a restart would load
\* what the server works with.
THEOREM MemoryAgreesWithDisk == Spec => []DurableSession
<1>1. SessionInv => DurableSession
  BY DEF SessionInv, AgreeUntilWritten, DurableSession
<1> QED BY <1>1, Invariant, PTL

\* A call of configure-auth that ran alone has done what it reports.
THEOREM AnswersAreTrue == Spec => []AloneTakesEffect
<1>1. SessionInv => AloneTakesEffect
  BY DEF SessionInv
<1> QED BY <1>1, Invariant, PTL

=============================================================================
