----------------------------- MODULE Credentials -----------------------------
(***************************************************************************)
(* The credential manager and its secret store (src/src/credentials.js,    *)
(* src/src/security/secrets.js): the agent process and a command-line      *)
(* process each load the secrets file into a copy of their own and write   *)
(* the whole copy back, make or read the AGEX identity, start a hub-lite   *)
(* when no hub answers, and keep trying every 30 seconds.                  *)
(***************************************************************************)
EXTENDS Integers

CONSTANTS Process,      \* the processes that hold a CredentialManager
          Try,          \* _connectHub calls of one process under way at once
          Nobody

VARIABLES life,         \* "down", "boots" until init() returns, "up", "closed"
          secretsFile,  \* the secrets file: whose identity key it holds, and a
                        \* second secret
          copy,         \* localSecrets.secrets of each process
          aidFile,      \* whose identity agex/aid.json holds
          sdk,          \* "untried", "loaded", "failed"
          remoteUp,     \* the configured hub answers
          lite,         \* the process whose hub-lite has the port
          hubUrl,       \* "remote" or "local"
          try,          \* the step of each _connectHub
          available,    \* agexAvailable
          hubTimer,     \* _reconnectTimer: "null", "runs", "cleared"
          given         \* what the last lookup of a managed key gave

credVars == <<life, secretsFile, copy, aidFile, sdk, remoteUp, lite, hubUrl, try, available, hubTimer, given>>
credKept == <<secretsFile, copy, aidFile>>

Secrets == [id: Process \cup {Nobody}, other: BOOLEAN]
NoSecrets == [id |-> Nobody, other |-> FALSE]

CredTypeOK ==
  /\ life \in [Process -> {"down", "boots", "up", "closed"}]
  /\ secretsFile \in Secrets /\ copy \in [Process -> Secrets] /\ aidFile \in Process \cup {Nobody}
  /\ sdk \in [Process -> {"untried", "loaded", "failed"}] /\ remoteUp \in BOOLEAN
  /\ lite \in Process \cup {Nobody} /\ hubUrl \in [Process -> {"remote", "local"}]
  /\ try \in [Process -> [Try -> {"none", "load", "health", "start", "identity", "make", "client"}]]
  /\ available \in [Process -> BOOLEAN] /\ hubTimer \in [Process -> {"null", "runs", "cleared"}]
  /\ given \in [Process -> {"nothing", "lease", "agex", "local"}]

CredInit ==
  /\ life = [p \in Process |-> "down"] /\ secretsFile = NoSecrets
  /\ copy = [p \in Process |-> NoSecrets] /\ aidFile = Nobody
  /\ sdk = [p \in Process |-> "untried"] /\ remoteUp \in BOOLEAN /\ lite = Nobody
  /\ hubUrl = [p \in Process |-> "remote"] /\ try = [p \in Process |-> [t \in Try |-> "none"]]
  /\ available = [p \in Process |-> FALSE] /\ hubTimer = [p \in Process |-> "null"]
  /\ given = [p \in Process |-> "nothing"]

AtStep(p, t, s) == life[p] # "down" /\ try[p][t] = s
MovesTo(p, t, s) == try' = [try EXCEPT ![p][t] = s]

-----------------------------------------------------------------------------
(* The secrets file *)

\* init(): the store loads the file, then the first attempt is awaited.
Init1(p, t) ==
  /\ life[p] = "down" /\ life' = [life EXCEPT ![p] = "boots"]
  /\ copy' = [copy EXCEPT ![p] = secretsFile] /\ MovesTo(p, t, "load")
  /\ UNCHANGED <<secretsFile, aidFile, sdk, remoteUp, lite, hubUrl, available, hubTimer, given>>

\* SecretStore.set and delete of another secret: the copy is changed and the
\* whole of it saved (a temporary file, then a rename).
Save(p, s) == copy' = [copy EXCEPT ![p] = s] /\ secretsFile' = s

SetSecret(p, has) ==
  /\ life[p] = "up" /\ Save(p, [copy[p] EXCEPT !.other = has])
  /\ UNCHANGED <<life, aidFile, sdk, remoteUp, lite, hubUrl, try, available, hubTimer, given>>

-----------------------------------------------------------------------------
(* The hub *)

\* An attempt that throws: init() starts the interval, unless there is one; a
\* tick of the interval waits for the next.
HubFails(p, t) ==
  /\ MovesTo(p, t, "none")
  /\ life' = [life EXCEPT ![p] = IF @ = "boots" THEN "up" ELSE @]
  /\ hubTimer' = [hubTimer EXCEPT ![p] = IF life[p] = "boots" /\ @ = "null" THEN "runs" ELSE @]

HubTick(p, t) ==
  /\ life[p] = "up" /\ hubTimer[p] = "runs" /\ try[p][t] = "none" /\ MovesTo(p, t, "load")
  /\ UNCHANGED <<life, credKept, sdk, remoteUp, lite, hubUrl, available, hubTimer, given>>

\* loadAgexSDK: imported once; a failure stands as long as the process.
LoadAgexSDK(p, t) ==
  /\ AtStep(p, t, "load")
  /\ \E s \in IF sdk[p] = "untried" THEN {"loaded", "failed"} ELSE {sdk[p]} : sdk' = [sdk EXCEPT ![p] = s]
  /\ IF sdk'[p] = "loaded" THEN MovesTo(p, t, "health") /\ UNCHANGED <<life, hubTimer>>
     ELSE HubFails(p, t)
  /\ UNCHANGED <<credKept, remoteUp, lite, hubUrl, available, given>>

HubAnswers(p) == IF hubUrl[p] = "remote" THEN remoteUp ELSE lite # Nobody

Health(p, t) ==
  /\ AtStep(p, t, "health") /\ MovesTo(p, t, IF HubAnswers(p) THEN "identity" ELSE "start")
  /\ UNCHANGED <<life, credKept, sdk, remoteUp, lite, hubUrl, available, hubTimer, given>>

\* startHubLite binds the port; where another process has it, it fails.
StartHubLite(p, t) ==
  /\ AtStep(p, t, "start")
  /\ \/ /\ lite = Nobody /\ lite' = p /\ hubUrl' = [hubUrl EXCEPT ![p] = "local"]
        /\ MovesTo(p, t, "identity") /\ UNCHANGED <<life, hubTimer>>
     \/ HubFails(p, t) /\ UNCHANGED <<lite, hubUrl>>
  /\ UNCHANGED <<credKept, sdk, remoteUp, available, given>>

\* _loadOrCreateAID: the file is read; where there is none, or it cannot be
\* parsed, an identity is made.
LoadAID(p, t) ==
  /\ AtStep(p, t, "identity")
  /\ \/ MovesTo(p, t, "make") /\ UNCHANGED <<life, hubTimer>>
     \/ aidFile # Nobody /\ copy[p].id # Nobody /\ MovesTo(p, t, "client") /\ UNCHANGED <<life, hubTimer>>
     \/ aidFile # Nobody /\ copy[p].id = Nobody /\ HubFails(p, t)
  /\ UNCHANGED <<credKept, sdk, remoteUp, lite, hubUrl, available, given>>

\* The identity is written, then its key is set and the secrets saved.
CreateAID(p, t) ==
  /\ AtStep(p, t, "make") /\ aidFile' = p
  /\ Save(p, [copy[p] EXCEPT !.id = p]) /\ MovesTo(p, t, "client")
  /\ UNCHANGED <<life, sdk, remoteUp, lite, hubUrl, available, hubTimer, given>>

\* The client is initialised, the identity registered, the interval stopped.
HubConnects(p, t) ==
  /\ AtStep(p, t, "client")
  /\ \/ /\ HubAnswers(p) /\ available' = [available EXCEPT ![p] = TRUE]
        /\ hubTimer' = [hubTimer EXCEPT ![p] = "null"] /\ MovesTo(p, t, "none")
        /\ life' = [life EXCEPT ![p] = IF @ = "boots" THEN "up" ELSE @]
     \/ HubFails(p, t) /\ UNCHANGED available
  /\ UNCHANGED <<credKept, sdk, remoteUp, lite, hubUrl, given>>

-----------------------------------------------------------------------------
(* Using a credential, and the end *)

\* A skill's call: an envelope delegated by the hub, unless it is refused or
\* expired; then get: from the hub, else from the local store.
UseCredential(p) ==
  /\ life[p] = "up"
  /\ \E out \in {"lease", "agex", "local", "nothing"} :
       /\ out \in {"lease", "agex"} => available[p] /\ HubAnswers(p)
       /\ out = "local" => copy[p].other
       /\ out = "nothing" => ~copy[p].other
       /\ given' = [given EXCEPT ![p] = out]
  /\ UNCHANGED <<life, credKept, sdk, remoteUp, lite, hubUrl, try, available, hubTimer>>

\* shutdown(): the interval cleared, the hub-lite closed; an attempt under way
\* goes on until the process exits.
CredShutdown(p) ==
  /\ life[p] = "up" /\ life' = [life EXCEPT ![p] = "closed"]
  /\ hubTimer' = [hubTimer EXCEPT ![p] = IF @ = "runs" THEN "cleared" ELSE @]
  /\ lite' = IF lite = p THEN Nobody ELSE lite
  /\ UNCHANGED <<credKept, sdk, remoteUp, hubUrl, try, available, given>>

\* The process exits or is killed, possibly between writing the identity and
\* its key.
ProcessEnds(p) ==
  /\ life[p] # "down" /\ life' = [life EXCEPT ![p] = "down"]
  /\ aidFile' \in {aidFile} \cup {q \in {p} : \E t \in Try : try[p][t] = "make"}
  /\ sdk' = [sdk EXCEPT ![p] = "untried"] /\ lite' = IF lite = p THEN Nobody ELSE lite
  /\ hubUrl' = [hubUrl EXCEPT ![p] = "remote"]
  /\ try' = [try EXCEPT ![p] = [t \in Try |-> "none"]]
  /\ available' = [available EXCEPT ![p] = FALSE] /\ hubTimer' = [hubTimer EXCEPT ![p] = "null"]
  /\ given' = [given EXCEPT ![p] = "nothing"] /\ copy' = [copy EXCEPT ![p] = NoSecrets]
  /\ UNCHANGED <<secretsFile, remoteUp>>

RemoteChanges ==
  /\ remoteUp' = ~remoteUp
  /\ UNCHANGED <<life, credKept, sdk, lite, hubUrl, try, available, hubTimer, given>>

CredNext ==
  \/ \E p \in Process, t \in Try :
       \/ Init1(p, t) \/ HubTick(p, t) \/ LoadAgexSDK(p, t) \/ Health(p, t) \/ StartHubLite(p, t)
       \/ LoadAID(p, t) \/ CreateAID(p, t) \/ HubConnects(p, t)
  \/ \E p \in Process, has \in BOOLEAN : SetSecret(p, has)
  \/ \E p \in Process : UseCredential(p) \/ CredShutdown(p) \/ ProcessEnds(p)
  \/ RemoteChanges

CredSpec == CredInit /\ [][CredNext]_credVars

-----------------------------------------------------------------------------
\* A manager that is up and not connected tries again ("Reconnects to Hub
\* automatically when it becomes available"), whatever attempts overlap.
HubIsRetried == \A p \in Process : life[p] = "up" => available[p] \/ hubTimer[p] = "runs"
=============================================================================
