------------------------------ MODULE Install ------------------------------
(***************************************************************************)
(* The directory of a node and the commands that work in it: `mesh init`,  *)
(* `mesh join` and `mesh proxy` up to the point where it has logged in     *)
(* (cmd/mesh, mesh.LoadOrCreateKey, mesh.NewService).  Two files carry the *)
(* identity of the node from one command to the next: node.key, which      *)
(* gives its peer id, and config.yaml, which holds the secret that a       *)
(* redeemed invite was answered with.  The admin server keeps the hash of  *)
(* that secret under that id.  A command may end anywhere: by an error, or *)
(* because it is stopped.                                                  *)
(*                                                                         *)
(* One command runs at a time.  relay.key is written and read like         *)
(* node.key; its use is in AdminProcess.                                   *)
(***************************************************************************)
EXTENDS FiniteSets

CONSTANTS
    Id,         \* peer ids of the keys that may be generated
    Secret      \* secrets the admin server may hand out; bounds redemptions

NoId == "no id"
NoSecret == "no secret"

\* What the files hold when it is no key and no secret: os.WriteFile truncates
\* before it writes, and may write a part.
NoKey == {"absent", "torn"}
NoConfig == {"absent", "empty", "torn", "init"}

ASSUME InstallAssumption ==
    /\ NoId \notin Id /\ NoSecret \notin Secret
    /\ Id \cap NoKey = {} /\ Secret \cap NoConfig = {}

VARIABLES
    keyFile,    \* node.key: the id of the key in it
    configFile, \* config.yaml: the mesh secret in it; "init": what init writes
    pc,         \* the next step of the command that runs, or "idle"
    command,    \* "init", "join" or "proxy"
    id,         \* the command's own id, once it has a key
    secret,     \* the secret it was answered or has loaded
    records,    \* at the admin server, per id, the secret whose hash is stored
    generated,  \* history: the ids generated so far
    issued,     \* history: the secrets handed out so far
    unsaved     \* history: the last secret handed out did not get into the file

files == <<keyFile, configFile>>
memory == <<pc, command, id, secret>>
history == <<generated, issued, unsaved>>
installVars == <<files, memory, records, history>>

Goto(step) == pc' = step

Fresh(S) == CHOOSE x \in S : TRUE
----------------------------------------------------------------------------
InstallInit ==
    /\ keyFile = "absent"
    /\ configFile = "absent"
    /\ pc = "idle"
    /\ command = "proxy"
    /\ id = NoId
    /\ secret = NoSecret
    /\ records = [i \in Id |-> NoSecret]
    /\ generated = {}
    /\ issued = {}
    /\ unsaved = FALSE

\* A command starts at the given step.
Run(name, step) ==
    /\ pc = "idle"
    /\ Goto(step)
    /\ command' = name
    /\ id' = NoId
    /\ secret' = NoSecret
    /\ UNCHANGED <<files, records, history>>

\* initializeNewInstall, once the user has confirmed: config.yaml comes first.
initializeNewInstall == Run("init", "open")

\* existingJoinConfig: go on if there is no config.yaml, or if it can be loaded
\* and the user says so.  A part of one may be valid YAML, or not.
runJoin == Run("join", "key")

\* main for `mesh proxy`
main == Run("proxy", "load")

\* The command returns an error, is aborted by the user, or is stopped.
CommandEnds ==
    /\ pc # "idle"
    /\ Goto("idle")
    /\ UNCHANGED <<files, command, id, secret, records, history>>

\* The user removes a file that the commands refuse to read.
RemoveTorn ==
    /\ pc = "idle"
    /\ \/ keyFile = "torn" /\ keyFile' = "absent" /\ UNCHANGED configFile
       \/ configFile = "torn" /\ configFile' = "absent" /\ UNCHANGED keyFile
    /\ UNCHANGED <<memory, records, history>>
----------------------------------------------------------------------------
\* What a command does once LoadOrCreateKey has returned.
AfterKey ==
    CASE command = "init" -> "idle"
      [] command = "join" -> "redeem"
      [] OTHER -> "login"

\* LoadOrCreateKey finds a key.  (A torn one is an error: CommandEnds.)
LoadKey ==
    /\ pc = "key" /\ keyFile \in Id
    /\ id' = keyFile
    /\ Goto(AfterKey)
    /\ UNCHANGED <<files, command, secret, records, history>>

\* Mutant: a key that is there is not looked for.
CreateKeyAnyway ==
    /\ pc = "key" /\ Id \ generated # {}
    /\ id' = Fresh(Id \ generated)
    /\ generated' = generated \cup {id'}
    /\ keyFile' = "torn"
    /\ Goto("keyWrite")
    /\ UNCHANGED <<configFile, command, secret, records, issued, unsaved>>

\* It finds none: generate a key and open the file ...
CreateKey ==
    /\ pc = "key" /\ keyFile = "absent" /\ Id \ generated # {}
    /\ id' = Fresh(Id \ generated)
    /\ generated' = generated \cup {id'}
    /\ keyFile' = "torn"
    /\ Goto("keyWrite")
    /\ UNCHANGED <<configFile, command, secret, records, issued, unsaved>>

\* Mutant: an error of WriteFile is dropped.
WriteKeyUnchecked ==
    /\ pc = "keyWrite"
    /\ keyFile' \in {id, keyFile}
    /\ Goto(AfterKey)
    /\ UNCHANGED <<configFile, command, id, secret, records, history>>

\* ... and write it.  (When that fails a part may be there: CommandEnds.)
WriteKey ==
    /\ pc = "keyWrite"
    /\ keyFile' = id
    /\ Goto(AfterKey)
    /\ UNCHANGED <<configFile, command, id, secret, records, history>>
----------------------------------------------------------------------------
\* RedeemInvite: the admin server stores the hash of a fresh secret under the id
\* (adminRedeemInviteLink); its answer arrives, or is lost (CommandEnds).
RedeemInvite ==
    /\ pc = "redeem" /\ Secret \ issued # {}
    /\ secret' = Fresh(Secret \ issued)
    /\ issued' = issued \cup {secret'}
    /\ records' = [records EXCEPT ![id] = secret']
    /\ unsaved' = TRUE
    /\ Goto("open")
    /\ UNCHANGED <<files, command, id, generated>>

\* os.WriteFile of config.yaml: open ...
OpenConfig ==
    /\ pc = "open"
    /\ configFile' = "empty"
    /\ Goto("write")
    /\ UNCHANGED <<keyFile, command, id, secret, records, history>>

\* defaultConfigYAML writes the address and the secret as mesh.admin_address and
\* mesh.admin_secret, which Config does not have.
defaultConfigYAML == "init"

\* configFromInvite: the secret of the answer, whatever was there.
configFromInvite == secret

\* ... and write all of it ...
WriteConfig ==
    /\ pc = "write"
    /\ configFile' = IF command = "init" THEN defaultConfigYAML ELSE configFromInvite
    /\ unsaved' = IF command = "init" THEN unsaved ELSE FALSE
    /\ Goto(IF command = "init" THEN "key" ELSE "load")
    /\ UNCHANGED <<keyFile, command, id, secret, records, generated, issued>>

\* ... or a part, which is an error.
WriteConfigPart ==
    /\ pc = "write"
    /\ configFile' = "torn"
    /\ Goto("idle")
    /\ UNCHANGED <<keyFile, command, id, secret, records, history>>
----------------------------------------------------------------------------
\* LoadConfig: the secrets that may be found next to an address.  An empty file
\* is a configuration without an address; a part of a file may end in the
\* middle of the secret.
LoadConfig ==
    CASE configFile \in Secret -> {configFile}
      [] configFile = "torn" -> {NoSecret}
      [] OTHER -> {}

\* MustLoadConfig, which ends the process when mesh.address is not set.
MustLoadConfig ==
    /\ pc = "load"
    /\ secret' \in LoadConfig
    /\ command' = "proxy"
    /\ Goto("key")
    /\ UNCHANGED <<files, id, records, history>>

\* apiNodeLogin on the record of the id.
LoggedIn == secret # NoSecret /\ secret = records[id]

\* NewService: Login, GetAddress, the host, and Login again.
Login ==
    /\ pc = "login" /\ LoggedIn
    /\ Goto("host")
    /\ UNCHANGED <<files, command, id, secret, records, history>>

LoginAgain ==
    /\ pc = "host" /\ LoggedIn
    /\ Goto("proxy")
    /\ UNCHANGED <<files, command, id, secret, records, history>>

\* An administrator deletes the node.
adminDeleteNode ==
    /\ \E i \in Id : records[i] # NoSecret /\ records' = [records EXCEPT ![i] = NoSecret]
    /\ UNCHANGED <<files, memory, history>>

Command ==
    \/ initializeNewInstall \/ runJoin \/ main \/ CommandEnds \/ RemoveTorn
    \/ LoadKey \/ CreateKey \/ WriteKey
    \/ RedeemInvite \/ OpenConfig \/ WriteConfig \/ WriteConfigPart
    \/ MustLoadConfig \/ Login \/ LoginAgain

InstallNext == Command \/ adminDeleteNode
----------------------------------------------------------------------------
\* Every variable has its type.
InstallTypeOK ==
    /\ keyFile \in Id \cup NoKey
    /\ configFile \in Secret \cup NoConfig
    /\ pc \in {"idle", "key", "keyWrite", "redeem", "open", "write", "load",
               "login", "host", "proxy", "waiting", "serving", "shutdown"}
    /\ command \in {"init", "join", "proxy"}
    /\ id \in Id \cup {NoId}
    /\ secret \in Secret \cup {NoSecret}
    /\ records \in [Id -> Secret \cup {NoSecret}]
    /\ generated \in SUBSET Id
    /\ issued \in SUBSET Secret
    /\ unsaved \in BOOLEAN

\* The admin server never holds a record for an id whose key the node has lost:
\* joinWithInvite redeems only with a key that is already on disk, and no
\* command, wherever it ends, replaces it (app_join.go:92-105, helpers.go:80-99).
RecordedIdIsKept == \A i \in Id : records[i] # NoSecret => keyFile = i

\* "Existing node.key / relay.key files will be kept" (app_init.go:323): no
\* command changes a key once it is written.
KeyIsKept == [][(keyFile \in Id) => (keyFile' = keyFile)]_installVars

\* A node that has joined gets in at every later start: its configuration and
\* its key belong together and match the record, until an administrator
\* deletes the node or a later redemption is cut off before its secret is
\* written, which makes the secret in the file useless
\* (app_join.go:105-117, service.go:393).
JoinedGetsIn ==
    (configFile \in Secret /\ ~unsaved) =>
        keyFile \in Id /\ records[keyFile] \in {configFile, NoSecret}
============================================================================
