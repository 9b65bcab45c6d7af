------------------------------- MODULE Onboard ------------------------------
(***************************************************************************)
(* Bringing a machine into the cluster with ufctl: logging in              *)
(* (internal/commands/local/auth.go, ssh_auth.go, internal/auth), choosing *)
(* an organisation (org.go), registering or claiming a server (register.go,*)
(* start.go, claim.go, internal/server/service.go) and obtaining its mTLS  *)
(* certificate (mtls_setup.go, generate_csr.go, submit_csr.go).            *)
(*                                                                         *)
(* Each command reads config.yaml once, when it begins, and every Set      *)
(* writes back the whole of its copy (policy_manager/client.go).  The      *)
(* certificate files are kept per server ID.  What the user types, and the *)
(* control plane's answers, are free choices.                              *)
(***************************************************************************)
EXTENDS Integers, FiniteSets

CONSTANTS Terminals,     \* the terminals in which ufctl runs
          MaxServers,    \* bound: server records the control plane ever holds
          MaxKeys,       \* bound: private keys ever generated
          MaxObEvents    \* bound: commands and faults

VARIABLES config,        \* config.yaml
          keyFile, csrFile, crtFile,   \* [server ID -> the key the file is for, 0 if absent]
          cloud,         \* the server records of the control plane
          created,       \* ghost: the records created from this machine
          cli,           \* [terminal -> the command in progress]
          keysMade,      \* private keys generated so far
          torn,          \* ghost: commands overlapped, or one ended between two files
          faults,        \* ghost: how many faults have happened
          obEvents

obvars == <<config, keyFile, csrFile, crtFile, cloud, created, cli, keysMade, torn, faults, obEvents>>

Ids == 1..MaxServers
Kinds == {"login", "sshlogin", "logout", "switch", "register", "existing", "start", "generate", "submit"}

Blank == [token |-> FALSE, org |-> 0, id |-> 0, name |-> FALSE, crt |-> 0, key |-> 0]
AtRest == [pc |-> "idle", kind |-> "login", mem |-> Blank, key |-> 0]

ObHappens == /\ obEvents < MaxObEvents
             /\ obEvents' = obEvents + 1
Fault == ObHappens /\ faults' = faults + 1

NewCLIConfigClient == Blank

ObInit ==
  /\ config = NewCLIConfigClient
  /\ keyFile = [s \in Ids |-> 0] /\ csrFile = [s \in Ids |-> 0] /\ crtFile = [s \in Ids |-> 0]
  /\ cloud \in {{}, {MaxServers}}        \* the organisation may have another server already
  /\ created = {} /\ keysMade = 0
  /\ cli = [t \in Terminals |-> AtRest]
  /\ torn = FALSE /\ faults = 0 /\ obEvents = 0

-----------------------------------------------------------------------------
(* The command's copy of the configuration. *)

At(t, pc) == cli[t].pc = pc
Mem(t) == cli[t].mem
Goto(t, pc) == cli' = [cli EXCEPT ![t].pc = pc]
Return(t) == cli' = [cli EXCEPT ![t] = AtRest]

\* Set: change the copy, write all of it.
SetAnd(t, mem, pc) ==
  /\ config' = mem
  /\ cli' = [cli EXCEPT ![t] = IF pc = "idle" THEN AtRest ELSE [@ EXCEPT !.mem = mem, !.pc = pc]]

files == <<keyFile, csrFile, crtFile, keysMade>>

NewDependencyManager(t, kind) ==
  /\ At(t, "idle") /\ ObHappens
  /\ cli' = [cli EXCEPT ![t] = [AtRest EXCEPT !.pc = kind, !.kind = kind, !.mem = config]]
  /\ torn' = (torn \/ \E v \in Terminals : ~At(v, "idle"))
  /\ faults' = IF \E v \in Terminals : ~At(v, "idle") THEN faults + 1 ELSE faults
  /\ UNCHANGED <<config, files, cloud, created>>

\* A command gives up: refused, cancelled, or an answer it cannot use.
GiveUp(t) ==
  /\ \E pc \in {"login", "sshlogin", "signing", "switch", "register", "existing", "claim", "start", "generate", "submit", "org",
               "collision", "submitted"} : At(t, pc)
  /\ Return(t)
  /\ UNCHANGED <<config, files, cloud, created, torn, faults, obEvents>>

-----------------------------------------------------------------------------
(* Logging in and out. *)

\* StartDeviceFlow succeeds and the poller begins.
StartDeviceFlow(t) ==
  /\ At(t, "login")
  /\ Goto(t, "poll")
  /\ UNCHANGED <<config, files, cloud, created, torn, faults, obEvents>>

\* One tick of the poller that ends it: a token, or an error that is neither
\* authorization_pending nor slow_down.
PollForToken(t) ==
  /\ At(t, "poll")
  /\ \/ SetAnd(t, [Mem(t) EXCEPT !.token = TRUE], "org")
     \/ Return(t) /\ UNCHANGED config
  /\ UNCHANGED <<files, cloud, created, torn, faults, obEvents>>

\* The deadline; a tick that finds no answer yet changes nothing.
PollTimeout(t) ==
  /\ At(t, "poll")
  /\ Return(t)
  /\ UNCHANGED <<config, files, cloud, created, torn, faults, obEvents>>

AutoProvisionOrganization(t) ==
  /\ At(t, "org")
  /\ SetAnd(t, [Mem(t) EXCEPT !.org = 1], "idle")
  /\ UNCHANGED <<files, cloud, created, torn, faults, obEvents>>

RequestSSHChallenge(t) ==
  /\ At(t, "sshlogin")
  /\ Goto(t, "signing")
  /\ UNCHANGED <<config, files, cloud, created, torn, faults, obEvents>>

\* The SSH login also makes the given server this machine's.
runSSHAuth(t) ==
  /\ At(t, "signing")
  /\ \E s \in cloud : SetAnd(t, [Mem(t) EXCEPT !.token = TRUE, !.id = s, !.org = 1], "idle")
  /\ UNCHANGED <<files, cloud, created, torn, faults, obEvents>>

AuthLogoutCmd(t) ==
  /\ At(t, "logout")
  /\ SetAnd(t, [Mem(t) EXCEPT !.token = FALSE], "idle")
  /\ UNCHANGED <<files, cloud, created, torn, faults, obEvents>>

OrgSwitchCmd(t) ==
  /\ At(t, "switch") /\ Mem(t).token
  /\ \E o \in 1..2 : SetAnd(t, [Mem(t) EXCEPT !.org = o], "idle")
  /\ UNCHANGED <<files, cloud, created, torn, faults, obEvents>>

-----------------------------------------------------------------------------
(* Registering. *)

Registered(mem) == mem.id # 0 /\ mem.name

\* start: what is missing decides the step taken first.
StartCmd(t) ==
  /\ At(t, "start")
  /\ IF Registered(Mem(t)) THEN Goto(t, "mtls")
     ELSE \/ Goto(t, "claim")           \* --existing
          \/ Goto(t, "collision")
  /\ UNCHANGED <<config, files, cloud, created, torn, faults, obEvents>>

\* The name is looked up first; an error other than an active server, a failed
\* request included, means that the name is free.
NameCollision(t) ==
  /\ At(t, "collision")
  /\ \/ Goto(t, "lookup")
     \/ cloud # {} /\ Goto(t, "claim")
  /\ UNCHANGED <<config, files, cloud, created, torn, faults, obEvents>>

RegisterCmd(t) ==
  /\ At(t, "register")
  /\ Goto(t, "lookup")
  /\ UNCHANGED <<config, files, cloud, created, torn, faults, obEvents>>

\* RegisterServer keeps the ID in the configuration if the control plane has it.
LookupSkipped(t) ==
  /\ At(t, "lookup")
  /\ Goto(t, "create")
  /\ UNCHANGED <<config, files, cloud, created, torn, faults, obEvents>>

LookupExisting(t) ==
  /\ At(t, "lookup")
  /\ IF Mem(t).id \in cloud
     THEN SetAnd(t, [Mem(t) EXCEPT !.name = TRUE], "snapshot")
     ELSE Goto(t, "create") /\ UNCHANGED config
  /\ UNCHANGED <<files, cloud, created, torn, faults, obEvents>>

\* Any error of the lookup counts as "the server does not exist".
LookupFails(t) ==
  /\ At(t, "lookup") /\ Mem(t).id # 0 /\ Fault
  /\ Goto(t, "create")
  /\ UNCHANGED <<config, files, cloud, created, torn>>

NewId(s) == s \notin cloud \cup created /\ \A r \in 1..(s - 1) : r \in cloud \cup created

RegisterServer(t) ==
  /\ At(t, "create") /\ Mem(t).token
  /\ \E s \in Ids :
       /\ NewId(s)
       /\ cloud' = cloud \cup {s} /\ created' = created \cup {s}
       /\ \E o \in {1, Mem(t).org} :
            SetAnd(t, [Mem(t) EXCEPT !.id = s, !.name = TRUE, !.org = o], "snapshot")
  /\ UNCHANGED <<files, torn, faults, obEvents>>

\* The record is made and the answer, or the command, is lost.
RegisterLost(t) ==
  /\ At(t, "create") /\ Mem(t).token /\ Fault
  /\ \E s \in Ids : NewId(s) /\ cloud' = cloud \cup {s} /\ created' = created \cup {s}
  /\ Return(t)
  /\ UNCHANGED <<config, files, torn>>

RegisterRefused(t) ==
  /\ At(t, "create")
  /\ Return(t)
  /\ UNCHANGED <<config, files, cloud, created, torn, faults, obEvents>>

\* A server that has not checked in for five minutes may be claimed.
FindExistingServer == cloud

DownloadServerConfig(t, s) ==
  SetAnd(t, [Mem(t) EXCEPT !.id = s, !.name = TRUE, !.org = 1], "snapshot")

claimExistingServer(t) ==
  /\ At(t, "claim")
  /\ \E s \in FindExistingServer : DownloadServerConfig(t, s)
  /\ UNCHANGED <<files, cloud, created, torn, faults, obEvents>>

\* register --existing claims a server whether or not the machine has one.
RegisterExisting(t) ==
  /\ At(t, "existing")
  /\ \E s \in FindExistingServer : DownloadServerConfig(t, s)
  /\ UNCHANGED <<files, cloud, created, torn, faults, obEvents>>

\* Best effort: the agent fetches the snapshot again when it starts.
downloadAndSaveConfigSnapshot(t) ==
  /\ At(t, "snapshot")
  /\ Goto(t, "mtls")
  /\ UNCHANGED <<config, files, cloud, created, torn, faults, obEvents>>

-----------------------------------------------------------------------------
(* The certificate. *)

CertificateExists(t) == crtFile[Mem(t).id] # 0

\* A certificate already there ends the setup, whatever the configuration says.
SetupDone(t) ==
  /\ At(t, "mtls") /\ CertificateExists(t)
  /\ Goto(t, "finish")
  /\ UNCHANGED <<config, files, cloud, created, torn, faults, obEvents>>

NewKey(t, pc) ==
  /\ keysMade < MaxKeys
  /\ keysMade' = keysMade + 1
  /\ keyFile' = [keyFile EXCEPT ![Mem(t).id] = keysMade + 1]
  /\ cli' = [cli EXCEPT ![t].pc = pc, ![t].key = keysMade + 1]

SetupKey(t) ==
  /\ At(t, "mtls") /\ ~CertificateExists(t)
  /\ NewKey(t, "csr")
  /\ UNCHANGED <<config, csrFile, crtFile, cloud, created, torn, faults, obEvents>>

SaveCSR(t) ==
  /\ At(t, "csr")
  /\ csrFile' = [csrFile EXCEPT ![Mem(t).id] = cli[t].key]
  /\ IF cli[t].kind = "generate"
     THEN SetAnd(t, [Mem(t) EXCEPT !.key = Mem(t).id], "idle")
     ELSE Goto(t, "submitted") /\ UNCHANGED config
  /\ UNCHANGED <<keyFile, crtFile, keysMade, cloud, created, torn, faults, obEvents>>

GenerateCSRCmd(t) ==
  /\ At(t, "generate") /\ Mem(t).id # 0
  /\ NewKey(t, "csr")
  /\ UNCHANGED <<config, csrFile, crtFile, cloud, created, torn, faults, obEvents>>

SubmitCSRCmd(t) ==
  /\ At(t, "submit") /\ Mem(t).id # 0
  /\ csrFile[Mem(t).id] # 0
  /\ cli' = [cli EXCEPT ![t].pc = "submitted", ![t].key = csrFile[Mem(t).id]]
  /\ UNCHANGED <<config, files, cloud, created, torn, faults, obEvents>>

\* The control plane signs the request of a server it knows.
SignCSR(t) ==
  /\ At(t, "submitted") /\ Mem(t).token /\ Mem(t).id \in cloud
  /\ Goto(t, "cert")
  /\ UNCHANGED <<config, files, cloud, created, torn, faults, obEvents>>

SaveCertificate(t) ==
  /\ At(t, "cert")
  /\ crtFile' = [crtFile EXCEPT ![Mem(t).id] = cli[t].key]
  /\ Goto(t, "paths")
  /\ UNCHANGED <<config, keyFile, csrFile, keysMade, cloud, created, torn, faults, obEvents>>

SavePaths(t) ==
  /\ At(t, "paths")
  /\ SetAnd(t, [Mem(t) EXCEPT !.crt = Mem(t).id, !.key = Mem(t).id],
            IF cli[t].kind = "submit" THEN "idle" ELSE "finish")
  /\ UNCHANGED <<files, cloud, created, torn, faults, obEvents>>

\* start saves the agent's port, with the rest, and goes on to launch the
\* agent; register ends.
Finish(t) ==
  /\ At(t, "finish")
  /\ IF cli[t].kind = "start" THEN SetAnd(t, Mem(t), "idle") ELSE Return(t) /\ UNCHANGED config
  /\ UNCHANGED <<files, cloud, created, torn, faults, obEvents>>

-----------------------------------------------------------------------------
(* The environment. *)

Interrupt(t) ==
  /\ ~At(t, "idle") /\ Fault
  /\ Return(t)
  /\ torn' = (torn \/ cli[t].pc \in {"csr", "submitted", "cert", "paths"})
  /\ UNCHANGED <<config, files, cloud, created>>

\* config.yaml is removed; the certificates stay.
WipeConfig ==
  /\ \A t \in Terminals : At(t, "idle")
  /\ config # Blank /\ Fault
  /\ config' = Blank
  /\ UNCHANGED <<files, cloud, created, cli, torn>>

Decommission(s) ==
  /\ s \in cloud /\ Fault
  /\ cloud' = cloud \ {s}
  /\ UNCHANGED <<config, files, created, cli, torn>>

CliSteps(t) ==
  \/ StartDeviceFlow(t) \/ PollForToken(t) \/ PollTimeout(t) \/ AutoProvisionOrganization(t)
  \/ RequestSSHChallenge(t) \/ runSSHAuth(t) \/ AuthLogoutCmd(t) \/ OrgSwitchCmd(t) \/ StartCmd(t) \/ NameCollision(t)
  \/ RegisterCmd(t) \/ LookupExisting(t) \/ RegisterServer(t) \/ RegisterRefused(t)
  \/ claimExistingServer(t) \/ RegisterExisting(t) \/ downloadAndSaveConfigSnapshot(t) \/ SetupDone(t) \/ SetupKey(t)
  \/ SaveCSR(t) \/ GenerateCSRCmd(t) \/ SubmitCSRCmd(t) \/ SignCSR(t) \/ SaveCertificate(t)
  \/ SavePaths(t) \/ Finish(t)

ObNext ==
  \/ \E t \in Terminals : CliSteps(t) \/ GiveUp(t) \/ LookupFails(t) \/ RegisterLost(t) \/ Interrupt(t)
                          \/ \E k \in Kinds : NewDependencyManager(t, k)
  \/ WipeConfig
  \/ \E s \in Ids : Decommission(s)

ObSpec == ObInit /\ [][ObNext]_obvars

\* The poller's deadline passes; it is the only wait for a person with one.
ObFairSpec == ObSpec /\ \A t \in Terminals : WF_obvars(PollTimeout(t)) /\ WF_obvars(AutoProvisionOrganization(t))

-----------------------------------------------------------------------------
(* Properties. *)

(* Registration is idempotent: each server record beyond the first that this  *)
(* machine has created is the price of a fault, a lookup that failed, a lost  *)
(* answer, an interrupted or overlapping command, or a record or              *)
(* configuration removed in between.                                          *)
OneServer == Cardinality(created) <= 1 + faults

(* At rest, and unless commands overlapped or one was cut short between two   *)
(* files, the certificate of a server is for the private key beside it, or    *)
(* the request on file is and submitting it will repair the pair.             *)
PairRepairable ==
  torn \/ (\E t \in Terminals : ~At(t, "idle")) \/
  \A s \in Ids : crtFile[s] # 0 => keyFile[s] \in {crtFile[s], csrFile[s]}

(* When the setup made a certificate, the configuration that is left names    *)
(* the certificate and the key of the server it names.                        *)
SetupConfigures ==
  \A t \in Terminals : At(t, "finish") /\ ~torn /\ cli[t].key # 0 =>
     /\ config.id = config.crt /\ config.id = config.key
     /\ crtFile[config.id] = keyFile[config.id]

(* A device login ends, whatever the user does in the browser.                *)
LoginEnds == \A t \in Terminals : []<>~At(t, "poll")
=============================================================================
