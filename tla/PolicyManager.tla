--------------------------- MODULE PolicyManager ---------------------------
(***************************************************************************)
(* SnapshotPolicyManager (internal/policy_manager): the agent's copy of    *)
(* its policy, in memory and on disk, kept current by pushes that arrive   *)
(* over Spine and by a periodic pull.  Pushes, and the pull that a         *)
(* membership change triggers, run on Spine's dispatch goroutine; the      *)
(* periodic pull has its own.  updateSnapshot checks the version under a   *)
(* read lock, saves without it, then sets the memory and notifies.         *)
(*                                                                         *)
(* A snapshot is its version (0: none).  The one watcher stands for the    *)
(* command settings (wiring.go): read once at start, then changed by every *)
(* snapshot the watch channel delivers.                                    *)
(***************************************************************************)
EXTENDS Integers, Sequences

CONSTANTS MaxVersion,  \* bound: versions the control plane publishes
          ChanCap,     \* capacity of a watch channel (10 in the code)
          MaxPolicyFaults  \* bound: failed saves and restarts

ASSUME PolicyAssumption == MaxVersion \in Nat /\ ChanCap \in Nat /\ MaxPolicyFaults \in Nat

Updaters == {"dispatch", "periodic"}

VARIABLES server,   \* latest version at the control plane
          mem,      \* currentSnapshot
          disk,     \* snapshot.yaml
          pc,       \* per updater: "idle", "check", "save", "set", "notify"
          ver,      \* per updater: the version it brings
          base,     \* history, per updater: mem when it was checked
          overlap,  \* history: have two updates been past their check at once?
          missed,   \* history: has a notification been lost or overtaken?
          watcher,  \* the settings: "unread", "read", "watching"
          chan,     \* the watch channel
          seen,     \* version the settings were last taken from
          policyFaults

povars == <<server, mem, disk, pc, ver, base, overlap, missed, watcher, chan, seen, policyFaults>>
wvars == <<missed, watcher, chan, seen>>

PolicyVersions == 0 .. MaxVersion
PolicyFault == policyFaults < MaxPolicyFaults /\ policyFaults' = policyFaults + 1
Goto(u, step) == pc' = [pc EXCEPT ![u] = step]

PolicyInit == /\ server = 0 /\ mem = 0 /\ disk = 0
              /\ pc = [u \in Updaters |-> "idle"]
              /\ ver = [u \in Updaters |-> 0] /\ base = [u \in Updaters |-> 0]
              /\ overlap = "no"
              /\ missed = "no" /\ watcher = "unread" /\ chan = << >> /\ seen = 0
              /\ policyFaults = 0

-----------------------------------------------------------------------------
\* Start has returned and the Spine handlers are registered (they are after the
\* settings were read).
Registered == watcher # "unread"

\* The control plane publishes a version (and sends a push that may arrive
\* late, more than once or not at all).
Publish ==
    /\ server < MaxVersion
    /\ server' = server + 1
    /\ UNCHANGED <<mem, disk, pc, ver, base, wvars, overlap, policyFaults>>

HandlePushUpdate ==
    /\ Registered /\ pc["dispatch"] = "idle"
    /\ \E v \in 1 .. server : ver' = [ver EXCEPT !["dispatch"] = v]
    /\ Goto("dispatch", "check")
    /\ UNCHANGED <<server, mem, disk, base, wvars, overlap, policyFaults>>

\* reconcile, at Start and from the ticker ("periodic") or when a membership
\* change asks for it ("dispatch"): the fetch returns the version of that moment (an error of the
\* fetch changes nothing).
Reconcile(u) ==
    /\ pc[u] = "idle" /\ server > 0
    /\ u = "dispatch" => Registered
    /\ ver' = [ver EXCEPT ![u] = server]
    /\ Goto(u, "check")
    /\ UNCHANGED <<server, mem, disk, base, wvars, overlap, policyFaults>>

-----------------------------------------------------------------------------
(***************************************************************************)
(* updateSnapshot.                                                         *)
(***************************************************************************)

\* The end of the check: an update that passes may meet another one that has.
Passes(u, newer) ==
    /\ Goto(u, IF newer THEN "save" ELSE "idle")
    /\ overlap' = IF newer /\ \E w \in Updaters \ {u} : pc[w] \in {"save", "set"}
                  THEN "yes" ELSE overlap

\* Mutant: any version but the current one is taken for newer.
CheckDifferent(u) ==
    /\ pc[u] = "check"
    /\ base' = [base EXCEPT ![u] = mem]
    /\ Passes(u, ~(mem # 0 /\ mem = ver[u]))
    /\ UNCHANGED <<server, mem, disk, ver, wvars, policyFaults>>

CheckNewer(u) ==
    /\ pc[u] = "check"
    /\ base' = [base EXCEPT ![u] = mem]
    /\ Passes(u, ~(mem # 0 /\ mem >= ver[u]))
    /\ UNCHANGED <<server, mem, disk, ver, wvars, policyFaults>>

\* Mutant: a failed save is only logged.
SaveSnapshotLogged(u) ==
    /\ pc[u] = "save"
    /\ Goto(u, "set")
    /\ \/ disk' = ver[u] /\ UNCHANGED policyFaults
       \/ PolicyFault /\ UNCHANGED disk
    /\ UNCHANGED <<server, mem, ver, base, overlap, wvars>>

\* store.SaveSnapshot is atomic: a temporary file and a rename.
SaveSnapshot(u) ==
    /\ pc[u] = "save"
    /\ \/ disk' = ver[u] /\ Goto(u, "set") /\ UNCHANGED policyFaults
       \/ PolicyFault /\ Goto(u, "idle") /\ UNCHANGED disk
    /\ UNCHANGED <<server, mem, ver, base, overlap, wvars>>

SetCurrent(u) ==
    /\ pc[u] = "set"
    /\ mem' = ver[u]
    /\ Goto(u, "notify")
    /\ UNCHANGED <<server, disk, ver, base, wvars, overlap, policyFaults>>

\* An update nobody will hear of: it falls between the first read of the settings
\* and the registration of the watcher, finds the channel full, or is announced
\* when the memory has moved on.
Lost(u) == \/ watcher = "read" /\ ver[u] # seen
           \/ watcher = "watching" /\ (Len(chan) = ChanCap \/ ver[u] # mem)

\* A full channel skips the update.
notifyWatchers(u) ==
    /\ pc[u] = "notify"
    /\ missed' = IF Lost(u) THEN "yes" ELSE missed
    /\ chan' = IF watcher = "watching" /\ Len(chan) < ChanCap
               THEN Append(chan, ver[u]) ELSE chan
    /\ Goto(u, "idle")
    /\ UNCHANGED <<server, mem, disk, ver, base, watcher, seen, overlap, policyFaults>>

-----------------------------------------------------------------------------
(***************************************************************************)
(* The settings: read from the current snapshot after Start; watched from  *)
(* a goroutine that starts later.                                          *)
(***************************************************************************)
ReadSettings ==
    /\ watcher = "unread"
    /\ watcher' = "read" /\ seen' = mem
    /\ UNCHANGED <<server, mem, disk, pc, ver, base, chan, overlap, missed, policyFaults>>

Watch ==
    /\ watcher = "read"
    /\ watcher' = "watching" /\ chan' = << >>
    /\ UNCHANGED <<server, mem, disk, pc, ver, base, seen, overlap, missed, policyFaults>>

UpdateSettings ==
    /\ chan # << >>
    /\ seen' = Head(chan) /\ chan' = Tail(chan)
    /\ UNCHANGED <<server, mem, disk, pc, ver, base, watcher, overlap, missed, policyFaults>>

\* The agent restarts: loadFromDisk takes the saved snapshot, or none when it
\* does not read, does not validate or is another server's.
PolicyRestart ==
    /\ PolicyFault
    /\ mem' \in {disk, 0}
    /\ pc' = [u \in Updaters |-> "idle"]
    /\ missed' = "no" /\ watcher' = "unread" /\ chan' = << >> /\ seen' = 0
    /\ UNCHANGED <<server, disk, ver, base, overlap>>

Update(u) == CheckNewer(u) \/ SaveSnapshot(u) \/ SetCurrent(u) \/ notifyWatchers(u)

PolicyNext == \/ Publish \/ HandlePushUpdate
              \/ \E u \in Updaters : Reconcile(u) \/ Update(u)
              \/ ReadSettings \/ Watch \/ UpdateSettings
              \/ PolicyRestart

PolicySpec == PolicyInit /\ [][PolicyNext]_povars

\* The ticker of the periodic pull fires and its fetch succeeds again and
\* again; an update that was begun runs to its end; the watcher runs.
PolicyFairSpec ==
    /\ PolicySpec
    /\ WF_povars(Reconcile("periodic"))
    /\ \A u \in Updaters : WF_povars(Update(u))
    /\ WF_povars(ReadSettings \/ Watch) /\ WF_povars(UpdateSettings)

-----------------------------------------------------------------------------
(***************************************************************************)
(* Properties.                                                             *)
(***************************************************************************)

\* The manager's state has its types; the watch channel keeps its capacity.
PolicyTypeOK ==
    /\ server \in PolicyVersions /\ mem \in PolicyVersions /\ disk \in PolicyVersions
    /\ pc \in [Updaters -> {"idle", "check", "save", "set", "notify"}]
    /\ ver \in [Updaters -> PolicyVersions] /\ base \in [Updaters -> PolicyVersions]
    /\ overlap \in {"no", "yes"} /\ missed \in {"no", "yes"}
    /\ watcher \in {"unread", "read", "watching"}
    /\ chan \in Seq(PolicyVersions) /\ Len(chan) <= ChanCap
    /\ seen \in PolicyVersions /\ policyFaults \in 0 .. MaxPolicyFaults

\* While the process lives, the policy in memory falls back only when two
\* updates overlap: another updater set a newer version between this one's
\* check in updateSnapshot and its assignment.  One update alone never
\* downgrades, however late or duplicated the push it carries.
DowngradeNeedsOverlap ==
    [][mem' < mem /\ policyFaults' = policyFaults =>
         \E u \in Updaters : pc[u] = "set" /\ mem' = ver[u] /\ base[u] < ver[u] /\ base[u] < mem]_povars

\* As long as no two updates overlapped, memory and disk hold the same policy,
\* or the save of the one update in flight is ahead of its assignment: through
\* failed saves, crashes between the two, and restarts that could not read the
\* file (no policy in memory).
DiskMatchesMemory ==
    overlap = "no" /\ mem # 0 =>
        disk = mem \/ \E u \in Updaters : pc[u] = "set" /\ disk = ver[u]

\* The command settings trail the policy in memory only by what is in the watch
\* channel or about to be announced, unless an update fell between the first
\* read of the settings and the registration of their watcher, found the
\* channel full, or was overtaken.
SettingsFollow ==
    watcher # "unread" /\ missed = "no" =>
        \/ mem = (<<seen>> \o chan)[Len(chan) + 1]
        \/ \E u \in Updaters : pc[u] = "notify" /\ ver[u] = mem

\* Unless updates overlapped, memory and disk hold the same policy, and the
\* command settings trail it only by what their channel still holds.
PolicyInStep == PolicyTypeOK /\ DiskMatchesMemory /\ SettingsFollow

\* "an up-to-date policy snapshot": pushes lost, late or duplicated, saves
\* that fail and restarts notwithstanding, the policy in memory becomes and
\* stays the latest once the control plane stops publishing.
EventuallyCurrent == <>[](mem = server)
=============================================================================
