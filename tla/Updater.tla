------------------------------ MODULE Updater ------------------------------
(***************************************************************************)
(* internal/updater and its two users: the agent, whose UpdateManager      *)
(* downloads what the configuration asks for from two goroutines (the      *)
(* configuration watcher and the periodic SHA check), and `ufctl update    *)
(* apply`, a process of its own with a second UpdateManager over the SAME  *)
(* state file and staging directory.  No lock is shared by the two.        *)
(* Nobody in the agent calls ApplyUpdate or Rollback, so the drainer and   *)
(* the restarter of its installer never run; the command passes neither.   *)
(***************************************************************************)
EXTENDS Naturals, Sequences, FiniteSets

CONSTANT
  MaxEvents      \* bound: builds published, versions configured, commands run,
                 \* and calls that fail, downloads that arrive damaged, crashes

VARIABLES
  published,     \* newest build of each channel
  sent, configs, \* versionChan: desired versions on their way to the watcher
  running,       \* version.Version of the agent and of the last command
  mem,           \* currentState of each manager, or NoProcess
  file,          \* update-state.json
  thread,        \* program counter and locals of each goroutine
  tmp, staged,   \* staging/<asset>.tmp and staging/<asset>
  bin,           \* the installed binaries
  applies, ufaults,
  (* history *)
  overlap,       \* two goroutines were in the staging directory at once
  unchecked      \* a binary was staged although checksums.txt could not be had

uvars == <<published, sent, configs, running, mem, file, thread, tmp, staged, bin,
           applies, ufaults, overlap, unchecked>>

Channels == {"dev", "stable"}
Versions == {"dev", "auto-update", "own"}   \* "own": the tag of the running build
Threads == {"watch", "tick", "cli"}
Managers == {"agent", "cli"}
Binaries == {"underleaf_agent", "ufctl"}
None == <<"none", 0>>
Junk == <<"junk", 0>>
Manager(t) == IF t = "cli" THEN "cli" ELSE "agent"
Builds == Channels \X (1 .. 1 + MaxEvents)

Budget == applies + configs + ufaults + published["dev"] + published["stable"] - 2 < MaxEvents

\* A file: who still writes it, and the builds written since it was last
\* truncated with nobody else writing.
Absent == [w |-> {}, bs |-> {}]
Holds(f, b) == f.w = {} /\ f.bs = {b}
Whole(f) == \E b \in Builds : Holds(f, b)

\* The zero UpdateState.  The pending paths are constants that are set
\* whenever the status is "pending", and are left out; a SHA256 is named by
\* the build it is of.
UpdateState == [status |-> "idle", desired |-> "", rel |-> None, pend |-> None]
NoProcess == [UpdateState EXCEPT !.status = "no process"]

IdleThread == [pc |-> "idle", ver |-> "", release |-> None, sums |-> TRUE, hit |-> FALSE,
               asset |-> "", result |-> ""]
Calling(v) == [IdleThread EXCEPT !.pc = "check", !.ver = v]
CallingWith(v, r) == [Calling(v) EXCEPT !.release = r.build, !.sums = r.sums, !.hit = TRUE]

-----------------------------------------------------------------------------
(* GitHubReleaseChecker. *)

FetchLatestStable == <<"stable", published["stable"]>>
FetchLatestPrerelease == <<"dev", published["dev"]>>
fetchSpecificRelease(b) == b

\* The release that version v names for a process whose own build is b.
ReleaseOf(b, v) ==
  CASE v = "auto-update" -> FetchLatestStable
    [] v = "dev" -> FetchLatestPrerelease
    [] v = "own" -> fetchSpecificRelease(b)

\* Without checksums.txt the release and its assets have no SHA256.
downloadChecksums == IF Budget THEN {TRUE, FALSE} ELSE {TRUE}
parseGitHubRelease(b, sums) == [build |-> b, sums |-> sums]
SHA256(r) == IF r.sums THEN r.build ELSE None

Failed == [build |-> None, sums |-> FALSE]
Releases == [build : Builds, sums : BOOLEAN] \union {Failed}

\* FetchRelease for version v gives r.  A cache entry lives for five minutes
\* and the ticker's period is an hour: an entry serves the call that follows
\* the one that made it (a tick's, and Start's) and no later one.
FetchRelease(b, v, r) ==
  \/ \E sums \in downloadChecksums :
       /\ r = parseGitHubRelease(ReleaseOf(b, v), sums)
       /\ ufaults' = IF sums THEN ufaults ELSE ufaults + 1
  \/ /\ Budget  /\ ufaults' = ufaults + 1
     /\ r = Failed

-----------------------------------------------------------------------------
(* Store and UpdateManager. *)

\* Set the state in memory, then save it.  (A save that fails is only logged;
\* it is left out: a crash just before the save leaves the same file.)
SaveState(m, s) ==
  /\ mem' = [mem EXCEPT ![m] = s]
  /\ file' = s

LoadState == file

\* "dev-637ed25" is looked up as "dev"; "v1.2.3" as itself.
normalizeVersionForRelease(b) == IF b[1] = "dev" THEN "dev" ELSE "own"

\* Start's bootstrap of an empty ReleaseSHA.
Bootstrapped(s, r) == IF SHA256(r) = None THEN s ELSE [s EXCEPT !.rel = SHA256(r)]

StartManager(m, b, r) ==
  LET v == normalizeVersionForRelease(b) IN
  /\ running' = [running EXCEPT ![m] = b]
  /\ IF LoadState.rel # None
     THEN /\ r = Failed
          /\ mem' = [mem EXCEPT ![m] = LoadState]  /\ UNCHANGED <<file, ufaults>>
     ELSE /\ FetchRelease(b, v, r)
          /\ SaveState(m, Bootstrapped(LoadState, r))

Goto(t, pc) == thread' = [thread EXCEPT ![t].pc = pc]
End(t, result) == thread' = [thread EXCEPT ![t] = [IdleThread EXCEPT !.result = IF t = "cli" THEN result ELSE ""]]

updateStatus(m, status) == SaveState(m, [mem[m] EXCEPT !.status = status])

-----------------------------------------------------------------------------
(* CheckAndDownload, run by every goroutine. *)

\* version.Version == release.Version: a development build calls itself
\* dev-<commit> and its release is tagged dev, so the two are never equal.
SameVersion(m, r) == r.build = running[m] /\ running[m][1] # "dev"
Unchanged(m, r) == SHA256(r) = mem[m].rel /\ SameVersion(m, r)

InStaging(u) == thread[u].pc \in {"create", "write", "rename", "apply", "agent", "ufctl", "done"}

\* Up to the download.  The status "checking" that is saved before the fetch
\* is overwritten after it.
CheckRelease(t) ==
  LET m == Manager(t)
      With(status) == SaveState(m, [mem[m] EXCEPT !.status = status, !.desired = thread[t].ver])
  IN
  /\ thread[t].pc = "check"
  /\ \E r \in Releases :
       /\ IF thread[t].hit
          THEN r = [build |-> thread[t].release, sums |-> thread[t].sums] /\ UNCHANGED ufaults
          ELSE FetchRelease(running[m], thread[t].ver, r)
       /\ IF r = Failed
          THEN With("failed") /\ End(t, "failed") /\ UNCHANGED overlap
          ELSE IF Unchanged(m, r)
          THEN With("idle") /\ End(t, "unchanged") /\ UNCHANGED overlap
          ELSE /\ With("downloading")
               /\ thread' = [thread EXCEPT ![t] =
                    [IdleThread EXCEPT !.pc = "create", !.release = r.build, !.sums = r.sums,
                                       !.asset = "underleaf_agent"]]
               /\ overlap' = (overlap \/ \E u \in Threads \ {t} : InStaging(u))
  /\ UNCHANGED <<published, sent, configs, running, tmp, staged, bin, applies, unchecked>>

\* Download: os.Create truncates the file of the asset's name; the assets of
\* the dev tag are replaced by every build, so the URL serves the newest.
Served(b) == IF b[1] = "dev" THEN <<"dev", published["dev"]>> ELSE b

downloadFile(t) ==
  LET b == thread[t].asset IN
  /\ thread[t].pc = "create"
  /\ tmp' = [tmp EXCEPT ![b] = [w |-> @.w \union {t},
                                bs |-> (IF @.w = {} THEN {} ELSE @.bs) \union {Served(thread[t].release)}]]
  /\ Goto(t, "write")
  /\ UNCHANGED <<published, sent, configs, running, mem, file, staged, bin, applies, ufaults,
                 overlap, unchecked>>

DownloadFailed(t) == updateStatus(Manager(t), "failed") /\ End(t, "failed")

\* SHA256 of the temporary file against the one of checksums.txt, if any.
calculateSHA256(f, t) == thread[t].sums => Holds(f, thread[t].release)

\* The body arrives (possibly damaged) and is checked, or the connection
\* breaks.  The file may have been renamed under the writer, who then wrote
\* the staged one.
downloadWritten(t) ==
  LET b == thread[t].asset
      written(f, more) == [w |-> f.w \ {t}, bs |-> IF t \in f.w THEN f.bs \union more ELSE f.bs]
      removed == tmp' = [tmp EXCEPT ![b] = Absent] /\ DownloadFailed(t) /\ UNCHANGED unchecked
  IN
  /\ thread[t].pc = "write"
  /\ staged' = [staged EXCEPT ![b] = written(@, {})]
  /\ \/ \E more \in {{}, {Junk}} :
          /\ more # {} => Budget
          /\ ufaults' = ufaults + Cardinality(more)
          /\ LET f == written(tmp[b], more) IN
             IF calculateSHA256(f, t)
             THEN /\ tmp' = [tmp EXCEPT ![b] = f]  /\ Goto(t, "rename")
                  /\ unchecked' = (unchecked \/ ~ thread[t].sums)  /\ UNCHANGED <<mem, file>>
             ELSE removed
     \/ /\ Budget  /\ ufaults' = ufaults + 1  /\ removed
  /\ UNCHANGED <<published, sent, configs, running, bin, applies, overlap>>

\* The rename that ends Download; downloadBinaries then goes on with ufctl,
\* and CheckAndDownload ends with a pending update.
NextBinary(t) ==
  LET m == Manager(t) IN
  IF thread[t].asset = "underleaf_agent"
  THEN /\ UNCHANGED <<mem, file>>
       /\ thread' = [thread EXCEPT ![t].pc = "create", ![t].asset = "ufctl"]
  ELSE /\ SaveState(m, [mem[m] EXCEPT !.status = "pending",
                               !.pend = IF thread[t].sums THEN thread[t].release ELSE None])
       /\ IF t = "cli" THEN Goto(t, "apply") ELSE End(t, "downloaded")

DownloadRename(t) ==
  LET b == thread[t].asset IN
  /\ thread[t].pc = "rename"
  /\ IF tmp[b] = Absent
     THEN DownloadFailed(t) /\ UNCHANGED <<tmp, staged>>
     ELSE /\ staged' = [staged EXCEPT ![b] = tmp[b]]  /\ tmp' = [tmp EXCEPT ![b] = Absent]
          /\ NextBinary(t)
  /\ UNCHANGED <<published, sent, configs, running, bin, applies, ufaults, overlap, unchecked>>

CheckAndDownload(t) ==
  CheckRelease(t) \/ downloadFile(t) \/ downloadWritten(t) \/ DownloadRename(t)

-----------------------------------------------------------------------------
(* The agent. *)

\* WatchConfigVersion acts on a version that differs from the one it has.
WatchConfigVersion ==
  /\ mem["agent"] # NoProcess  /\ thread["watch"].pc = "idle"  /\ sent # << >>
  /\ sent' = Tail(sent)
  /\ IF Head(sent) # mem["agent"].desired
     THEN thread' = [thread EXCEPT !["watch"] = Calling(Head(sent))]
     ELSE UNCHANGED thread
  /\ UNCHANGED <<published, configs, running, mem, file, tmp, staged, bin, applies, ufaults,
                 overlap, unchecked>>

NewBuild(r) == SHA256(r) \notin {None, mem["agent"].rel}

\* One tick of periodicSHACheck: read the state, fetch, compare.
periodicSHACheck ==
  /\ mem["agent"] # NoProcess  /\ thread["tick"].pc = "idle"  /\ mem["agent"].desired # ""
  /\ \E r \in Releases :
       /\ FetchRelease(running["agent"], mem["agent"].desired, r)
       /\ IF NewBuild(r)
          THEN thread' = [thread EXCEPT !["tick"] = CallingWith(mem["agent"].desired, r)]
          ELSE UNCHANGED thread
  /\ UNCHANGED <<published, sent, configs, running, mem, file, tmp, staged, bin, applies, overlap, unchecked>>

\* The desired version watchConfigForSoftwareUpdates passes on.
watchConfigForSoftwareUpdates(v) ==
  /\ Budget  /\ configs' = configs + 1
  /\ sent' = Append(sent, v)
  /\ UNCHANGED <<published, running, mem, file, thread, tmp, staged, bin, applies,
                 ufaults, overlap, unchecked>>

\* What writers that die leave behind.
Abandoned(f, ts) ==
  [w |-> f.w \ ts, bs |-> f.bs \union IF f.w \intersect ts = {} THEN {} ELSE {Junk}]

GoroutinesGone == [t \in Threads |-> IF t = "cli" THEN thread[t] ELSE IdleThread]

\* The agent dies; it comes back if its binary can run.
AgentCrash ==
  /\ mem["agent"] # NoProcess  /\ Budget  /\ ufaults' = ufaults + 1
  /\ mem' = [mem EXCEPT !["agent"] = NoProcess]
  /\ thread' = GoroutinesGone
  /\ tmp' = [b \in Binaries |-> Abandoned(tmp[b], {"watch", "tick"})]
  /\ staged' = [b \in Binaries |-> Abandoned(staged[b], {"watch", "tick"})]
  /\ sent' = << >>
  /\ UNCHANGED <<published, configs, running, file, bin, applies, overlap, unchecked>>

AgentStart ==
  /\ mem["agent"] = NoProcess
  /\ \E b \in Builds : Holds(bin["underleaf_agent"], b) /\ \E r \in Releases : StartManager("agent", b, r)
  /\ UNCHANGED <<published, sent, configs, thread, tmp, staged, bin, applies, overlap, unchecked>>

-----------------------------------------------------------------------------
(* ufctl update apply. *)

\* getDesiredVersion reads the configuration snapshot of the command.
UpdateApply(v) ==
  /\ thread["cli"].pc = "idle"  /\ Budget
  /\ applies' = applies + 1
  /\ \E b \in Builds, r \in Releases :
       /\ Holds(bin["ufctl"], b)  /\ StartManager("cli", b, r)
       /\ thread' = [thread EXCEPT !["cli"] =
            IF r # Failed /\ v = normalizeVersionForRelease(b) THEN CallingWith(v, r) ELSE Calling(v)]
  /\ UNCHANGED <<published, sent, configs, tmp, staged, bin, overlap, unchecked>>

FirstBinary == "agent"

\* UpdateManager.ApplyUpdate up to the installer.
ApplyBegin ==
  /\ thread["cli"].pc = "apply"
  /\ updateStatus("cli", "applying")  /\ Goto("cli", FirstBinary)
  /\ UNCHANGED <<published, sent, configs, running, tmp, staged, bin, applies, ufaults, overlap, unchecked>>

\* copyFile of a file that somebody still writes copies what is there.
copyFile(f) == IF f.w = {} THEN f ELSE [w |-> {}, bs |-> f.bs \union {Junk}]

\* replaceBinary: a copy beside the target, then a rename over it, so the
\* target changes at once or not at all.
replaceBinary(b) == bin' = [bin EXCEPT ![b] = copyFile(staged[b])]

ApplyFailed == updateStatus("cli", "failed") /\ End("cli", "failed") /\ UNCHANGED bin

\* Missing pending file: the backup is put back over the same binary.
applyAgentUpdate ==
  /\ thread["cli"].pc = "agent"
  /\ \/ /\ staged["underleaf_agent"] = Absent  /\ ApplyFailed  /\ UNCHANGED ufaults
     \/ /\ staged["underleaf_agent"] # Absent  /\ replaceBinary("underleaf_agent")  /\ Goto("cli", "ufctl")
        /\ UNCHANGED <<mem, file, ufaults>>
     \/ /\ Budget  /\ ufaults' = ufaults + 1  /\ ApplyFailed
  /\ UNCHANGED <<published, sent, configs, running, tmp, staged, applies, overlap, unchecked>>

\* "Don't rollback agent if ufctl fails - agent is more critical".
applyUfctlUpdate ==
  /\ thread["cli"].pc = "ufctl"
  /\ \/ /\ staged["ufctl"] = Absent  /\ ApplyFailed  /\ UNCHANGED ufaults
     \/ /\ staged["ufctl"] # Absent  /\ replaceBinary("ufctl")  /\ Goto("cli", "done")
        /\ UNCHANGED <<mem, file, ufaults>>
     \/ /\ Budget  /\ ufaults' = ufaults + 1  /\ ApplyFailed
  /\ UNCHANGED <<published, sent, configs, running, tmp, staged, applies, overlap, unchecked>>

\* Promote the pending SHA, save, clean the staging directory.
PromotedNot(s) == [s EXCEPT !.status = "idle", !.pend = None]
Promoted(s) == [s EXCEPT !.status = "idle", !.rel = s.pend, !.pend = None]

ApplyEnd ==
  /\ thread["cli"].pc = "done"
  /\ SaveState("cli", Promoted(mem["cli"]))
  /\ staged' = [b \in Binaries |-> Absent]  /\ tmp' = [b \in Binaries |-> Absent]
  /\ End("cli", "updated")
  /\ UNCHANGED <<published, sent, configs, running, bin, applies, ufaults, overlap, unchecked>>

\* The command is interrupted.
CliCrash ==
  /\ thread["cli"].pc # "idle"  /\ Budget  /\ ufaults' = ufaults + 1
  /\ End("cli", "killed")
  /\ tmp' = [b \in Binaries |-> Abandoned(tmp[b], {"cli"})]
  /\ staged' = [b \in Binaries |-> Abandoned(staged[b], {"cli"})]
  /\ UNCHANGED <<published, sent, configs, running, mem, file, bin, applies, overlap, unchecked>>

-----------------------------------------------------------------------------
\* Bound: a server stays on the channel its first build came from.
Channel == running["agent"][1]
Wanted == IF Channel = "dev" THEN "dev" ELSE "auto-update"

\* A new build of a channel is released.
Publish(c) ==
  /\ Budget
  /\ published' = [published EXCEPT ![c] = @ + 1]
  /\ UNCHANGED <<sent, configs, running, mem, file, thread, tmp, staged, bin, applies, ufaults,
                 overlap, unchecked>>

UpdInit ==
  /\ published = [c \in Channels |-> 1]
  /\ \E c \in Channels :
       /\ running = [m \in Managers |-> <<c, 1>>]
       /\ bin = [b \in Binaries |-> [w |-> {}, bs |-> {<<c, 1>>}]]
  /\ sent = << >>  /\ configs = 0  /\ file = UpdateState
  /\ mem = [m \in Managers |-> NoProcess]
  /\ thread = [t \in Threads |-> IdleThread]
  /\ tmp = [b \in Binaries |-> Absent]  /\ staged = [b \in Binaries |-> Absent]
  /\ applies = 0  /\ ufaults = 0  /\ overlap = FALSE  /\ unchecked = FALSE

AgentStep == \/ WatchConfigVersion \/ periodicSHACheck
             \/ \E t \in {"watch", "tick"} : CheckAndDownload(t)
CliStep == CheckAndDownload("cli") \/ ApplyBegin \/ applyAgentUpdate \/ applyUfctlUpdate \/ ApplyEnd

UpdNext ==
  \/ Publish(Channel) \/ watchConfigForSoftwareUpdates(Wanted) \/ UpdateApply(Wanted)
  \/ AgentCrash \/ AgentStart \/ AgentStep \/ CliStep \/ CliCrash

\* The Go scheduler runs the agent's goroutines and its ticker ticks for
\* ever, a dead agent is restarted, and a command runs
\* to its end; nothing makes anybody publish, configure or call the command.
UpdFairness ==
  /\ WF_uvars(WatchConfigVersion \/ CheckAndDownload("watch"))
  /\ WF_uvars(periodicSHACheck \/ CheckAndDownload("tick"))
  /\ WF_uvars(CliStep)
  /\ WF_uvars(AgentStart)

UpdSpec == UpdInit /\ [][UpdNext]_uvars
UpdFairSpec == UpdSpec /\ UpdFairness

-----------------------------------------------------------------------------
(* Properties. *)

\* Every variable has its type, and a goroutine that has called
\* CheckAndDownload belongs to a process that runs.
UpdTypeOK ==
  /\ published \in [Channels -> 1 .. 1 + MaxEvents]
  /\ sent \in Seq({"dev", "auto-update"})
  /\ \A m \in Managers : mem[m] # NoProcess =>
       /\ mem[m].rel \in Builds \union {None}  /\ mem[m].pend \in Builds \union {None}
       /\ mem[m].status \in {"idle", "checking", "downloading", "pending", "applying", "failed"}
       /\ mem[m].desired \in {"", "dev", "auto-update"}
  /\ \A t \in Threads : thread[t].pc # "idle" => mem[Manager(t)] # NoProcess
  /\ \A b \in Binaries : tmp[b].w \subseteq Threads /\ bin[b].w = {}
  /\ {applies, configs, ufaults} \subseteq 0..MaxEvents

\* An installed binary is one whole build at every moment of an update,
\* through damaged downloads, failed steps and crashes, as long as its
\* checksum could be had and no two goroutines were in the staging
\* directory at once.  (Two that are can rename or truncate each other's
\* <asset>.tmp between the check and the rename.)
InstalledIntact == overlap \/ unchecked \/ \A b \in Binaries : Whole(bin[b])

\* When the command says "Successfully updated", both binaries are the build
\* whose SHA the state now records, although the dev assets may have been
\* replaced while it downloaded them (under the same two provisos).
SuccessMeansInstalled ==
  thread["cli"].result = "updated" /\ ~ overlap /\ ~ unchecked =>
    \A b \in Binaries : Holds(bin[b], mem["cli"].rel)

\* A half-applied update leaves the agent updated and ufctl old, never the
\* reverse: ufctl only ever becomes what the agent already is.
UfctlFollowsAgent ==
  [][bin'["ufctl"] # bin["ufctl"] /\ ~ overlap /\ ~ unchecked
       => bin'["ufctl"] = bin["underleaf_agent"]]_uvars

\* Whatever fails, an agent that stays up and keeps its desired version has
\* the newest build of it pending or recorded as installed in the end.
Newest(v) == IF v = "dev" THEN FetchLatestPrerelease ELSE FetchLatestStable
NewestStaged ==
  \A v \in {"dev", "auto-update"} :
    []<>(mem["agent"].desired = v => Newest(v) \in {mem["agent"].rel, mem["agent"].pend})
=============================================================================
