-------------------------------- MODULE Skills --------------------------------
(***************************************************************************)
(* `skills provision` and `skills refresh`: vault-authored skills linked into *)
(* the skills directories of the machine's harnesses (internal/agent/skills,  *)
(* cmd/homeplane-agent/skills.go).                                           *)
(*                                                                         *)
(* A run scans the vault and reads the profile, takes the agent state lock,   *)
(* and then works on symlinks one file operation at a time, with the operator *)
(* editing the same directories, the vault and the profile meanwhile.  The    *)
(* manifest is the only thing that says which links are Homeplane's.  At the   *)
(* end it lists what is installed in state.json, which it loads and saves whole *)
(* and without the lock, as every other command of the agent does.             *)
(* A link path is <<harness, directory, slug>>; the target of a link of ours   *)
(* is <<place of the vault, slug>>.                                           *)
(***************************************************************************)
EXTENDS Naturals

CONSTANTS
    Runs,       \* provision and refresh processes
    Commands,   \* processes of other commands, which write their component into state.json
    Harnesses,
    Dirs,       \* skills directories
    Homes,      \* environments: the directory each harness uses in them
    Slugs,
    Places,     \* where the vault may be
    Contents,   \* what a vault entry may hold, a subset of Candidates
    Profiles,   \* what the profile file may say
    Elsewhere,  \* the target of a link of the operator's own
    None,       \* no target
    MaxEdits    \* bound on the operator's edits

Candidates ==
    [at : {"gone", "dangling", "outside", "file", "dir"},
     files : SUBSET {"prose", "credential", "state", "unscannable", "escape", "initiative"},
     md : {"missing", "invalid", "misnamed", "good"}]

\* A block that is not there is not an empty one.
Blocks == [set : BOOLEAN, skills : SUBSET Slugs]

Paths   == {<<h, home[h], s>> : h \in Harnesses, home \in Homes, s \in Slugs}
Targets == Places \X Slugs

\* What state.json says of the skills.  The other components in it are not told
\* apart: AgentState is about losing those.
States == [skills : SUBSET Slugs, health : {"unknown", "ok", "degraded"}]

ASSUME HomesAssumption == Homes \subseteq [Harnesses -> Dirs]
ASSUME ContentsAssumption == Contents \subseteq Candidates
ASSUME ProfilesAssumption ==
    Profiles \subseteq [defaults : Blocks, harness : [Harnesses -> Blocks], machine : Blocks,
                        both : [Harnesses -> Blocks], unsupported : SUBSET (Slugs \X Harnesses)]
ASSUME ValuesAssumption ==
    /\ Elsewhere \notin Targets /\ None \notin Targets /\ Elsewhere # None
    /\ None \notin Runs /\ None \notin States
    /\ MaxEdits \in Nat

VARIABLES
    place,     \* the recorded vault path
    vault,     \* what the vault's skills directory holds, per slug
    profile,   \* the profile file
    disk,      \* the entries of the harnesses' skills directories
    manifest,  \* the ownership record on disk: per path, the target
    lock,      \* the agent state lock
    run,       \* the processes
    status,    \* state.json
    command,   \* the other commands: the copy of state.json each has loaded
    edits,     \* edits the operator has made
    made,      \* links runs have created, ever
    unsaved,   \* paths a run changed and died before it recorded them
    unlisted   \* the manifest changed and status was not told since, or was told and
               \* an older copy of it saved over what it was told

sources == <<place, vault, profile>>
vars == <<place, vault, profile, disk, manifest, lock, run, status, command, edits, made, unsaved, unlisted>>

Absent       == [kind |-> "absent", to |-> None, by |-> "nobody"]
Real         == [kind |-> "real", to |-> None, by |-> "operator"]
Link(to, by) == [kind |-> "link", to |-> to, by |-> by]

Idle == [pc |-> "idle", prune |-> FALSE, only |-> {}, home |-> [h \in Harnesses |-> None],
         from |-> None, cat |-> {}, prof |-> None, mem |-> [p \in Paths |-> None],
         left |-> {}, links |-> {}, stale |-> {}, at |-> None, op |-> "none",
         shown |-> {}, touched |-> {}, failed |-> {}, installed |-> {}, health |-> "unknown",
         late |-> FALSE]

NoCopy == [pc |-> "idle", file |-> None, old |-> FALSE]

Init ==
    /\ place \in Places
    /\ vault \in [Slugs -> Contents]
    /\ profile \in Profiles
    /\ disk = [p \in Paths |-> Absent]
    /\ manifest = [p \in Paths |-> None]
    /\ lock = None
    /\ run = [r \in Runs |-> Idle]
    /\ status = [skills |-> {}, health |-> "unknown"]
    /\ command = [c \in Commands |-> NoCopy]
    /\ edits = 0
    /\ made = {}
    /\ unsaved = {}
    /\ unlisted = FALSE

-----------------------------------------------------------------------------
(***************************************************************************)
(* Discovery.                                                               *)
(***************************************************************************)

\* A file is a containment problem by its name, its size, its bytes or because
\* it cannot be read.
scanFile(f) == f \in {"credential", "state", "unscannable"}

\* So is a link that leaves the skill's directory.
containment(c) == \E f \in c.files : scanFile(f) \/ f = "escape"

matchInitiative(c) == "initiative" \in c.files

\* Containment is judged before the shape and the shape before initiative.
classify(c) ==
    IF containment(c) THEN "rejected"
    ELSE IF c.md = "missing" THEN "unsupported"
    ELSE IF c.md = "invalid" THEN "rejected"
    ELSE IF c.md = "misnamed" THEN "unsupported"
    ELSE IF matchInitiative(c) THEN "unsupported"
    ELSE "linkable"

\* A dangling entry and one that resolves out of the vault are findings, a loose
\* file is not a candidate.
Discover == {s \in Slugs : vault[s].at = "dir" /\ classify(vault[s]) = "linkable"}

-----------------------------------------------------------------------------
(***************************************************************************)
(* The profile.                                                             *)
(***************************************************************************)

\* The most specific block that is there replaces the others.
Assign(prof, h) ==
    LET blocks == <<prof.both[h], prof.machine, prof.harness[h], prof.defaults>>
        there  == {i \in 1..4 : blocks[i].set}
    IN  IF there = {} THEN {} ELSE blocks[CHOOSE i \in there : \A j \in there : i <= j].skills

UnsupportedOn(prof, s, h) == <<s, h>> \in prof.unsupported

-----------------------------------------------------------------------------
(***************************************************************************)
(* The manifest.                                                            *)
(***************************************************************************)

\* Recorded, and still pointing where the record says.
owns(mem, p) == disk[p].kind = "link" /\ mem[p] = disk[p].to

InstalledSlugs == {p[3] : p \in {q \in Paths : manifest[q] # None}}

\* The target the run's scan gave the skill of this path.
Dir(r, p) == <<run[r].from, p[3]>>

-----------------------------------------------------------------------------
(***************************************************************************)
(* A run.                                                                   *)
(***************************************************************************)

\* The vault is scanned and the profile read before the lock is taken.
resolve(r, prune, only, home) ==
    /\ run[r].pc = "idle"
    /\ run' = [run EXCEPT ![r] = [Idle EXCEPT
                  !.pc = "resolved", !.prune = prune, !.only = only, !.home = home,
                  !.from = place, !.cat = Discover, !.prof = profile]]
    /\ UNCHANGED <<sources, disk, manifest, lock, status, command, edits, made, unsaved, unlisted>>

\* Provision: lock, load the manifest, and prove that it can be written.
provision(r) ==
    /\ run[r].pc = "resolved"
    /\ lock = None
    /\ lock' = r
    /\ run' = [run EXCEPT ![r].pc = "working", ![r].mem = manifest, ![r].left = run[r].only]
    /\ UNCHANGED <<sources, disk, manifest, status, command, edits, made, unsaved, unlisted>>

\* What the run wants at this path: assigned, supported and found linkable.
wanted(r, p) ==
    /\ p[3] \in Assign(run[r].prof, p[1])
    /\ ~UnsupportedOn(run[r].prof, p[3], p[1])
    /\ p[3] \in run[r].cat

\* Mutant: whatever the profile assigns is kept, linkable or not.
StaleIfUnassigned(r, h) ==
    {p \in Paths : /\ run[r].mem[p] # None
                   /\ p[1] = h /\ p[2] = run[r].home[h]
                   /\ p[3] \notin Assign(run[r].prof, p[1])}

\* The entries of this harness, in the directory it now uses, that the run does
\* not want.
staleEntries(r, h) ==
    {p \in Paths : /\ run[r].mem[p] # None
                   /\ p[1] = h /\ p[2] = run[r].home[h]
                   /\ ~wanted(r, p)}

\* Between harnesses nothing is left to link or to prune.
Through(r) ==
    /\ run[r].pc = "working" /\ run[r].op = "none"
    /\ run[r].links = {} /\ run[r].stale = {}

\* The next harness, the skills assigned to it, and what a refresh will withdraw
\* after it has linked them.
nextHarness(r, h) ==
    /\ Through(r)
    /\ h \in run[r].left
    /\ run' = [run EXCEPT ![r].left = @ \ {h},
                          ![r].links = {<<h, run[r].home[h], s>> : s \in Assign(run[r].prof, h)},
                          ![r].stale = IF run[r].prune THEN staleEntries(r, h) ELSE {}]
    /\ UNCHANGED <<sources, disk, manifest, lock, status, command, edits, made, unsaved, unlisted>>

Confirmed(r, p) == owns(run[r].mem, p) /\ disk[p].to = Dir(r, p)

\* What link decides to do about the entry it finds: make one, make again a link
\* of ours that the vault moved away from, or nothing.
decision(r, p) ==
    IF disk[p].kind = "absent" THEN "create"
    ELSE IF owns(run[r].mem, p) /\ ~Confirmed(r, p) THEN "replace"
    ELSE "none"

inspect(r, p) ==
    /\ run[r].op = "none"
    /\ p \in run[r].links
    /\ run' = [run EXCEPT
         ![r].links = @ \ {p},
         ![r].at = p,
         ![r].op = IF wanted(r, p) THEN decision(r, p) ELSE "none",
         ![r].shown = IF wanted(r, p) /\ Confirmed(r, p) THEN @ \cup {p} ELSE @]
    /\ UNCHANGED <<sources, disk, manifest, lock, status, command, edits, made, unsaved, unlisted>>

\* The entry cannot be inspected, whether it is to be linked or pruned.
uninspectable(r, p) ==
    /\ run[r].op = "none"
    /\ p \in run[r].links \/ (run[r].links = {} /\ p \in run[r].stale)
    /\ run' = [run EXCEPT ![r].links = @ \ {p}, ![r].stale = @ \ {p}, ![r].failed = @ \cup {p}]
    /\ UNCHANGED <<sources, disk, manifest, lock, status, command, edits, made, unsaved, unlisted>>

\* An operation on the entry failed: it is skipped and the run goes on.
Skip(r) ==
    /\ run' = [run EXCEPT ![r].op = "none", ![r].failed = @ \cup {run[r].at}]
    /\ UNCHANGED disk

\* os.Remove of what is at the path by now, on the way to repointing it.
removeStale(r) ==
    LET p == run[r].at IN
    /\ run[r].op = "replace"
    /\ \/ /\ disk' = [disk EXCEPT ![p] = Absent]
          /\ run' = [run EXCEPT ![r].op = "recreate"]
       \/ Skip(r)
    /\ UNCHANGED <<sources, manifest, lock, status, command, edits, made, unsaved, unlisted>>

\* os.Symlink makes the link, and it is recorded in memory.
symlink(r) ==
    LET p == run[r].at IN
    /\ run[r].op \in {"create", "recreate"}
    /\ disk[p].kind = "absent"
    /\ disk' = [disk EXCEPT ![p] = Link(Dir(r, p), "agent")]
    /\ made' = made \cup {<<p, Dir(r, p)>>}
    /\ run' = [run EXCEPT ![r].op = "save", ![r].mem[p] = Dir(r, p), ![r].shown = @ \cup {p}]
    /\ UNCHANGED <<sources, manifest, lock, status, command, edits, unsaved, unlisted>>

\* It fails, because something is there by now or for another reason: a link
\* that could not be made again is forgotten.
symlinkFails(r) ==
    LET p == run[r].at IN
    /\ \/ run[r].op = "create" /\ Skip(r)
       \/ /\ run[r].op = "recreate"
          /\ run' = [run EXCEPT ![r].op = "save", ![r].mem[p] = None, ![r].failed = @ \cup {p}]
          /\ UNCHANGED disk
    /\ UNCHANGED <<sources, manifest, lock, status, command, edits, made, unsaved, unlisted>>

\* Mutant: the manifest is written once, at the end.
SaveAtEnd(r) ==
    /\ run[r].op = "save"
    /\ run' = [run EXCEPT ![r].op = "none"]
    /\ UNCHANGED <<sources, disk, manifest, lock, status, command, edits, made, unsaved, unlisted>>

\* Every change is recorded before the next one is attempted.
save(r) ==
    /\ run[r].op = "save"
    /\ manifest' = run[r].mem
    /\ unlisted' = TRUE
    /\ unsaved' = unsaved \ {run[r].at}
    /\ run' = [q \in Runs |-> IF q = r THEN [run[q] EXCEPT !.op = "none"]
                              ELSE [run[q] EXCEPT !.late = (run[q].pc \in {"recording", "copied"})]]
    /\ UNCHANGED <<sources, disk, lock, status, command, edits, made>>

\* Mutant: being in the manifest is enough to be withdrawn.
WithdrawRecorded(r, p) ==
    /\ run[r].op = "none" /\ run[r].links = {}
    /\ p \in run[r].stale
    /\ run' = [run EXCEPT ![r].stale = @ \ {p}, ![r].at = p,
                          ![r].op = IF disk[p].kind = "absent" THEN "save" ELSE "withdraw",
                          ![r].mem[p] = IF disk[p].kind = "absent" THEN None ELSE @]
    /\ UNCHANGED <<sources, disk, manifest, lock, status, command, edits, made, unsaved, unlisted>>

\* prune looks at a recorded entry: a link that is gone is forgotten, one that is
\* still ours withdrawn, anything else left alone.
pruneEntry(r, p) ==
    /\ run[r].op = "none" /\ run[r].links = {}
    /\ p \in run[r].stale
    /\ run' = [run EXCEPT ![r].stale = @ \ {p}, ![r].at = p,
                          ![r].op = IF disk[p].kind = "absent" THEN "save"
                                    ELSE IF owns(run[r].mem, p) THEN "withdraw" ELSE "none",
                          ![r].mem[p] = IF disk[p].kind = "absent" THEN None ELSE @]
    /\ UNCHANGED <<sources, disk, manifest, lock, status, command, edits, made, unsaved, unlisted>>

\* os.Remove of what is at the path by now, and the record is dropped.
withdraw(r) ==
    LET p == run[r].at IN
    /\ run[r].op = "withdraw"
    /\ \/ /\ disk' = [disk EXCEPT ![p] = Absent]
          /\ run' = [run EXCEPT ![r].op = "save", ![r].mem[p] = None]
       \/ Skip(r)
    /\ UNCHANGED <<sources, manifest, lock, status, command, edits, made, unsaved, unlisted>>

\* The last save, and Provision returns: its deferred release runs.
finish(r) ==
    /\ Through(r) /\ run[r].left = {}
    /\ manifest' = run[r].mem
    /\ lock' = IF lock = r THEN None ELSE lock
    /\ run' = [run EXCEPT ![r] = [Idle EXCEPT !.pc = "reporting", !.shown = run[r].shown]]
    /\ UNCHANGED <<sources, disk, status, command, edits, made, unsaved, unlisted>>

\* Mutant: status lists what this run linked.
ReportedSlugs(r) == {p[3] : p \in run[r].shown}

\* After verification the manifest is read again, without the lock.
installedSlugs(r) == InstalledSlugs

\* A fresh harness process enumerates an entry that leads to a skill.
Enumerates(p) ==
    \/ disk[p].kind = "real"
    \/ disk[p].kind = "link" /\ disk[p].to \in Targets
       /\ disk[p].to[1] = place /\ vault[disk[p].to[2]].at = "dir"

\* A harness is asked when the run linked or confirmed something for it; it must
\* answer and enumerate all of that.
Verify(r, answered) == \A p \in run[r].shown : answered /\ Enumerates(p)

\* A run that asked for verification is degraded when that fails.
skillsHealth(r, verify, answered) == IF verify => Verify(r, answered) THEN "ok" ELSE "degraded"

\* Verification, where it was asked for, comes before the list is read.
readInstalled(r, verify, answered) ==
    /\ run[r].pc = "reporting"
    /\ run' = [run EXCEPT ![r] = [Idle EXCEPT
                  !.pc = "recording", !.installed = installedSlugs(r),
                  !.health = skillsHealth(r, verify, answered)]]
    /\ UNCHANGED <<sources, disk, manifest, lock, status, command, edits, made, unsaved, unlisted>>

\* mutateState takes no lock: it loads the whole of state.json,
loadState(r) ==
    /\ run[r].pc = "recording"
    /\ run' = [run EXCEPT ![r].pc = "copied"]
    /\ UNCHANGED <<sources, disk, manifest, lock, status, command, edits, made, unsaved, unlisted>>

\* and saves it with both fields about skills replaced, whatever they were in its
\* copy.  A copy another command has loaded by now does not have them.
recordState(r) ==
    /\ run[r].pc = "copied"
    /\ status' = [skills |-> run[r].installed, health |-> run[r].health]
    /\ unlisted' = run[r].late
    /\ command' = [c \in Commands |-> [command[c] EXCEPT !.old = (command[c].pc = "loaded")]]
    /\ run' = [run EXCEPT ![r] = [Idle EXCEPT !.pc = "ended"]]
    /\ UNCHANGED <<sources, disk, manifest, lock, edits, made, unsaved>>

\* The run is killed, or an operation it cannot go on without fails: a vault or a
\* profile that cannot be read, a directory, the manifest, state.json.
Die(r) ==
    /\ run[r].pc \notin {"idle", "ended"}
    /\ lock' = IF lock = r THEN None ELSE lock
    /\ unsaved' = IF run[r].op = "save" THEN unsaved \cup {run[r].at} ELSE unsaved
    /\ run' = [run EXCEPT ![r] = [Idle EXCEPT !.pc = "ended"]]
    /\ UNCHANGED <<sources, disk, manifest, status, command, edits, made, unlisted>>

-----------------------------------------------------------------------------
(***************************************************************************)
(* The other commands, and the supervised sync, which reports every pass.     *)
(***************************************************************************)

\* recordVaultPath, recordSync and recordGNO go through mutateState too, and enrol
\* and configure-harnesses do the same with a network exchange in between: each
\* loads the file, now or at a later pass again,
commandLoads(c) ==
    /\ command[c].pc = "idle"
    /\ command' = [command EXCEPT ![c].pc = "loaded", ![c].file = status]
    /\ UNCHANGED <<sources, disk, manifest, lock, run, status, edits, made, unsaved, unlisted>>

\* and saves its copy with its own component replaced and the skills as they were;
commandSaves(c) ==
    /\ command[c].pc = "loaded"
    /\ status' = command[c].file
    /\ unlisted' = (unlisted \/ command[c].old)
    /\ command' = [command EXCEPT ![c] = NoCopy]
    /\ UNCHANGED <<sources, disk, manifest, lock, run, edits, made, unsaved>>

\* or it is killed, or the save fails, and the error goes unreported.
commandDies(c) ==
    /\ command[c].pc = "loaded"
    /\ command' = [command EXCEPT ![c] = NoCopy]
    /\ UNCHANGED <<sources, disk, manifest, lock, run, status, edits, made, unsaved, unlisted>>

-----------------------------------------------------------------------------
(***************************************************************************)
(* The operator.                                                            *)
(***************************************************************************)

Edit == edits < MaxEdits /\ edits' = edits + 1

\* The run has come to the harness of this path, and the path is on none of the
\* lists of what it has still to look at.
Looked(r, p) ==
    /\ run[r].pc = "working"
    /\ p[1] \in run[r].only \ run[r].left
    /\ p \notin run[r].links \cup run[r].stale

\* An entry is put, replaced or removed by hand, before or after a run that is at
\* work has looked at it.
editEntry(p, e) ==
    /\ Edit
    /\ e # disk[p]
    /\ disk' = [disk EXCEPT ![p] = e]
    /\ run' = [r \in Runs |-> IF Looked(r, p)
                              THEN [run[r] EXCEPT !.touched = @ \cup {p}] ELSE run[r]]
    /\ UNCHANGED <<sources, manifest, lock, status, command, made, unsaved, unlisted>>

moveVault(v) ==
    /\ Edit
    /\ v # place
    /\ place' = v
    /\ UNCHANGED <<vault, profile, disk, manifest, lock, run, status, command, made, unsaved, unlisted>>

editSkill(s, c) ==
    /\ Edit
    /\ c # vault[s]
    /\ vault' = [vault EXCEPT ![s] = c]
    /\ UNCHANGED <<place, profile, disk, manifest, lock, run, status, command, made, unsaved, unlisted>>

editProfile(prof) ==
    /\ Edit
    /\ prof # profile
    /\ profile' = prof
    /\ UNCHANGED <<place, vault, disk, manifest, lock, run, status, command, made, unsaved, unlisted>>

-----------------------------------------------------------------------------

RunStep(r) ==
    \/ \E prune \in BOOLEAN, only \in SUBSET Harnesses \ {{}}, home \in Homes :
          resolve(r, prune, only, home)
    \/ provision(r)
    \/ \E h \in Harnesses : nextHarness(r, h)
    \/ \E p \in Paths : inspect(r, p) \/ uninspectable(r, p) \/ pruneEntry(r, p)
    \/ removeStale(r) \/ symlink(r) \/ symlinkFails(r) \/ withdraw(r) \/ save(r)
    \/ finish(r)
    \/ \E verify, answered \in BOOLEAN : readInstalled(r, verify, answered)
    \/ loadState(r) \/ recordState(r)
    \/ Die(r)

CommandStep(c) == commandLoads(c) \/ commandSaves(c) \/ commandDies(c)

OperatorStep ==
    \/ \E p \in Paths, e \in {Absent, Real, Link(Elsewhere, "operator")} : editEntry(p, e)
    \/ \E p \in Paths : editEntry(p, Link(<<place, p[3]>>, "operator"))
    \/ \E v \in Places : moveVault(v)
    \/ \E s \in Slugs, c \in Contents : editSkill(s, c)
    \/ \E prof \in Profiles : editProfile(prof)

Next == (\E r \in Runs : RunStep(r)) \/ (\E c \in Commands : CommandStep(c)) \/ OperatorStep

Spec == Init /\ [][Next]_vars

-----------------------------------------------------------------------------
(***************************************************************************)
(* Properties.                                                              *)
(***************************************************************************)

\* "An existing entry that Homeplane did not create is never overwritten, moved or
\* deleted" (skills.go:13-14): what a run takes away is a link some run had made
\* at that path, unless the operator put something else there after the run had
\* looked (os.Remove goes by the name).
ForeignEntriesStay ==
    [][\A p \in Paths :
          (edits' = edits /\ disk'[p] # disk[p] /\ disk[p].kind # "absent") =>
             \/ disk[p].kind = "link" /\ <<p, disk[p].to>> \in made
             \/ \E r \in Runs : p \in run[r].touched]_vars

\* "Every filesystem mutation is recorded BEFORE the next one is attempted"
\* (link.go:346): a link of a run's that is on disk is claimed by the manifest, is
\* about to be, or its run died in between.
MadeIsClaimed ==
    \A p \in Paths :
       (disk[p].kind = "link" /\ disk[p].by = "agent") =>
          \/ manifest[p] = disk[p].to
          \/ p \in unsaved
          \/ \E r \in Runs : run[r].op = "save" /\ run[r].at = p /\ run[r].mem[p] = disk[p].to

\* A run that is through has converged on what it read: what it wants is linked
\* and recorded or held by an entry that is not ours, never silently missing; and
\* a refresh leaves no link of ours that it does not want (link.go:319-321),
\* except where an operation failed or the operator intervened.
RunConverges ==
    \A r \in Runs : Through(r) /\ run[r].left = {} =>
       \A p \in Paths \ (run[r].touched \cup run[r].failed) :
          (p[1] \in run[r].only /\ p[2] = run[r].home[p[1]]) =>
             IF wanted(r, p)
             THEN /\ disk[p].kind # "absent"
                  /\ owns(manifest, p) => disk[p].to = Dir(r, p)
             ELSE run[r].prune => ~owns(manifest, p)

\* "Status must describe the machine" (link.go:260): the list in state.json is the
\* manifest's, whatever part of the machine the last run was narrowed to and
\* whoever else saves the file, with three exceptions: the manifest was changed
\* since by a run that has not reported yet or died before it did; the manifest was
\* changed while the last report was on its way from InstalledSlugs to the save;
\* or a command that had loaded state.json before the last report saved its copy
\* after it, and took the list back.
StatusDescribesMachine == ~unlisted => status.skills = InstalledSlugs

=============================================================================
