----------------------------- MODULE SkillsProofs -----------------------------
(***************************************************************************)
(* Proofs about skills provisioning, for any number of runs and edits and    *)
(* every set of harnesses, directories, skills, places and profiles.         *)
(***************************************************************************)
EXTENDS Skills, TLAPS

(***************************************************************************)
(* The inductive invariant.                                                 *)
(***************************************************************************)

Records == [Paths -> Targets \cup {None}]

Entries ==
    {Absent, Real} \cup {Link(t, b) : t \in Targets \cup {Elsewhere}, b \in {"agent", "operator"}}

RunStates ==
    [pc : {"idle", "resolved", "working", "reporting", "recording", "copied", "ended"},
     prune : BOOLEAN, only : SUBSET Harnesses, home : [Harnesses -> Dirs \cup {None}],
     from : Places \cup {None}, cat : SUBSET Slugs, prof : Profiles \cup {None},
     mem : Records, left : SUBSET Harnesses, links : SUBSET Paths, stale : SUBSET Paths,
     at : Paths \cup {None},
     op : {"none", "create", "replace", "recreate", "save", "withdraw"},
     shown : SUBSET Paths, touched : SUBSET Paths, failed : SUBSET Paths,
     installed : SUBSET Slugs, health : {"unknown", "ok", "degraded"},
     late : BOOLEAN]

CommandStates ==
    [pc : {"idle", "loaded"}, file : States \cup {None}, old : BOOLEAN]

TypeOK ==
    /\ place \in Places
    /\ vault \in [Slugs -> Contents]
    /\ profile \in Profiles
    /\ disk \in [Paths -> Entries]
    /\ manifest \in Records
    /\ run \in [Runs -> RunStates]
    /\ unlisted \in BOOLEAN

\* A run works under the lock, with what it read before it took it; one that is
\* not at work has nothing left to do.
Working(r) ==
    /\ run[r].pc = "working" => lock = r
    /\ run[r].pc \in {"resolved", "working"} =>
            run[r].home \in Homes /\ run[r].prof \in Profiles /\ run[r].from \in Places
    /\ run[r].pc # "working" => run[r].op = "none" /\ run[r].links = {} /\ run[r].stale = {}

\* The run's copy of the manifest is the manifest, but for the entry it is about
\* to record.
Recorded(r) ==
    run[r].pc = "working" =>
        \A p \in Paths : run[r].mem[p] = manifest[p] \/ (run[r].op = "save" /\ run[r].at = p)

\* What the run has decided about an entry it had a reason to decide: it makes
\* links it wants and withdraws the others, and it removes only what it owned when
\* it looked.
Decided(r) ==
    /\ run[r].op # "none" => run[r].at \in Paths
    /\ run[r].op \in {"create", "replace", "recreate"} => wanted(r, run[r].at)
    /\ run[r].op = "withdraw" => ~wanted(r, run[r].at)
    /\ \A p \in run[r].stale : ~wanted(r, p)
    /\ run[r].op \in {"replace", "withdraw"} /\ run[r].at \notin run[r].touched =>
            owns(run[r].mem, run[r].at)

Agents(p) == disk[p].kind = "link" /\ disk[p].by = "agent"

\* What a run is about to record is so: the link it made, or that there is none.
Recording(r) ==
    /\ run[r].op = "recreate" => ~Agents(run[r].at)
    /\ run[r].op = "save" =>
        /\ Agents(run[r].at) => run[r].mem[run[r].at] = disk[run[r].at].to
        /\ ~wanted(r, run[r].at) => run[r].mem[run[r].at] = None
        /\ wanted(r, run[r].at) /\ run[r].at \notin run[r].touched \cup run[r].failed =>
              disk[run[r].at].kind = "link" /\ disk[run[r].at].to = Dir(r, run[r].at)

\* Every recorded link is one a run has made.
Provenance(mem) == \A p \in Paths : mem[p] # None => <<p, mem[p]>> \in made

\* The path belongs to a harness the run has come to, and is not in hand.
Passed(r, p) ==
    /\ run[r].pc = "working"
    /\ p[1] \in run[r].only \ run[r].left /\ p[2] = run[r].home[p[1]]
    /\ p \notin run[r].touched \cup run[r].failed
    /\ run[r].op = "none" \/ run[r].at # p

\* Such a path is as the run wants it, or still on one of its lists.
Settled(r) ==
    \A p \in Paths : Passed(r, p) =>
        /\ wanted(r, p) =>
              \/ p \in run[r].links
              \/ disk[p].kind # "absent" /\ (owns(manifest, p) => disk[p].to = Dir(r, p))
        /\ ~wanted(r, p) /\ run[r].prune => p \in run[r].stale \/ ~owns(manifest, p)

\* What the run still has to look at belongs to a harness it has come to; what it
\* has in hand it has looked at; and what a refresh will visit without wanting it is
\* on the list of what to withdraw, if it is on record at all.
Listed(r) ==
    /\ run[r].pc = "working" => run[r].left \subseteq run[r].only
    /\ run[r].op # "none" => Looked(r, run[r].at)
    /\ \A p \in run[r].links \cup run[r].stale : p[1] \in run[r].only \ run[r].left
    /\ \A p \in run[r].links :
          run[r].prune /\ ~wanted(r, p) => p \in run[r].stale \/ run[r].mem[p] = None

\* A report that nobody's save has overtaken is of the manifest as it is.
Reported(r) ==
    run[r].pc \in {"recording", "copied"} /\ ~run[r].late => run[r].installed = InstalledSlugs

\* A copy of state.json that no report has made old lists what the file lists, as
\* long as that is the manifest's list.
Copies ==
    /\ status \in States
    /\ command \in [Commands -> CommandStates]
    /\ \A c \in Commands : command[c].pc = "loaded" =>
          /\ command[c].file \in States
          /\ command[c].old \/ unlisted \/ command[c].file.skills = status.skills

RunInv(r) ==
    /\ Working(r)
    /\ Recorded(r)
    /\ Decided(r)
    /\ Recording(r)
    /\ Provenance(run[r].mem)
    /\ Settled(r)
    /\ Listed(r)
    /\ Reported(r)

Inv ==
    /\ TypeOK
    /\ \A r \in Runs : RunInv(r)
    /\ Provenance(manifest)
    /\ MadeIsClaimed
    /\ Copies
    /\ StatusDescribesMachine

(***************************************************************************)
(* Paths, entries and profiles.                                             *)
(***************************************************************************)

\* A path names a harness, the directory of one of its homes and a skill.
LEMMA PathShape ==
    ASSUME NEW p \in Paths
    PROVE  p = <<p[1], p[2], p[3]>> /\ p[1] \in Harnesses /\ p[3] \in Slugs
BY DEF Paths

\* The four kinds of entry.
LEMMA EntryShape ==
    /\ Absent \in Entries /\ Real \in Entries
    /\ \A t \in Targets \cup {Elsewhere} : \A b \in {"agent", "operator"} : Link(t, b) \in Entries
    /\ Absent.kind = "absent" /\ Real.kind = "real"
    /\ \A t, b : Link(t, b).kind = "link" /\ Link(t, b).to = t /\ Link(t, b).by = b
    /\ \A e \in Entries : e.kind = "link" => e.to # None
<1>1. Absent \in Entries /\ Real \in Entries
  BY DEF Entries
<1>2. \A t \in Targets \cup {Elsewhere} : \A b \in {"agent", "operator"} : Link(t, b) \in Entries
  BY DEF Entries
<1>3. Absent.kind = "absent" /\ Real.kind = "real"
  BY DEF Absent, Real
<1>4. \A t, b : Link(t, b).kind = "link" /\ Link(t, b).to = t /\ Link(t, b).by = b
  BY DEF Link
<1>5. ASSUME NEW e \in Entries, e.kind = "link" PROVE e.to # None
  <2>1. PICK t \in Targets \cup {Elsewhere}, b \in {"agent", "operator"} : e = Link(t, b)
    BY <1>3, <1>5 DEF Entries
  <2> QED
    BY <1>4, <2>1, ValuesAssumption
<1> QED
  BY <1>1, <1>2, <1>3, <1>4, <1>5

\* A profile assigns skills.
LEMMA AssignSlugs ==
    ASSUME NEW prof \in Profiles, NEW h \in Harnesses
    PROVE  Assign(prof, h) \subseteq Slugs
<1> DEFINE blocks == <<prof.both[h], prof.machine, prof.harness[h], prof.defaults>>
           there  == {i \in 1..4 : blocks[i].set}
<1>1. prof.both[h] \in Blocks /\ prof.machine \in Blocks /\ prof.harness[h] \in Blocks /\ prof.defaults \in Blocks
  BY ProfilesAssumption
<1>2. \A i \in 1..4 : blocks[i].skills \subseteq Slugs
  BY <1>1 DEF Blocks
<1>3. there # {} => \E i \in there : \A j \in there : i <= j
  <2>1. CASE 1 \in there BY <2>1
  <2>2. CASE 1 \notin there /\ 2 \in there BY <2>2
  <2>3. CASE 1 \notin there /\ 2 \notin there /\ 3 \in there BY <2>3
  <2>4. CASE 1 \notin there /\ 2 \notin there /\ 3 \notin there
    BY <2>4
  <2> QED
    BY <2>1, <2>2, <2>3, <2>4
<1>4. Assign(prof, h) = IF there = {} THEN {} ELSE blocks[CHOOSE i \in there : \A j \in there : i <= j].skills
  BY DEF Assign
<1>5. there \subseteq 1..4
  OBVIOUS
<1> HIDE DEF blocks, there
<1> QED
  BY <1>2, <1>3, <1>4, <1>5

\* The state of a run that has not started is one.
LEMMA IdleState ==
    /\ Idle \in RunStates
    /\ Idle.op = "none" /\ Idle.links = {} /\ Idle.stale = {} /\ ~Idle.late
    /\ \A p \in Paths : Idle.mem[p] = None
BY DEF Idle, RunStates, Records

(***************************************************************************)
(* Frames.                                                                  *)
(***************************************************************************)

\* What a run wants and where it points depends on what it read.
LEMMA WantedSame ==
    ASSUME NEW r, run'[r].prof = run[r].prof, run'[r].cat = run[r].cat, run'[r].from = run[r].from
    PROVE  \A p : wanted(r, p)' = wanted(r, p) /\ Dir(r, p)' = Dir(r, p)
BY DEF wanted, Dir

\* A run that is not at work stays as good as it is while others go on, unless
\* it is about to report and does not notice that the manifest has changed.
LEMMA RestKept ==
    ASSUME NEW q \in Runs, RunInv(q), run[q].pc # "working",
           run'[q].pc = run[q].pc, run'[q].op = run[q].op,
           run'[q].links = run[q].links, run'[q].stale = run[q].stale,
           run'[q].home = run[q].home, run'[q].prof = run[q].prof, run'[q].from = run[q].from,
           run'[q].mem = run[q].mem, run'[q].installed = run[q].installed,
           run'[q].pc \in {"recording", "copied"} /\ ~run'[q].late => ~run[q].late /\ manifest' = manifest,
           made \subseteq made'
    PROVE  RunInv(q)'
<1>1. Working(q)'
  BY DEF RunInv, Working
<1>2. Recorded(q)'
  BY DEF Recorded
<1>3. Decided(q)'
  <2>1. run'[q].op = "none" /\ run'[q].stale = {}
    BY DEF RunInv, Working
  <2> QED
    BY <2>1 DEF Decided
<1>4. Recording(q)'
  <2>1. run'[q].op = "none"
    BY DEF RunInv, Working
  <2> QED
    BY <2>1 DEF Recording
<1>5. Provenance(run[q].mem)'
  BY DEF RunInv, Provenance
<1>6. Settled(q)'
  BY DEF Settled, Passed
<1>7. Reported(q)'
  BY DEF RunInv, Reported, InstalledSlugs
<1>8. Listed(q)'
  <2>1. run'[q].op = "none" /\ run'[q].links = {} /\ run'[q].stale = {}
    BY DEF RunInv, Working
  <2> QED
    BY <2>1 DEF Listed
<1> QED
  BY <1>1, <1>2, <1>3, <1>4, <1>5, <1>6, <1>7, <1>8 DEF RunInv

\* Copies stay as current as they are while nobody loads or saves the file.
LEMMA CopiesKept ==
    ASSUME Copies, UNCHANGED <<status, command>>, unlisted' = unlisted \/ unlisted' = TRUE
    PROVE  Copies'
BY DEF Copies

\* One run is at work.
LEMMA OneWorks ==
    ASSUME Inv, NEW r \in Runs, NEW q \in Runs, run[r].pc = "working", q # r
    PROVE  run[q].pc # "working"
BY DEF Inv, RunInv, Working

\* A step of a run under the lock that leaves the manifest alone: what remains to
\* be shown is about that run and what it has in hand.
LEMMA WorkStep ==
    ASSUME Inv, NEW r \in Runs, run[r].pc = "working",
           run' \in [Runs -> RunStates], \A q \in Runs \ {r} : run'[q] = run[q],
           run'[r].pc = "working", run'[r].home = run[r].home,
           run'[r].prof = run[r].prof, run'[r].from = run[r].from,
           disk' \in [Paths -> Entries], made \subseteq made',
           UNCHANGED <<sources, manifest, lock, status, command, unlisted>>,
           Recorded(r)', Decided(r)', Recording(r)', Provenance(run[r].mem)', Settled(r)',
           Listed(r)', MadeIsClaimed'
    PROVE  Inv'
<1>1. TypeOK'
  BY DEF Inv, TypeOK, sources
<1>2. ASSUME NEW q \in Runs PROVE RunInv(q)'
  <2>1. CASE q = r
    <3>1. Working(r)'
      BY DEF Inv, RunInv, Working
    <3>2. Reported(r)'
      BY DEF Reported
    <3> QED
      BY <2>1, <3>1, <3>2 DEF RunInv
  <2>2. CASE q # r
    <3>1. run[q].pc # "working" /\ RunInv(q) /\ run'[q] = run[q]
      BY <2>2, OneWorks DEF Inv
    <3> QED
      BY <3>1, RestKept
  <2> QED
    BY <2>1, <2>2
<1>3. Provenance(manifest)'
  BY DEF Inv, Provenance
<1>4. StatusDescribesMachine'
  BY DEF Inv, StatusDescribesMachine, InstalledSlugs
<1>5. Copies'
  BY CopiesKept DEF Inv
<1> QED
  BY <1>1, <1>2, <1>3, <1>4, <1>5 DEF Inv

\* Nothing is on disk, on record or under way.
LEMMA InitInv == Init => Inv
<1> SUFFICES ASSUME Init PROVE Inv
  OBVIOUS
<1>1. TypeOK
  BY IdleState, EntryShape DEF Init, TypeOK, Records
<1>2. ASSUME NEW r \in Runs PROVE RunInv(r)
  <2>1. run[r] = Idle /\ run[r].pc = "idle"
    BY DEF Init, Idle
  <2>2. Working(r) /\ Recorded(r) /\ Settled(r) /\ Reported(r)
    BY <2>1, IdleState DEF Working, Recorded, Settled, Passed, Reported
  <2>3. Decided(r) /\ Recording(r) /\ Listed(r)
    BY <2>1, IdleState DEF Decided, Recording, Listed
  <2>4. Provenance(run[r].mem)
    BY <2>1, IdleState DEF Provenance
  <2> QED
    BY <2>2, <2>3, <2>4 DEF RunInv
<1>3. Provenance(manifest)
  BY DEF Init, Provenance
<1>4. MadeIsClaimed
  BY EntryShape DEF Init, MadeIsClaimed
<1>5. StatusDescribesMachine
  BY DEF Init, StatusDescribesMachine, InstalledSlugs
<1>6. Copies
  <2>1. status \in States
    BY DEF Init, States
  <2>2. NoCopy \in CommandStates /\ NoCopy.pc = "idle"
    BY DEF NoCopy, CommandStates
  <2>3. command = [c \in Commands |-> NoCopy]
    BY DEF Init
  <2> QED
    BY <2>1, <2>2, <2>3 DEF Copies
<1> QED
  BY <1>1, <1>2, <1>3, <1>4, <1>5, <1>6 DEF Inv

(***************************************************************************)
(* Steps of a run at work.                                                  *)
(***************************************************************************)

\* A step keeps what the run read before it took the lock.
SameInputs(r) ==
    /\ run'[r].pc = "working" /\ run'[r].home = run[r].home /\ run'[r].only = run[r].only
    /\ run'[r].prof = run[r].prof /\ run'[r].from = run[r].from /\ run'[r].cat = run[r].cat
    /\ run'[r].prune = run[r].prune /\ run'[r].touched = run[r].touched

\* A run moves to a new state and the others stay.
LEMMA Moves ==
    ASSUME run \in [Runs -> RunStates], NEW r \in Runs, NEW x \in RunStates,
           run' = [run EXCEPT ![r] = x]
    PROVE  /\ run' \in [Runs -> RunStates] /\ run'[r] = x
           /\ \A q \in Runs \ {r} : run'[q] = run[q]
OBVIOUS

\* Claims stand while nobody who is about to record changes its mind and nothing
\* new of the agent's comes on disk.
LEMMA ClaimsKept ==
    ASSUME MadeIsClaimed, manifest' = manifest, unsaved' = unsaved,
           \A p \in Paths : disk'[p] = disk[p] \/ ~Agents(p)',
           \A q \in Runs : run[q].op = "save" =>
               run'[q].op = "save" /\ run'[q].at = run[q].at /\ run'[q].mem = run[q].mem
    PROVE  MadeIsClaimed'
BY DEF MadeIsClaimed, Agents

\* The next harness: what the run wants there is on one list and what it does not
\* want on the other.
LEMMA NextHarnessStep ==
    ASSUME Inv, NEW r \in Runs, NEW h \in Harnesses, nextHarness(r, h)
    PROVE  Inv'
<1> DEFINE links == {<<h, run[r].home[h], s>> : s \in Assign(run[r].prof, h)}
           stale == IF run[r].prune THEN staleEntries(r, h) ELSE {}
<1>0. /\ run \in [Runs -> RunStates] /\ RunInv(r) /\ run[r].pc = "working" /\ run[r].op = "none"
      /\ run[r].home \in Homes /\ run[r].prof \in Profiles
      /\ run[r].links = {} /\ run[r].stale = {}
  BY DEF Inv, TypeOK, nextHarness, Through, RunInv, Working
<1>1. links \subseteq Paths /\ stale \subseteq Paths
  BY <1>0, AssignSlugs DEF Paths, staleEntries
<1>2. run' = [run EXCEPT ![r].left = @ \ {h}, ![r].links = links, ![r].stale = stale]
  BY DEF nextHarness
<1> HIDE DEF links, stale
<1>3. run' \in [Runs -> RunStates] /\ \A q \in Runs \ {r} : run'[q] = run[q]
  <2> DEFINE x == [run[r] EXCEPT !.left = @ \ {h}, !.links = links, !.stale = stale]
  <2>1. run[r] \in RunStates
    BY <1>0
  <2>2. x \in RunStates
    BY <1>1, <2>1 DEF RunStates
  <2>3. run' = [run EXCEPT ![r] = x]
    BY <1>0, <1>2
  <2> HIDE DEF x
  <2> QED
    BY <1>0, <2>2, <2>3, Moves
<1>4. SameInputs(r) /\ run'[r].mem = run[r].mem /\ run'[r].op = "none" /\ run'[r].failed = run[r].failed
  BY <1>0, <1>2 DEF RunStates, SameInputs
<1>5. run'[r].left = run[r].left \ {h} /\ run'[r].links = links /\ run'[r].stale = stale
  BY <1>0, <1>2 DEF RunStates
<1>6. UNCHANGED <<sources, disk, manifest, lock, status, command, made, unsaved, unlisted>>
  BY DEF nextHarness
<1>7. \A p : wanted(r, p)' = wanted(r, p) /\ Dir(r, p)' = Dir(r, p)
  BY <1>4, WantedSame DEF SameInputs
<1>8. Recorded(r)' /\ Recording(r)' /\ Provenance(run[r].mem)'
  BY <1>0, <1>4, <1>6 DEF RunInv, Recorded, Recording, Provenance
<1>9. Decided(r)'
  <2>1. \A p \in stale : ~wanted(r, p)
    BY DEF stale, staleEntries
  <2> QED
    BY <1>4, <1>5, <1>7, <2>1 DEF Decided
<1>10. Settled(r)'
  <2> SUFFICES ASSUME NEW p \in Paths, Passed(r, p)'
               PROVE  /\ wanted(r, p) =>
                            \/ p \in links
                            \/ disk[p].kind # "absent" /\ (owns(manifest, p) => disk[p].to = Dir(r, p))
                      /\ ~wanted(r, p) /\ run[r].prune => p \in stale \/ ~owns(manifest, p)
    BY <1>4, <1>5, <1>6, <1>7 DEF Settled, SameInputs, owns
  <2>1. CASE p[1] = h
    <3>1. p[2] = run[r].home[h] /\ p = <<h, run[r].home[h], p[3]>>
      BY <1>4, <2>1, PathShape DEF Passed, SameInputs
    <3>2. wanted(r, p) => p \in links
      BY <2>1, <3>1 DEF wanted, links
    <3>3. run[r].mem[p] = manifest[p]
      BY <1>0 DEF RunInv, Recorded
    <3>4. disk[p] \in Entries
      BY DEF Inv, TypeOK
    <3>5. run[r].mem[p] = None => ~owns(manifest, p)
      BY <3>3, <3>4, EntryShape DEF owns
    <3>6. ~wanted(r, p) /\ run[r].prune /\ run[r].mem[p] # None => p \in stale
      BY <2>1, <3>1 DEF stale, staleEntries
    <3> QED
      BY <3>2, <3>5, <3>6
  <2>2. CASE p[1] # h
    <3>1. Passed(r, p)
      BY <1>0, <1>4, <1>5, <2>2 DEF Passed, SameInputs
    <3> QED
      BY <1>0, <3>1 DEF RunInv, Settled
  <2> QED
    BY <2>1, <2>2
<1>11. MadeIsClaimed'
  BY <1>0, <1>3, <1>6, ClaimsKept DEF Inv
<1>12. disk' \in [Paths -> Entries]
  BY <1>6 DEF Inv, TypeOK
<1>13. Listed(r)'
  <2>1. h \in run[r].left /\ run[r].left \subseteq run[r].only
    BY <1>0 DEF nextHarness, RunInv, Listed
  <2>2. \A p \in links \cup stale : p[1] = h
    BY DEF links, stale, staleEntries
  <2>3. ASSUME NEW p \in links, run[r].prune, ~wanted(r, p)
        PROVE  p \in stale \/ run[r].mem[p] = None
    <3>1. p \in Paths /\ p[1] = h /\ p[2] = run[r].home[h]
      BY <1>1 DEF links
    <3> QED
      BY <2>3, <3>1 DEF stale, staleEntries
  <2> QED
    BY <1>4, <1>5, <1>7, <2>1, <2>2, <2>3 DEF Listed, SameInputs
<1> QED
  BY <1>0, <1>3, <1>4, <1>6, <1>8, <1>9, <1>10, <1>11, <1>12, <1>13, WorkStep DEF SameInputs

\* link looks at the entry: what it leaves alone is settled, anything else is in
\* hand.
LEMMA InspectStep ==
    ASSUME Inv, NEW r \in Runs, NEW p \in Paths, inspect(r, p)
    PROVE  Inv'
<1> DEFINE op    == IF wanted(r, p) THEN decision(r, p) ELSE "none"
           shown == IF wanted(r, p) /\ Confirmed(r, p) THEN run[r].shown \cup {p} ELSE run[r].shown
           x     == [run[r] EXCEPT !.links = @ \ {p}, !.at = p, !.op = op, !.shown = shown]
<1>0. /\ run \in [Runs -> RunStates] /\ run[r] \in RunStates /\ RunInv(r)
      /\ run[r].pc = "working" /\ run[r].op = "none"
  BY DEF Inv, TypeOK, inspect, RunInv, Working
<1>1. op \in {"none", "create", "replace"} /\ shown \subseteq Paths
  BY <1>0 DEF decision, RunStates
<1>2. run' = [run EXCEPT ![r] = x]
  BY <1>0 DEF inspect
<1>3. /\ op # "none" => wanted(r, p)
      /\ op = "replace" => owns(run[r].mem, p)
      /\ op = "none" /\ wanted(r, p) =>
            disk[p].kind # "absent" /\ (owns(run[r].mem, p) => disk[p].to = Dir(r, p))
  BY DEF decision, Confirmed
<1> HIDE DEF op, shown
<1>4. x \in RunStates
  BY <1>0, <1>1 DEF RunStates
<1>5. /\ x.pc = "working" /\ x.home = run[r].home /\ x.only = run[r].only /\ x.prof = run[r].prof
      /\ x.from = run[r].from /\ x.cat = run[r].cat /\ x.prune = run[r].prune
      /\ x.touched = run[r].touched /\ x.failed = run[r].failed /\ x.mem = run[r].mem
      /\ x.left = run[r].left /\ x.links = run[r].links \ {p} /\ x.stale = run[r].stale
      /\ x.at = p /\ x.op = op
  BY <1>0 DEF RunStates
<1> HIDE DEF x
<1>6. run' \in [Runs -> RunStates] /\ run'[r] = x /\ \A q \in Runs \ {r} : run'[q] = run[q]
  BY <1>0, <1>2, <1>4, Moves
<1>7. UNCHANGED <<sources, disk, manifest, lock, status, command, made, unsaved, unlisted>>
  BY DEF inspect
<1>8. \A q : wanted(r, q)' = wanted(r, q) /\ Dir(r, q)' = Dir(r, q)
  BY <1>5, <1>6, WantedSame
<1>9. Recorded(r)' /\ Recording(r)' /\ Provenance(run[r].mem)'
  BY <1>0, <1>1, <1>5, <1>6, <1>7 DEF RunInv, Recorded, Recording, Provenance
<1>10. Decided(r)'
  BY <1>0, <1>1, <1>3, <1>5, <1>6, <1>7, <1>8 DEF RunInv, Decided, owns
<1>11. Settled(r)'
  <2> SUFFICES ASSUME NEW q \in Paths, Passed(r, q)'
               PROVE  /\ wanted(r, q) =>
                            \/ q \in run[r].links \ {p}
                            \/ disk[q].kind # "absent" /\ (owns(manifest, q) => disk[q].to = Dir(r, q))
                      /\ ~wanted(r, q) /\ run[r].prune => q \in run[r].stale \/ ~owns(manifest, q)
    BY <1>5, <1>6, <1>7, <1>8 DEF Settled, owns
  <2>1. Passed(r, q) /\ (q = p => op = "none")
    BY <1>0, <1>5, <1>6 DEF Passed
  <2>2. run[r].mem[q] = manifest[q]
    BY <1>0 DEF RunInv, Recorded
  <2> QED
    BY <1>0, <1>3, <2>1, <2>2 DEF RunInv, Settled, owns
<1>12. MadeIsClaimed' /\ disk' \in [Paths -> Entries]
  BY <1>0, <1>6, <1>7, ClaimsKept DEF Inv, TypeOK
<1>13. Listed(r)'
  <2>1. p \in run[r].links /\ p[1] \in run[r].only \ run[r].left
    BY <1>0 DEF inspect, RunInv, Listed
  <2>2. op # "none" => p \notin run[r].stale
    BY <1>0, <1>3 DEF RunInv, Decided
  <2>3. op # "none" => Looked(r, run[r].at)'
    BY <1>5, <1>6, <2>1, <2>2 DEF Looked
  <2> QED
    BY <1>0, <1>5, <1>6, <1>8, <2>3 DEF RunInv, Listed
<1> QED
  BY <1>0, <1>5, <1>6, <1>7, <1>9, <1>10, <1>11, <1>12, <1>13, WorkStep

\* An entry that cannot be inspected has failed.
LEMMA UninspectableStep ==
    ASSUME Inv, NEW r \in Runs, NEW p \in Paths, uninspectable(r, p)
    PROVE  Inv'
<1> DEFINE x == [run[r] EXCEPT !.links = @ \ {p}, !.stale = @ \ {p}, !.failed = @ \cup {p}]
<1>0. /\ run \in [Runs -> RunStates] /\ run[r] \in RunStates /\ RunInv(r)
      /\ run[r].pc = "working" /\ run[r].op = "none"
  BY DEF Inv, TypeOK, uninspectable, RunInv, Working
<1>1. run' = [run EXCEPT ![r] = x]
  BY <1>0 DEF uninspectable
<1>2. x \in RunStates
  BY <1>0 DEF RunStates
<1>3. /\ x.pc = "working" /\ x.home = run[r].home /\ x.only = run[r].only /\ x.prof = run[r].prof
      /\ x.from = run[r].from /\ x.cat = run[r].cat /\ x.prune = run[r].prune
      /\ x.touched = run[r].touched /\ x.failed = run[r].failed \cup {p} /\ x.mem = run[r].mem
      /\ x.left = run[r].left /\ x.links = run[r].links \ {p} /\ x.stale = run[r].stale \ {p}
      /\ x.op = "none"
  BY <1>0 DEF RunStates
<1> HIDE DEF x
<1>4. run' \in [Runs -> RunStates] /\ run'[r] = x /\ \A q \in Runs \ {r} : run'[q] = run[q]
  BY <1>0, <1>1, <1>2, Moves
<1>5. UNCHANGED <<sources, disk, manifest, lock, status, command, made, unsaved, unlisted>>
  BY DEF uninspectable
<1>6. \A q : wanted(r, q)' = wanted(r, q) /\ Dir(r, q)' = Dir(r, q)
  BY <1>3, <1>4, WantedSame
<1>7. Recorded(r)' /\ Recording(r)' /\ Provenance(run[r].mem)'
  BY <1>0, <1>3, <1>4, <1>5 DEF RunInv, Recorded, Recording, Provenance
<1>8. Decided(r)'
  BY <1>0, <1>3, <1>4, <1>6 DEF RunInv, Decided
<1>9. Settled(r)'
  <2> SUFFICES ASSUME NEW q \in Paths, Passed(r, q)'
               PROVE  /\ wanted(r, q) =>
                            \/ q \in run[r].links \ {p}
                            \/ disk[q].kind # "absent" /\ (owns(manifest, q) => disk[q].to = Dir(r, q))
                      /\ ~wanted(r, q) /\ run[r].prune =>
                            q \in run[r].stale \ {p} \/ ~owns(manifest, q)
    BY <1>3, <1>4, <1>5, <1>6 DEF Settled, owns
  <2>1. Passed(r, q) /\ q # p
    BY <1>0, <1>3, <1>4 DEF Passed
  <2> QED
    BY <1>0, <2>1 DEF RunInv, Settled
<1>10. MadeIsClaimed' /\ disk' \in [Paths -> Entries]
  BY <1>0, <1>4, <1>5, ClaimsKept DEF Inv, TypeOK
<1>11. Listed(r)'
  BY <1>0, <1>3, <1>4, <1>6 DEF RunInv, Listed
<1> QED
  BY <1>0, <1>3, <1>4, <1>5, <1>7, <1>8, <1>9, <1>10, <1>11, WorkStep

\* A file operation on the entry in hand: every other entry stays settled, and
\* this one stays in hand unless the operation failed.
LEMMA InHand ==
    ASSUME Inv, NEW r \in Runs, run[r].op \notin {"none", "save"},
           NEW x \in RunStates, run' = [run EXCEPT ![r] = x],
           x.pc = run[r].pc, x.home = run[r].home, x.only = run[r].only, x.prof = run[r].prof,
           x.from = run[r].from, x.cat = run[r].cat, x.prune = run[r].prune,
           x.touched = run[r].touched, x.left = run[r].left, x.links = run[r].links,
           x.stale = run[r].stale, x.at = run[r].at, run[r].failed \subseteq x.failed,
           \/ x.op = "save"
           \/ x.op = "recreate" /\ wanted(r, run[r].at) /\ x.mem = run[r].mem
           \/ x.op = "none" /\ run[r].at \in x.failed /\ x.mem = run[r].mem,
           disk' \in [Paths -> Entries],
           \A q \in Paths \ {run[r].at} : disk'[q] = disk[q] /\ x.mem[q] = run[r].mem[q],
           made \subseteq made', UNCHANGED <<sources, manifest, lock, status, command, unlisted>>,
           Recording(r)', Provenance(run[r].mem)', MadeIsClaimed'
    PROVE  Inv'
<1>0. /\ run \in [Runs -> RunStates] /\ RunInv(r) /\ run[r].pc = "working" /\ run[r].at \in Paths
  BY DEF Inv, TypeOK, RunInv, Working, Decided
<1>1. run' \in [Runs -> RunStates] /\ run'[r] = x /\ \A q \in Runs \ {r} : run'[q] = run[q]
  BY <1>0, Moves
<1>2. \A q : wanted(r, q)' = wanted(r, q) /\ Dir(r, q)' = Dir(r, q)
  BY <1>1, WantedSame
<1>3. Recorded(r)'
  BY <1>0, <1>1 DEF RunInv, Recorded
<1>4. Decided(r)'
  BY <1>0, <1>1, <1>2 DEF RunInv, Decided
<1>5. Settled(r)'
  <2> SUFFICES ASSUME NEW q \in Paths, Passed(r, q)'
               PROVE  /\ wanted(r, q) =>
                            \/ q \in run[r].links
                            \/ disk'[q].kind # "absent" /\ (owns(manifest, q)' => disk'[q].to = Dir(r, q))
                      /\ ~wanted(r, q) /\ run[r].prune => q \in run[r].stale \/ ~owns(manifest, q)'
    BY <1>1, <1>2 DEF Settled
  <2>1. Passed(r, q) /\ q # run[r].at
    BY <1>1 DEF Passed
  <2>2. disk'[q] = disk[q] /\ owns(manifest, q)' = owns(manifest, q)
    BY <2>1 DEF owns
  <2> QED
    BY <1>0, <2>1, <2>2 DEF RunInv, Settled
<1>6. Listed(r)'
  <2>1. Looked(r, run[r].at)
    BY <1>0 DEF RunInv, Listed
  <2>2. Looked(r, run[r].at)'
    BY <1>1, <2>1 DEF Looked
  <2>3. \A q \in run[r].links : q \in Paths \ {run[r].at}
    BY <1>0, <2>1 DEF Looked, RunStates
  <2> QED
    BY <1>0, <1>1, <1>2, <2>2, <2>3 DEF RunInv, Listed
<1> QED
  BY <1>0, <1>1, <1>3, <1>4, <1>5, <1>6, WorkStep

\* An operation that failed leaves the entry to somebody else.
LEMMA SkipStep ==
    ASSUME Inv, NEW r \in Runs, run[r].op \notin {"none", "save"}, Skip(r),
           UNCHANGED <<sources, manifest, lock, status, command, made, unsaved, unlisted>>
    PROVE  Inv'
<1> DEFINE p == run[r].at
           x == [run[r] EXCEPT !.op = "none", !.failed = @ \cup {p}]
<1>0. /\ run \in [Runs -> RunStates] /\ run[r] \in RunStates /\ RunInv(r) /\ p \in Paths
      /\ disk \in [Paths -> Entries] /\ \A q \in Runs \ {r} : run[q].op # "save"
  BY OneWorks DEF Inv, TypeOK, RunInv, Decided, Working
<1>1. x \in RunStates /\ run' = [run EXCEPT ![r] = x]
  BY <1>0 DEF RunStates, Skip
<1>2. /\ x.pc = run[r].pc /\ x.home = run[r].home /\ x.only = run[r].only /\ x.prof = run[r].prof
      /\ x.from = run[r].from /\ x.cat = run[r].cat /\ x.prune = run[r].prune
      /\ x.touched = run[r].touched /\ x.left = run[r].left /\ x.links = run[r].links
      /\ x.stale = run[r].stale /\ x.at = p
      /\ x.failed = run[r].failed \cup {p} /\ x.mem = run[r].mem /\ x.op = "none"
  BY <1>0 DEF RunStates
<1> HIDE DEF x
<1>3. run'[r] = x /\ disk' = disk
  BY <1>0, <1>1, Moves DEF Skip
<1>4. Recording(r)' /\ Provenance(run[r].mem)'
  BY <1>0, <1>2, <1>3 DEF RunInv, Recording, Provenance
<1>5. MadeIsClaimed'
  BY <1>0, <1>3, ClaimsKept DEF Inv
<1> QED
  BY <1>0, <1>1, <1>2, <1>3, <1>4, <1>5, InHand

\* The link that is to be made again is removed, or that fails.
LEMMA RemoveStaleStep ==
    ASSUME Inv, NEW r \in Runs, removeStale(r)
    PROVE  Inv'
<1> DEFINE p == run[r].at
<1>0. /\ run \in [Runs -> RunStates] /\ run[r] \in RunStates /\ RunInv(r) /\ disk \in [Paths -> Entries]
      /\ run[r].op = "replace" /\ p \in Paths /\ wanted(r, p)
  BY DEF Inv, TypeOK, removeStale, RunInv, Decided
<1>1. UNCHANGED <<sources, manifest, lock, status, command, made, unsaved, unlisted>>
  BY DEF removeStale
<1>2. \A q \in Runs \ {r} : run[q].op # "save"
  BY <1>0, OneWorks DEF Inv, RunInv, Working
<1>3. CASE /\ disk' = [disk EXCEPT ![p] = Absent]
           /\ run' = [run EXCEPT ![r].op = "recreate"]
  <2> DEFINE x == [run[r] EXCEPT !.op = "recreate"]
  <2>1. x \in RunStates /\ run' = [run EXCEPT ![r] = x]
    BY <1>0, <1>3 DEF RunStates
  <2>2. /\ x.pc = run[r].pc /\ x.home = run[r].home /\ x.only = run[r].only /\ x.prof = run[r].prof
        /\ x.from = run[r].from /\ x.cat = run[r].cat /\ x.prune = run[r].prune
        /\ x.touched = run[r].touched /\ x.left = run[r].left /\ x.links = run[r].links
        /\ x.stale = run[r].stale /\ x.at = p /\ x.failed = run[r].failed
        /\ x.mem = run[r].mem /\ x.op = "recreate"
    BY <1>0 DEF RunStates
  <2> HIDE DEF x
  <2>3. run'[r] = x /\ \A q \in Runs \ {r} : run'[q] = run[q]
    BY <1>0, <2>1, Moves
  <2>4. disk' \in [Paths -> Entries] /\ disk'[p].kind = "absent" /\ \A q \in Paths \ {p} : disk'[q] = disk[q]
    BY <1>0, <1>3, EntryShape
  <2>5. Recording(r)'
    BY <2>2, <2>3, <2>4 DEF Recording, Agents
  <2>6. Provenance(run[r].mem)'
    BY <1>0, <1>1, <2>2, <2>3 DEF RunInv, Provenance
  <2>7. MadeIsClaimed'
    <3>1. \A q \in Paths : disk'[q] = disk[q] \/ ~Agents(q)'
      BY <2>4 DEF Agents
    <3> QED
      BY <1>0, <1>1, <1>2, <3>1, ClaimsKept DEF Inv
  <2> QED
    BY <1>0, <1>1, <2>1, <2>2, <2>4, <2>5, <2>6, <2>7, InHand
<1>4. CASE Skip(r)
  BY <1>0, <1>1, <1>4, SkipStep
<1> QED
  BY <1>3, <1>4 DEF removeStale

\* The link is made, and is about to be recorded.
LEMMA SymlinkStep ==
    ASSUME Inv, NEW r \in Runs, symlink(r)
    PROVE  Inv'
<1> DEFINE p == run[r].at
           x == [run[r] EXCEPT !.op = "save", !.mem[p] = Dir(r, p), !.shown = @ \cup {p}]
<1>0. /\ run \in [Runs -> RunStates] /\ run[r] \in RunStates /\ RunInv(r) /\ p \in Paths
      /\ disk \in [Paths -> Entries] /\ run[r].op \in {"create", "recreate"}
      /\ wanted(r, p) /\ run[r].pc = "working" /\ run[r].from \in Places
      /\ \A q \in Runs \ {r} : run[q].op # "save"
  BY OneWorks DEF Inv, TypeOK, RunInv, Decided, Working, symlink
<1>1. Dir(r, p) \in Targets
  BY <1>0, PathShape DEF Dir, Targets
<1>2. run[r].mem \in Records
  BY <1>0 DEF RunStates
<1>3. [run[r].mem EXCEPT ![p] = Dir(r, p)] \in Records
  BY <1>0, <1>1, <1>2 DEF Records
<1>4. x \in RunStates /\ run' = [run EXCEPT ![r] = x]
  BY <1>0, <1>3 DEF RunStates, symlink
<1>5. /\ x.pc = run[r].pc /\ x.home = run[r].home /\ x.only = run[r].only /\ x.prof = run[r].prof
      /\ x.from = run[r].from /\ x.cat = run[r].cat /\ x.prune = run[r].prune
      /\ x.touched = run[r].touched /\ x.left = run[r].left /\ x.links = run[r].links
      /\ x.stale = run[r].stale /\ x.at = p
      /\ x.failed = run[r].failed /\ x.op = "save"
      /\ x.mem = [run[r].mem EXCEPT ![p] = Dir(r, p)]
  BY <1>0 DEF RunStates
<1>6. x.mem[p] = Dir(r, p) /\ \A q \in Paths \ {p} : x.mem[q] = run[r].mem[q]
  BY <1>0, <1>2, <1>5 DEF Records
<1> HIDE DEF x
<1>7. run'[r] = x /\ \A q \in Runs \ {r} : run'[q] = run[q]
  BY <1>0, <1>4, Moves
<1>8. /\ disk' \in [Paths -> Entries] /\ \A q \in Paths \ {p} : disk'[q] = disk[q]
      /\ disk'[p].kind = "link" /\ disk'[p].to = Dir(r, p)
  BY <1>0, <1>1, EntryShape DEF symlink
<1>9. /\ made' = made \cup {<<p, Dir(r, p)>>}
      /\ UNCHANGED <<sources, manifest, lock, status, command, unsaved, unlisted>>
  BY DEF symlink
<1>10. \A q : wanted(r, q)' = wanted(r, q) /\ Dir(r, q)' = Dir(r, q)
  BY <1>5, <1>7, WantedSame
<1>11. Recording(r)'
  <2>1. run'[r].at = p /\ run'[r].op = "save" /\ run'[r].mem[p] = disk'[p].to /\ disk'[p].kind = "link"
    BY <1>5, <1>6, <1>7, <1>8
  <2>2. wanted(r, run[r].at)' /\ Dir(r, run[r].at)' = disk'[p].to
    BY <1>0, <1>5, <1>7, <1>8 DEF wanted, Dir
  <2> QED
    BY <2>1, <2>2 DEF Recording
<1>12. Provenance(run[r].mem)'
  BY <1>0, <1>6, <1>7, <1>9 DEF RunInv, Provenance
<1>13. MadeIsClaimed'
  <2> SUFFICES ASSUME NEW q \in Paths, disk'[q].kind = "link", disk'[q].by = "agent"
               PROVE  \/ manifest'[q] = disk'[q].to
                      \/ q \in unsaved'
                      \/ \E t \in Runs : run'[t].op = "save" /\ run'[t].at = q /\ run'[t].mem[q] = disk'[q].to
    BY DEF MadeIsClaimed
  <2>1. CASE q = p
    BY <1>5, <1>6, <1>7, <1>8, <2>1
  <2>2. CASE q # p
    <3>1. disk'[q] = disk[q] /\ \A t \in Runs : run[t].op # "save"
      BY <1>0, <1>8, <2>2
    <3> QED
      BY <1>9, <3>1 DEF Inv, MadeIsClaimed
  <2> QED
    BY <2>1, <2>2
<1> QED
  BY <1>0, <1>4, <1>5, <1>6, <1>8, <1>9, <1>11, <1>12, <1>13, InHand

\* A link that could not be made again is forgotten.
LEMMA SymlinkFailsStep ==
    ASSUME Inv, NEW r \in Runs, symlinkFails(r)
    PROVE  Inv'
<1> DEFINE p == run[r].at
           x == [run[r] EXCEPT !.op = "save", !.mem[p] = None, !.failed = @ \cup {p}]
<1>0. /\ run \in [Runs -> RunStates] /\ run[r] \in RunStates /\ RunInv(r) /\ p \in Paths
      /\ disk \in [Paths -> Entries] /\ run[r].op \in {"create", "recreate"}
      /\ wanted(r, p) /\ \A q \in Runs \ {r} : run[q].op # "save"
  BY OneWorks DEF Inv, TypeOK, RunInv, Decided, Working, symlinkFails
<1>1. UNCHANGED <<sources, disk, manifest, lock, status, command, made, unsaved, unlisted>>
  BY DEF symlinkFails, Skip
<1>2. CASE run[r].op = "create"
  BY <1>0, <1>1, <1>2, SkipStep DEF symlinkFails
<1>3. CASE run[r].op = "recreate"
  <2>1. run[r].mem \in Records
    BY <1>0 DEF RunStates
  <2>2. [run[r].mem EXCEPT ![p] = None] \in Records
    BY <1>0, <2>1 DEF Records
  <2>3. x \in RunStates /\ run' = [run EXCEPT ![r] = x]
    BY <1>0, <1>3, <2>2 DEF RunStates, symlinkFails
  <2>4. /\ x.pc = run[r].pc /\ x.home = run[r].home /\ x.only = run[r].only /\ x.prof = run[r].prof
        /\ x.from = run[r].from /\ x.cat = run[r].cat /\ x.prune = run[r].prune
        /\ x.touched = run[r].touched /\ x.left = run[r].left /\ x.links = run[r].links
        /\ x.stale = run[r].stale /\ x.at = p
        /\ x.failed = run[r].failed \cup {p} /\ x.op = "save"
        /\ x.mem = [run[r].mem EXCEPT ![p] = None]
    BY <1>0 DEF RunStates
  <2>5. x.mem[p] = None /\ \A q \in Paths \ {p} : x.mem[q] = run[r].mem[q]
    BY <1>0, <2>1, <2>4 DEF Records
  <2> HIDE DEF x
  <2>6. run'[r] = x
    BY <1>0, <2>3, Moves
  <2>7. ~Agents(p)'
    BY <1>0, <1>1, <1>3, <2>4, <2>6 DEF RunInv, Recording, Agents
  <2>8. Recording(r)'
    BY <2>4, <2>5, <2>6, <2>7 DEF Recording
  <2>9. Provenance(run[r].mem)'
    BY <1>0, <1>1, <2>5, <2>6 DEF RunInv, Provenance
  <2>10. MadeIsClaimed'
    BY <1>0, <1>1, <2>3, ClaimsKept DEF Inv
  <2> QED
    BY <1>0, <1>1, <2>3, <2>4, <2>5, <2>8, <2>9, <2>10, InHand
<1> QED
  BY <1>0, <1>2, <1>3

\* A link is withdrawn and its record about to be dropped, or that fails.
LEMMA WithdrawStep ==
    ASSUME Inv, NEW r \in Runs, withdraw(r)
    PROVE  Inv'
<1> DEFINE p == run[r].at
           x == [run[r] EXCEPT !.op = "save", !.mem[p] = None]
<1>0. /\ run \in [Runs -> RunStates] /\ run[r] \in RunStates /\ RunInv(r) /\ p \in Paths
      /\ disk \in [Paths -> Entries] /\ run[r].op = "withdraw"
      /\ ~wanted(r, p) /\ \A q \in Runs \ {r} : run[q].op # "save"
  BY OneWorks DEF Inv, TypeOK, RunInv, Decided, Working, withdraw
<1>1. UNCHANGED <<sources, manifest, lock, status, command, made, unsaved, unlisted>>
  BY DEF withdraw
<1>2. CASE Skip(r)
  BY <1>0, <1>1, <1>2, SkipStep
<1>3. CASE /\ disk' = [disk EXCEPT ![p] = Absent]
           /\ run' = [run EXCEPT ![r].op = "save", ![r].mem[p] = None]
  <2>1. run[r].mem \in Records
    BY <1>0 DEF RunStates
  <2>2. [run[r].mem EXCEPT ![p] = None] \in Records
    BY <1>0, <2>1 DEF Records
  <2>3. x \in RunStates /\ run' = [run EXCEPT ![r] = x]
    BY <1>0, <1>3, <2>2 DEF RunStates
  <2>4. /\ x.pc = run[r].pc /\ x.home = run[r].home /\ x.only = run[r].only /\ x.prof = run[r].prof
        /\ x.from = run[r].from /\ x.cat = run[r].cat /\ x.prune = run[r].prune
        /\ x.touched = run[r].touched /\ x.left = run[r].left /\ x.links = run[r].links
        /\ x.stale = run[r].stale /\ x.at = p
        /\ x.failed = run[r].failed /\ x.op = "save"
        /\ x.mem = [run[r].mem EXCEPT ![p] = None]
    BY <1>0 DEF RunStates
  <2>5. x.mem[p] = None /\ \A q \in Paths \ {p} : x.mem[q] = run[r].mem[q]
    BY <1>0, <2>1, <2>4 DEF Records
  <2> HIDE DEF x
  <2>6. run'[r] = x
    BY <1>0, <2>3, Moves
  <2>7. disk' \in [Paths -> Entries] /\ disk'[p].kind = "absent" /\ \A q \in Paths \ {p} : disk'[q] = disk[q]
    BY <1>0, <1>3, EntryShape
  <2>8. Recording(r)'
    <3>1. ~wanted(r, p)'
      BY <1>0, <2>4, <2>6, WantedSame
    <3> QED
      BY <2>4, <2>5, <2>6, <2>7, <3>1 DEF Recording, Agents
  <2>9. Provenance(run[r].mem)'
    BY <1>0, <1>1, <2>5, <2>6 DEF RunInv, Provenance
  <2>10. MadeIsClaimed'
    <3>1. \A q \in Paths : disk'[q] = disk[q] \/ ~Agents(q)'
      BY <2>7 DEF Agents
    <3> QED
      BY <1>0, <1>1, <3>1, ClaimsKept DEF Inv
  <2> QED
    BY <1>0, <1>1, <2>3, <2>4, <2>5, <2>7, <2>8, <2>9, <2>10, InHand
<1> QED
  BY <1>2, <1>3 DEF withdraw

\* prune looks at a recorded entry: what it leaves alone is not ours any more.
LEMMA PruneEntryStep ==
    ASSUME Inv, NEW r \in Runs, NEW p \in Paths, pruneEntry(r, p)
    PROVE  Inv'
<1> DEFINE op  == IF disk[p].kind = "absent" THEN "save"
                  ELSE IF owns(run[r].mem, p) THEN "withdraw" ELSE "none"
           mem == [run[r].mem EXCEPT ![p] = IF disk[p].kind = "absent" THEN None ELSE @]
           x   == [run[r] EXCEPT !.stale = @ \ {p}, !.at = p, !.op = op, !.mem = mem]
<1>0. /\ run \in [Runs -> RunStates] /\ run[r] \in RunStates /\ RunInv(r) /\ run[r].mem \in Records
      /\ run[r].pc = "working" /\ run[r].op = "none" /\ p \in run[r].stale /\ ~wanted(r, p)
  BY DEF Inv, TypeOK, pruneEntry, RunInv, Working, Decided, RunStates
<1>1. run' = [run EXCEPT ![r] = x]
  BY <1>0 DEF pruneEntry, RunStates
<1>2. mem \in Records /\ \A q \in Paths \ {p} : mem[q] = run[r].mem[q]
  BY <1>0 DEF Records
<1>3. \/ op = "save" /\ disk[p].kind = "absent" /\ mem[p] = None
      \/ op = "withdraw" /\ owns(run[r].mem, p) /\ mem = run[r].mem
      \/ op = "none" /\ ~owns(run[r].mem, p) /\ mem = run[r].mem
  <2>1. CASE disk[p].kind = "absent"
    BY <1>0, <2>1 DEF Records
  <2>2. CASE disk[p].kind # "absent"
    <3>1. mem = run[r].mem
      BY <1>0, <2>2 DEF Records
    <3> QED
      BY <2>2, <3>1
  <2> QED
    BY <2>1, <2>2
<1> HIDE DEF op, mem
<1>4. x \in RunStates
  BY <1>0, <1>2, <1>3 DEF RunStates
<1>5. /\ x.pc = "working" /\ x.home = run[r].home /\ x.only = run[r].only /\ x.prof = run[r].prof
      /\ x.from = run[r].from /\ x.cat = run[r].cat /\ x.prune = run[r].prune
      /\ x.touched = run[r].touched /\ x.failed = run[r].failed /\ x.mem = mem
      /\ x.left = run[r].left /\ x.links = run[r].links /\ x.stale = run[r].stale \ {p}
      /\ x.at = p /\ x.op = op
  BY <1>0 DEF RunStates
<1> HIDE DEF x
<1>6. run' \in [Runs -> RunStates] /\ run'[r] = x /\ \A q \in Runs \ {r} : run'[q] = run[q]
  BY <1>0, <1>1, <1>4, Moves
<1>7. UNCHANGED <<sources, disk, manifest, lock, status, command, made, unsaved, unlisted>>
  BY DEF pruneEntry
<1>8. \A q : wanted(r, q)' = wanted(r, q) /\ Dir(r, q)' = Dir(r, q)
  BY <1>5, <1>6, WantedSame
<1>9. Recorded(r)'
  BY <1>0, <1>2, <1>3, <1>5, <1>6, <1>7 DEF RunInv, Recorded
<1>10. Recording(r)'
  <2>1. ~wanted(r, run[r].at)'
    BY <1>0, <1>5, <1>6 DEF wanted
  <2> QED
    BY <1>3, <1>5, <1>6, <1>7, <2>1 DEF Recording, Agents
<1>11. Provenance(run[r].mem)'
  BY <1>0, <1>2, <1>3, <1>5, <1>6, <1>7 DEF RunInv, Provenance
<1>12. Decided(r)'
  <2>1. ~wanted(r, run[r].at)'
    BY <1>0, <1>5, <1>6 DEF wanted
  <2> QED
    BY <1>0, <1>3, <1>5, <1>6, <1>7, <1>8, <2>1 DEF RunInv, Decided, owns
<1>13. Settled(r)'
  <2> SUFFICES ASSUME NEW q \in Paths, Passed(r, q)'
               PROVE  /\ wanted(r, q) =>
                            \/ q \in run[r].links
                            \/ disk[q].kind # "absent" /\ (owns(manifest, q) => disk[q].to = Dir(r, q))
                      /\ ~wanted(r, q) /\ run[r].prune =>
                            q \in run[r].stale \ {p} \/ ~owns(manifest, q)
    BY <1>5, <1>6, <1>7, <1>8 DEF Settled, owns
  <2>1. Passed(r, q) /\ (q = p => op = "none")
    BY <1>0, <1>5, <1>6 DEF Passed
  <2>2. run[r].mem[q] = manifest[q]
    BY <1>0 DEF RunInv, Recorded
  <2> QED
    BY <1>0, <1>3, <2>1, <2>2 DEF RunInv, Settled, owns
<1>14. MadeIsClaimed' /\ disk' \in [Paths -> Entries]
  BY <1>0, <1>6, <1>7, ClaimsKept DEF Inv, TypeOK
<1>15. Listed(r)'
  <2>1. run[r].links = {} /\ p[1] \in run[r].only \ run[r].left
    BY <1>0 DEF pruneEntry, RunInv, Listed
  <2>2. Looked(r, run[r].at)'
    BY <1>5, <1>6, <2>1 DEF Looked
  <2> QED
    BY <1>0, <1>5, <1>6, <2>1, <2>2 DEF RunInv, Listed
<1> QED
  BY <1>0, <1>5, <1>6, <1>7, <1>9, <1>10, <1>11, <1>12, <1>13, <1>14, <1>15, WorkStep

\* The manifest is written: what the run has in its copy is so, and runs that are
\* about to report are late.
LEMMA SaveStep ==
    ASSUME Inv, NEW r \in Runs, save(r)
    PROVE  Inv'
<1> DEFINE x == [run[r] EXCEPT !.op = "none"]
<1>0. /\ run \in [Runs -> RunStates] /\ run[r] \in RunStates /\ RunInv(r) /\ run[r].mem \in Records
      /\ run[r].pc = "working" /\ run[r].op = "save" /\ run[r].at \in Paths
      /\ disk \in [Paths -> Entries]
  BY DEF Inv, TypeOK, save, RunInv, Working, Decided, RunStates
<1>1. PICK p \in Paths : p = run[r].at
  BY <1>0
<1>2. /\ manifest' = run[r].mem /\ unlisted' = TRUE /\ unsaved' = unsaved \ {p}
      /\ UNCHANGED <<sources, disk, lock, status, command, made>>
  BY <1>1 DEF save
<1>3. \A q \in Paths \ {p} : run[r].mem[q] = manifest[q]
  BY <1>0, <1>1 DEF RunInv, Recorded
<1>4. ASSUME NEW q \in Runs, q # r
      PROVE  \E b \in BOOLEAN : run'[q] = [run[q] EXCEPT !.late = b] /\ (run[q].pc \in {"recording", "copied"} => b)
  <2> DEFINE b == run[q].pc \in {"recording", "copied"}
  <2>1. run'[q] = [run[q] EXCEPT !.late = b]
    BY <1>4 DEF save
  <2>2. b \in BOOLEAN
    OBVIOUS
  <2> HIDE DEF b
  <2>3. run[q].pc \in {"recording", "copied"} => b
    BY DEF b
  <2> QED
    BY <2>1, <2>2, <2>3
<1>5. run'[r] = x /\ x \in RunStates
  BY <1>0 DEF save, RunStates
<1>6. run' \in [Runs -> RunStates]
  <2>1. run' = [q \in Runs |-> run'[q]]
    BY DEF save
  <2>2. ASSUME NEW q \in Runs, q # r PROVE run'[q] \in RunStates
    <3>1. PICK b \in BOOLEAN : run'[q] = [run[q] EXCEPT !.late = b]
      BY <1>4, <2>2
    <3>2. run[q] \in RunStates
      BY <1>0
    <3> QED
      BY <3>1, <3>2 DEF RunStates
  <2> QED
    BY <1>5, <2>1, <2>2
<1>7. /\ x.pc = "working" /\ x.home = run[r].home /\ x.only = run[r].only /\ x.prof = run[r].prof
      /\ x.from = run[r].from /\ x.cat = run[r].cat /\ x.prune = run[r].prune
      /\ x.touched = run[r].touched /\ x.failed = run[r].failed /\ x.mem = run[r].mem
      /\ x.left = run[r].left /\ x.links = run[r].links /\ x.stale = run[r].stale
      /\ x.op = "none"
  BY <1>0 DEF RunStates
<1> HIDE DEF x
<1>8. TypeOK'
  BY <1>0, <1>2, <1>6 DEF Inv, TypeOK, sources
<1>9. ASSUME NEW q \in Runs, q # r PROVE RunInv(q)'
  <2>1. run[q].pc # "working" /\ RunInv(q) /\ run[q] \in RunStates
    BY <1>0, <1>9, OneWorks DEF Inv
  <2>2. PICK b \in BOOLEAN : run'[q] = [run[q] EXCEPT !.late = b] /\ (run[q].pc \in {"recording", "copied"} => b)
    BY <1>4, <1>9
  <2>3. /\ run'[q].pc = run[q].pc /\ run'[q].op = run[q].op
        /\ run'[q].links = run[q].links /\ run'[q].stale = run[q].stale
        /\ run'[q].home = run[q].home /\ run'[q].prof = run[q].prof /\ run'[q].from = run[q].from
        /\ run'[q].mem = run[q].mem /\ run'[q].installed = run[q].installed
        /\ run'[q].late = b
    BY <2>1, <2>2 DEF RunStates
  <2> QED
    BY <1>2, <2>1, <2>2, <2>3, RestKept
<1>10. RunInv(r)'
  <2>1. \A q : wanted(r, q)' = wanted(r, q) /\ Dir(r, q)' = Dir(r, q)
    BY <1>5, <1>7, WantedSame
  <2>2. Working(r)' /\ Recorded(r)' /\ Recording(r)' /\ Reported(r)'
    BY <1>0, <1>2, <1>5, <1>7 DEF RunInv, Working, Recorded, Recording, Reported
  <2>3. Decided(r)'
    BY <1>0, <1>5, <1>7, <2>1 DEF RunInv, Decided
  <2>4. Provenance(run[r].mem)'
    BY <1>0, <1>2, <1>5, <1>7 DEF RunInv, Provenance
  <2>5. Settled(r)'
    <3> SUFFICES ASSUME NEW q \in Paths, Passed(r, q)'
                 PROVE  /\ wanted(r, q) =>
                              \/ q \in run[r].links
                              \/ disk[q].kind # "absent" /\ (owns(run[r].mem, q) => disk[q].to = Dir(r, q))
                        /\ ~wanted(r, q) /\ run[r].prune =>
                              q \in run[r].stale \/ ~owns(run[r].mem, q)
      BY <1>2, <1>5, <1>7, <2>1 DEF Settled, owns
    <3>1. CASE q = p
      <4>1. q \notin run[r].touched \cup run[r].failed
        BY <1>5, <1>7 DEF Passed
      <4>2. wanted(r, q) => disk[q].kind = "link" /\ disk[q].to = Dir(r, q)
        BY <1>0, <1>1, <3>1, <4>1 DEF RunInv, Recording
      <4>3. ~wanted(r, q) => run[r].mem[q] = None
        BY <1>0, <1>1, <3>1 DEF RunInv, Recording
      <4>4. disk[q] \in Entries
        BY <1>0
      <4> QED
        BY <4>2, <4>3, <4>4, EntryShape DEF owns
    <3>2. CASE q # p
      <4>1. Passed(r, q)
        BY <1>0, <1>1, <1>5, <1>7, <3>2 DEF Passed
      <4>2. owns(run[r].mem, q) = owns(manifest, q)
        BY <1>3, <3>2 DEF owns
      <4> QED
        BY <1>0, <4>1, <4>2 DEF RunInv, Settled
    <3> QED
      BY <3>1, <3>2
  <2>6. Listed(r)'
    BY <1>0, <1>5, <1>7, <2>1 DEF RunInv, Listed
  <2> QED
    BY <2>2, <2>3, <2>4, <2>5, <2>6 DEF RunInv
<1>11. Provenance(manifest)'
  BY <1>0, <1>2 DEF RunInv, Provenance
<1>12. MadeIsClaimed'
  <2> SUFFICES ASSUME NEW q \in Paths, Agents(q)
               PROVE  run[r].mem[q] = disk[q].to \/ q \in unsaved'
    BY <1>2 DEF MadeIsClaimed, Agents
  <2>1. CASE q = p
    BY <1>0, <1>1, <2>1 DEF RunInv, Recording
  <2>2. CASE q # p
    <3>1. \A t \in Runs \ {r} : run[t].op # "save"
      BY <1>0, OneWorks DEF Inv, RunInv, Working
    <3>2. manifest[q] = disk[q].to \/ q \in unsaved
      BY <1>1, <2>2, <3>1 DEF Inv, MadeIsClaimed, Agents
    <3> QED
      BY <1>2, <1>3, <2>2, <3>2
  <2> QED
    BY <2>1, <2>2
<1>13. StatusDescribesMachine' /\ Copies'
  BY <1>2, CopiesKept DEF Inv, StatusDescribesMachine
<1> QED
  BY <1>8, <1>9, <1>10, <1>11, <1>12, <1>13 DEF Inv

(***************************************************************************)
(* Steps before and after the work.                                         *)
(***************************************************************************)

\* A run that nothing has happened to.
LEMMA RunSame ==
    ASSUME NEW q \in Runs, RunInv(q), run'[q] = run[q], disk' = disk, manifest' = manifest,
           made' = made, run[q].pc = "working" => lock' = lock
    PROVE  RunInv(q)'
<1>1. \A p : wanted(q, p)' = wanted(q, p) /\ Dir(q, p)' = Dir(q, p)
  BY WantedSame
<1>2. Working(q)' /\ Recorded(q)'
  BY DEF RunInv, Working, Recorded
<1>3. Decided(q)' /\ Recording(q)'
  BY <1>1 DEF RunInv, Decided, Recording, owns, Agents, wanted, Dir
<1>4. Provenance(run[q].mem)' /\ Reported(q)'
  BY DEF RunInv, Provenance, Reported, InstalledSlugs
<1>5. Settled(q)'
  BY <1>1 DEF RunInv, Settled, Passed, owns
<1>6. Listed(q)'
  BY <1>1 DEF RunInv, Listed, Looked
<1> QED
  BY <1>2, <1>3, <1>4, <1>5, <1>6 DEF RunInv

\* A run moves and is not at work afterwards.
LEMMA RestStep ==
    ASSUME Inv, NEW r \in Runs, NEW x \in RunStates, run' = [run EXCEPT ![r] = x],
           x.pc # "working", x.op = "none", x.links = {}, x.stale = {},
           x.pc = "resolved" => x.home \in Homes /\ x.prof \in Profiles /\ x.from \in Places,
           x.mem = run[r].mem \/ \A p \in Paths : x.mem[p] = None,
           x.pc \in {"recording", "copied"} /\ ~x.late => x.installed = InstalledSlugs,
           UNCHANGED <<sources, disk, manifest, made>>, unlisted' \in BOOLEAN,
           lock' = lock \/ lock = r,
           MadeIsClaimed', StatusDescribesMachine', Copies'
    PROVE  Inv'
<1>0. run \in [Runs -> RunStates] /\ RunInv(r)
  BY DEF Inv, TypeOK
<1>1. run' \in [Runs -> RunStates] /\ run'[r] = x /\ \A q \in Runs \ {r} : run'[q] = run[q]
  BY <1>0, Moves
<1>2. TypeOK'
  BY <1>1 DEF Inv, TypeOK, sources
<1>3. ASSUME NEW q \in Runs, q # r PROVE RunInv(q)'
  <2>1. RunInv(q) /\ (run[q].pc = "working" => lock = q)
    BY DEF Inv, RunInv, Working
  <2> QED
    BY <1>1, <1>3, <2>1, RunSame
<1>4. RunInv(r)'
  <2>1. Working(r)' /\ Recorded(r)' /\ Settled(r)'
    BY <1>1 DEF Working, Recorded, Settled, Passed
  <2>2. Decided(r)' /\ Recording(r)' /\ Listed(r)'
    BY <1>1 DEF Decided, Recording, Listed
  <2>3. Provenance(run[r].mem)'
    BY <1>0, <1>1 DEF RunInv, Provenance
  <2>4. Reported(r)'
    BY <1>1 DEF Reported, InstalledSlugs
  <2> QED
    BY <2>1, <2>2, <2>3, <2>4 DEF RunInv
<1>5. Provenance(manifest)'
  BY DEF Inv, Provenance
<1> QED
  BY <1>2, <1>3, <1>4, <1>5 DEF Inv

\* A run reads the vault and the profile.
LEMMA ResolveStep ==
    ASSUME Inv, NEW r \in Runs, NEW prune \in BOOLEAN, NEW only \in SUBSET Harnesses,
           NEW home \in Homes, resolve(r, prune, only, home)
    PROVE  Inv'
<1> DEFINE x == [Idle EXCEPT !.pc = "resolved", !.prune = prune, !.only = only, !.home = home,
                             !.from = place, !.cat = Discover, !.prof = profile]
<1>0. run \in [Runs -> RunStates] /\ RunInv(r) /\ run[r].op = "none"
  BY DEF Inv, TypeOK, RunInv, Working, resolve
<1>1. home \in [Harnesses -> Dirs \cup {None}] /\ Discover \subseteq Slugs
  BY HomesAssumption DEF Discover
<1>2. place \in Places /\ profile \in Profiles
  BY DEF Inv, TypeOK
<1>3. x \in RunStates
  BY <1>1, <1>2, IdleState DEF RunStates
<1>4. /\ x.pc = "resolved" /\ x.op = "none" /\ x.links = {} /\ x.stale = {} /\ x.mem = Idle.mem
      /\ x.home = home /\ x.prof = profile /\ x.from = place
  BY IdleState DEF RunStates
<1>5. run' = [run EXCEPT ![r] = x]
  BY DEF resolve
<1> HIDE DEF x
<1>6. UNCHANGED <<sources, disk, manifest, lock, status, command, made, unsaved, unlisted>>
  BY DEF resolve
<1>7. MadeIsClaimed'
  BY <1>0, <1>3, <1>5, <1>6, Moves, ClaimsKept DEF Inv
<1>8. StatusDescribesMachine' /\ Copies' /\ unlisted' \in BOOLEAN
  BY <1>6, CopiesKept DEF Inv, TypeOK, StatusDescribesMachine, InstalledSlugs
<1> QED
  BY <1>2, <1>3, <1>4, <1>5, <1>6, <1>7, <1>8, IdleState, RestStep

\* A run takes the lock and loads the manifest.
LEMMA ProvisionStep ==
    ASSUME Inv, NEW r \in Runs, provision(r)
    PROVE  Inv'
<1> DEFINE x == [run[r] EXCEPT !.pc = "working", !.mem = manifest, !.left = run[r].only]
<1>0. /\ run \in [Runs -> RunStates] /\ run[r] \in RunStates /\ RunInv(r) /\ run[r].pc = "resolved"
      /\ run[r].op = "none" /\ run[r].links = {} /\ run[r].stale = {} /\ manifest \in Records
      /\ run[r].home \in Homes /\ run[r].prof \in Profiles /\ run[r].from \in Places
  BY DEF Inv, TypeOK, RunInv, Working, provision
<1>1. x \in RunStates /\ run' = [run EXCEPT ![r] = x]
  BY <1>0 DEF RunStates, provision
<1>2. /\ x.pc = "working" /\ x.home = run[r].home /\ x.only = run[r].only /\ x.prof = run[r].prof
      /\ x.from = run[r].from /\ x.mem = manifest /\ x.left = run[r].only
      /\ x.links = {} /\ x.stale = {} /\ x.op = "none"
  BY <1>0 DEF RunStates
<1> HIDE DEF x
<1>3. run' \in [Runs -> RunStates] /\ run'[r] = x /\ \A q \in Runs \ {r} : run'[q] = run[q]
  BY <1>0, <1>1, Moves
<1>4. /\ lock = None /\ lock' = r
      /\ UNCHANGED <<sources, disk, manifest, status, command, made, unsaved, unlisted>>
  BY DEF provision
<1>5. TypeOK'
  BY <1>3, <1>4 DEF Inv, TypeOK, sources
<1>6. ASSUME NEW q \in Runs, q # r PROVE RunInv(q)'
  <2>1. RunInv(q) /\ run[q].pc # "working"
    BY <1>4, ValuesAssumption DEF Inv, RunInv, Working
  <2> QED
    BY <1>3, <1>4, <1>6, <2>1, RestKept
<1>7. RunInv(r)'
  <2>1. Working(r)' /\ Recorded(r)' /\ Reported(r)'
    BY <1>0, <1>2, <1>3, <1>4 DEF Working, Recorded, Reported
  <2>2. Decided(r)' /\ Recording(r)' /\ Listed(r)'
    BY <1>2, <1>3 DEF Decided, Recording, Listed
  <2>3. Provenance(run[r].mem)'
    BY <1>2, <1>3, <1>4 DEF Inv, Provenance
  <2>4. Settled(r)'
    BY <1>2, <1>3 DEF Settled, Passed
  <2> QED
    BY <2>1, <2>2, <2>3, <2>4 DEF RunInv
<1>8. Provenance(manifest)'
  BY <1>4 DEF Inv, Provenance
<1>9. MadeIsClaimed'
  BY <1>0, <1>3, <1>4, ClaimsKept DEF Inv
<1>10. StatusDescribesMachine' /\ Copies'
  BY <1>4, CopiesKept DEF Inv, StatusDescribesMachine, InstalledSlugs
<1> QED
  BY <1>5, <1>6, <1>7, <1>8, <1>9, <1>10 DEF Inv

\* The last save writes what is there already, and the lock is released.
LEMMA FinishStep ==
    ASSUME Inv, NEW r \in Runs, finish(r)
    PROVE  Inv'
<1> DEFINE x == [Idle EXCEPT !.pc = "reporting", !.shown = run[r].shown]
<1>0. /\ run \in [Runs -> RunStates] /\ run[r] \in RunStates /\ RunInv(r) /\ run[r].op = "none"
      /\ run[r].pc = "working" /\ run[r].mem \in Records /\ manifest \in Records
  BY DEF Inv, TypeOK, finish, Through, RunStates
<1>1. run[r].mem = manifest
  BY <1>0 DEF RunInv, Recorded, Records
<1>2. x \in RunStates /\ run' = [run EXCEPT ![r] = x]
  BY <1>0, IdleState DEF RunStates, finish
<1>3. /\ x.pc = "reporting" /\ x.op = "none" /\ x.links = {} /\ x.stale = {} /\ x.mem = Idle.mem
  BY IdleState DEF RunStates
<1> HIDE DEF x
<1>4. /\ UNCHANGED <<sources, disk, manifest, status, command, made, unsaved, unlisted>>
      /\ lock' = lock \/ lock = r
  BY <1>1 DEF finish
<1>5. MadeIsClaimed'
  BY <1>0, <1>2, <1>4, Moves, ClaimsKept DEF Inv
<1>6. StatusDescribesMachine' /\ Copies' /\ unlisted' \in BOOLEAN
  BY <1>4, CopiesKept DEF Inv, TypeOK, StatusDescribesMachine, InstalledSlugs
<1> QED
  BY <1>2, <1>3, <1>4, <1>5, <1>6, IdleState, RestStep

\* The harnesses are asked and the manifest is read again.
LEMMA ReadInstalledStep ==
    ASSUME Inv, NEW r \in Runs, NEW verify \in BOOLEAN, NEW answered \in BOOLEAN,
           readInstalled(r, verify, answered)
    PROVE  Inv'
<1> DEFINE x == [Idle EXCEPT !.pc = "recording", !.installed = InstalledSlugs,
                             !.health = skillsHealth(r, verify, answered)]
<1>0. run \in [Runs -> RunStates] /\ RunInv(r) /\ run[r].op = "none"
  BY DEF Inv, TypeOK, RunInv, Working, readInstalled
<1>1. InstalledSlugs \subseteq Slugs /\ skillsHealth(r, verify, answered) \in {"ok", "degraded"}
  BY PathShape DEF InstalledSlugs, skillsHealth
<1>2. x \in RunStates /\ run' = [run EXCEPT ![r] = x]
  BY <1>1, IdleState DEF RunStates, readInstalled, installedSlugs
<1>3. /\ x.pc = "recording" /\ x.op = "none" /\ x.links = {} /\ x.stale = {} /\ x.mem = Idle.mem
      /\ x.installed = InstalledSlugs
  BY IdleState DEF RunStates
<1> HIDE DEF x
<1>4. UNCHANGED <<sources, disk, manifest, lock, status, command, made, unsaved, unlisted>>
  BY DEF readInstalled
<1>5. MadeIsClaimed'
  BY <1>0, <1>2, <1>4, Moves, ClaimsKept DEF Inv
<1>6. StatusDescribesMachine' /\ Copies' /\ unlisted' \in BOOLEAN
  BY <1>4, CopiesKept DEF Inv, TypeOK, StatusDescribesMachine, InstalledSlugs
<1> QED
  BY <1>2, <1>3, <1>4, <1>5, <1>6, IdleState, RestStep

\* The ended run.
LEMMA EndedState ==
    LET x == [Idle EXCEPT !.pc = "ended"]
    IN  /\ x \in RunStates
        /\ x.pc = "ended" /\ x.op = "none" /\ x.links = {} /\ x.stale = {} /\ x.mem = Idle.mem
BY IdleState DEF RunStates

\* The run loads state.json.
LEMMA LoadStateStep ==
    ASSUME Inv, NEW r \in Runs, loadState(r)
    PROVE  Inv'
<1> DEFINE x == [run[r] EXCEPT !.pc = "copied"]
<1>0. /\ run \in [Runs -> RunStates] /\ run[r] \in RunStates /\ RunInv(r) /\ run[r].op = "none"
      /\ run[r].links = {} /\ run[r].stale = {} /\ run[r].pc = "recording"
  BY DEF Inv, TypeOK, RunInv, Working, loadState
<1>1. x \in RunStates /\ run' = [run EXCEPT ![r] = x]
  BY <1>0 DEF RunStates, loadState
<1>2. /\ x.pc = "copied" /\ x.op = "none" /\ x.links = {} /\ x.stale = {} /\ x.mem = run[r].mem
      /\ x.installed = run[r].installed /\ x.late = run[r].late
  BY <1>0 DEF RunStates
<1> HIDE DEF x
<1>3. x.late \/ x.installed = InstalledSlugs
  BY <1>0, <1>2 DEF RunInv, Reported
<1>4. UNCHANGED <<sources, disk, manifest, lock, status, command, made, unsaved, unlisted>>
  BY DEF loadState
<1>5. MadeIsClaimed'
  BY <1>0, <1>1, <1>4, Moves, ClaimsKept DEF Inv
<1>6. StatusDescribesMachine' /\ Copies' /\ unlisted' \in BOOLEAN
  BY <1>4, CopiesKept DEF Inv, TypeOK, StatusDescribesMachine, InstalledSlugs
<1> QED
  BY <1>1, <1>2, <1>3, <1>4, <1>5, <1>6, RestStep

\* The report is written, and every copy that is out becomes an old one.
LEMMA RecordStateStep ==
    ASSUME Inv, NEW r \in Runs, recordState(r)
    PROVE  Inv'
<1> DEFINE x == [Idle EXCEPT !.pc = "ended"]
<1>0. /\ run \in [Runs -> RunStates] /\ run[r] \in RunStates /\ RunInv(r) /\ run[r].op = "none"
      /\ run[r].pc = "copied" /\ run[r].late \in BOOLEAN /\ run[r].installed \subseteq Slugs
      /\ run[r].health \in {"unknown", "ok", "degraded"}
  BY DEF Inv, TypeOK, RunInv, Working, recordState, RunStates
<1>1. x \in RunStates /\ run' = [run EXCEPT ![r] = x]
  BY EndedState DEF recordState
<1>2. x.pc = "ended" /\ x.op = "none" /\ x.links = {} /\ x.stale = {} /\ x.mem = Idle.mem
  BY EndedState
<1> HIDE DEF x
<1>3. UNCHANGED <<sources, disk, manifest, lock, made, unsaved>>
  BY DEF recordState
<1>4. unlisted' = run[r].late /\ status'.skills = run[r].installed
  BY DEF recordState
<1>5. MadeIsClaimed'
  BY <1>0, <1>1, <1>3, Moves, ClaimsKept DEF Inv
<1>6. StatusDescribesMachine'
  BY <1>0, <1>3, <1>4 DEF RunInv, Reported, StatusDescribesMachine, InstalledSlugs
<1>7. Copies'
  <2>1. status' \in States
    BY <1>0 DEF recordState, States
  <2>2. ASSUME NEW c \in Commands
        PROVE  /\ command'[c] \in CommandStates
               /\ command'[c].pc = "loaded" => command'[c].file \in States /\ command'[c].old
    <3>1. command[c] \in CommandStates /\ (command[c].pc = "loaded" => command[c].file \in States)
      BY DEF Inv, Copies
    <3>2. command'[c] = [command[c] EXCEPT !.old = (command[c].pc = "loaded")]
      BY DEF recordState
    <3>3. command[c].pc = "loaded" \/ command[c].pc # "loaded"
      OBVIOUS
    <3> QED
      BY <3>1, <3>2, <3>3 DEF CommandStates
  <2>3. command' = [c \in Commands |-> command'[c]]
    BY DEF recordState
  <2> QED
    BY <2>1, <2>2, <2>3 DEF Copies
<1> QED
  BY <1>0, <1>1, <1>2, <1>3, <1>4, <1>5, <1>6, <1>7, IdleState, RestStep

\* A run dies: what it had made and not recorded is remembered.
LEMMA DieStep ==
    ASSUME Inv, NEW r \in Runs, Die(r)
    PROVE  Inv'
<1> DEFINE x == [Idle EXCEPT !.pc = "ended"]
<1>0. run \in [Runs -> RunStates]
  BY DEF Inv, TypeOK
<1>1. x \in RunStates /\ run' = [run EXCEPT ![r] = x]
  BY EndedState DEF Die
<1>2. x.pc = "ended" /\ x.op = "none" /\ x.links = {} /\ x.stale = {} /\ x.mem = Idle.mem
  BY EndedState
<1> HIDE DEF x
<1>3. UNCHANGED <<sources, disk, manifest, status, command, made, unlisted>> /\ (lock' = lock \/ lock = r)
  BY DEF Die
<1>4. \A q \in Runs \ {r} : run'[q] = run[q]
  BY <1>0, <1>1, Moves
<1>5. unsaved \subseteq unsaved' /\ (run[r].op = "save" => run[r].at \in unsaved')
  BY DEF Die
<1>6. MadeIsClaimed'
  BY <1>3, <1>4, <1>5 DEF Inv, MadeIsClaimed
<1>7. StatusDescribesMachine' /\ Copies' /\ unlisted' \in BOOLEAN
  BY <1>3, CopiesKept DEF Inv, TypeOK, StatusDescribesMachine, InstalledSlugs
<1> QED
  BY <1>1, <1>2, <1>3, <1>6, <1>7, IdleState, RestStep

(***************************************************************************)
(* The other commands.                                                      *)
(***************************************************************************)

\* A command loads state.json, saves its copy or dies: only one that saves an old
\* copy makes the file list anything but what it listed.
LEMMA CommandStepInv ==
    ASSUME Inv, NEW c \in Commands, CommandStep(c)
    PROVE  Inv'
<1>0. /\ command \in [Commands -> CommandStates] /\ status \in States /\ unlisted \in BOOLEAN
      /\ command[c] \in CommandStates
  BY DEF Inv, TypeOK, Copies
<1>1. UNCHANGED <<sources, disk, manifest, lock, run, made, unsaved>>
  BY DEF CommandStep, commandLoads, commandSaves, commandDies
<1>2. NoCopy \in CommandStates /\ NoCopy.pc = "idle"
  BY DEF NoCopy, CommandStates
<1>3. Copies' /\ StatusDescribesMachine' /\ unlisted' \in BOOLEAN
  <2>1. CASE commandLoads(c)
    <3> DEFINE x == [command[c] EXCEPT !.pc = "loaded", !.file = status]
    <3>1. command' = [command EXCEPT ![c] = x] /\ UNCHANGED <<status, unlisted>>
      BY <1>0, <2>1 DEF commandLoads
    <3>2. x \in CommandStates /\ x.file = status
      BY <1>0 DEF CommandStates
    <3> HIDE DEF x
    <3> QED
      BY <1>0, <1>1, <3>1, <3>2 DEF Inv, Copies, StatusDescribesMachine, InstalledSlugs
  <2>2. CASE commandSaves(c)
    <3>1. /\ command' = [command EXCEPT ![c] = NoCopy]
          /\ unlisted' = (unlisted \/ command[c].old)
      BY <2>2 DEF commandSaves
    <3>2. command[c].file \in States /\ command[c].old \in BOOLEAN
      BY <1>0, <2>2 DEF Inv, Copies, commandSaves, CommandStates
    <3>3. status' \in States /\ status'.skills = command[c].file.skills
      BY <2>2, <3>2 DEF commandSaves, States
    <3>4. unlisted' \in BOOLEAN
      BY <1>0, <3>1, <3>2
    <3>5. ~unlisted' => ~unlisted /\ status'.skills = status.skills
      <4>1. command[c].old \/ unlisted \/ command[c].file.skills = status.skills
        BY <2>2 DEF Inv, Copies, commandSaves
      <4> QED
        BY <3>1, <3>3, <4>1
    <3>6. StatusDescribesMachine'
      BY <1>1, <3>5 DEF Inv, StatusDescribesMachine, InstalledSlugs
    <3>7. command' \in [Commands -> CommandStates]
      BY <1>0, <1>2, <3>1
    <3>8. ASSUME NEW d \in Commands, command'[d].pc = "loaded"
          PROVE  /\ command'[d].file \in States
                 /\ command'[d].old \/ unlisted' \/ command'[d].file.skills = status'.skills
      <4>1. command'[d] = command[d]
        BY <1>0, <1>2, <3>1, <3>8
      <4>2. /\ command[d].file \in States
            /\ command[d].old \/ unlisted \/ command[d].file.skills = status.skills
        BY <3>8, <4>1 DEF Inv, Copies
      <4> QED
        BY <3>5, <4>1, <4>2
    <3> QED
      BY <3>3, <3>4, <3>6, <3>7, <3>8 DEF Copies
  <2>3. CASE commandDies(c)
    <3>1. command' = [command EXCEPT ![c] = NoCopy] /\ UNCHANGED <<status, unlisted>>
      BY <2>3 DEF commandDies
    <3> QED
      BY <1>0, <1>1, <1>2, <3>1 DEF Inv, Copies, StatusDescribesMachine, InstalledSlugs
  <2> QED
    BY <2>1, <2>2, <2>3 DEF CommandStep
<1>4. TypeOK'
  BY <1>1, <1>3 DEF Inv, TypeOK, sources
<1>5. \A r \in Runs : RunInv(r)'
  BY <1>1, RunSame DEF Inv
<1>6. Provenance(manifest)' /\ MadeIsClaimed'
  BY <1>1 DEF Inv, Provenance, MadeIsClaimed
<1> QED
  BY <1>3, <1>4, <1>5, <1>6 DEF Inv

(***************************************************************************)
(* The operator.                                                            *)
(***************************************************************************)

\* An entry changes by hand: a run that has looked at it has it among the touched
\* ones, one that has not will find it as it is now, and nothing of the agent's is
\* put there.
LEMMA EditEntryStep ==
    ASSUME Inv, NEW p \in Paths, NEW e \in Entries, e.kind = "link" => e.by # "agent", editEntry(p, e)
    PROVE  Inv'
<1>0. run \in [Runs -> RunStates] /\ disk \in [Paths -> Entries]
  BY DEF Inv, TypeOK
<1>1. UNCHANGED <<sources, manifest, lock, status, command, made, unsaved, unlisted>>
  BY DEF editEntry
<1>2. disk' \in [Paths -> Entries] /\ disk'[p] = e /\ \A q \in Paths \ {p} : disk'[q] = disk[q]
  BY <1>0 DEF editEntry
<1>3. \A r \in Runs : ~Looked(r, p) => run'[r] = run[r]
  BY DEF editEntry
<1>4. ASSUME NEW r \in Runs, Looked(r, p)
      PROVE  run'[r] = [run[r] EXCEPT !.touched = @ \cup {p}]
  BY <1>4 DEF editEntry
<1>5. ASSUME NEW r \in Runs
      PROVE  /\ run'[r] \in RunStates
             /\ run'[r].pc = run[r].pc /\ run'[r].home = run[r].home /\ run'[r].only = run[r].only
             /\ run'[r].prof = run[r].prof /\ run'[r].from = run[r].from /\ run'[r].cat = run[r].cat
             /\ run'[r].prune = run[r].prune /\ run[r].touched \subseteq run'[r].touched
             /\ Looked(r, p) => p \in run'[r].touched
             /\ run'[r].failed = run[r].failed /\ run'[r].mem = run[r].mem
             /\ run'[r].left = run[r].left /\ run'[r].links = run[r].links
             /\ run'[r].stale = run[r].stale /\ run'[r].at = run[r].at /\ run'[r].op = run[r].op
  <2>1. run[r] \in RunStates
    BY <1>0
  <2>2. CASE ~Looked(r, p)
    BY <1>3, <2>1, <2>2
  <2>3. CASE Looked(r, p)
    <3> DEFINE x == [run[r] EXCEPT !.touched = @ \cup {p}]
    <3>1. x \in RunStates
      BY <2>1 DEF RunStates
    <3>2. run'[r] = x
      BY <1>4, <2>3
    <3> QED
      BY <2>1, <3>1, <3>2 DEF RunStates
  <2> QED
    BY <2>2, <2>3
<1>6. run' \in [Runs -> RunStates]
  <2>1. run' = [r \in Runs |-> run'[r]]
    BY DEF editEntry
  <2>2. \A r \in Runs : run'[r] \in RunStates
    BY <1>5
  <2> QED
    BY <2>1, <2>2
<1>7. TypeOK'
  BY <1>1, <1>2, <1>6 DEF Inv, TypeOK, sources
<1>8. ASSUME NEW r \in Runs PROVE RunInv(r)'
  <2>0. RunInv(r)
    BY DEF Inv
  <2>1. CASE run[r].pc # "working"
    <3>1. run'[r] = run[r]
      BY <1>3, <2>1 DEF Looked
    <3> QED
      BY <1>1, <2>0, <2>1, <3>1, RestKept
  <2>2. CASE run[r].pc = "working"
    <3>1. \A q : wanted(r, q)' = wanted(r, q) /\ Dir(r, q)' = Dir(r, q)
      BY <1>5, <2>2, WantedSame
    <3>2. wanted(r, run[r].at)' = wanted(r, run[r].at) /\ Dir(r, run[r].at)' = Dir(r, run[r].at)
      BY <1>5, <2>2 DEF wanted, Dir
    <3>3. Working(r)' /\ Recorded(r)' /\ Reported(r)'
      BY <1>1, <1>5, <2>0, <2>2 DEF RunInv, Working, Recorded, Reported
    <3>4. Provenance(run[r].mem)'
      BY <1>1, <1>5, <2>0, <2>2 DEF RunInv, Provenance
    <3>0. run[r].op # "none" => run[r].at \in Paths /\ Looked(r, run[r].at)
      BY <2>0 DEF RunInv, Decided, Listed
    <3>5. Decided(r)'
      <4>1. run[r].op # "none" /\ run[r].at \notin run'[r].touched =>
               disk'[run[r].at] = disk[run[r].at] /\ run[r].at \notin run[r].touched
        BY <1>2, <1>5, <3>0
      <4> QED
        BY <1>5, <2>0, <2>2, <3>1, <3>2, <4>1 DEF RunInv, Decided, owns
    <3>6. Recording(r)'
      <4>0. run[r].op # "none" => run[r].at \in Paths
        BY <3>0
      <4>1. CASE run[r].op # "none" /\ run[r].at = p
        BY <1>2, <1>5, <2>0, <2>2, <3>0, <3>2, <4>1 DEF RunInv, Recording, Agents
      <4>2. CASE run[r].op # "none" /\ run[r].at # p
        <5>1. disk'[run[r].at] = disk[run[r].at]
          BY <1>2, <4>0, <4>2
        <5> QED
          BY <1>5, <2>0, <2>2, <3>2, <5>1 DEF RunInv, Recording, Agents
      <4>3. CASE run[r].op = "none"
        BY <1>5, <2>2, <4>3 DEF Recording
      <4> QED
        BY <4>1, <4>2, <4>3
    <3>7. Settled(r)'
      <4> SUFFICES ASSUME NEW q \in Paths, Passed(r, q)'
                   PROVE  /\ wanted(r, q) =>
                                \/ q \in run[r].links
                                \/ disk'[q].kind # "absent" /\ (owns(manifest, q)' => disk'[q].to = Dir(r, q))
                          /\ ~wanted(r, q) /\ run[r].prune => q \in run[r].stale \/ ~owns(manifest, q)'
        BY <1>5, <2>2, <3>1 DEF Settled
      <4>1. Passed(r, q)
        BY <1>5, <2>2 DEF Passed
      <4>2. CASE q # p
        <5>1. disk'[q] = disk[q] /\ owns(manifest, q)' = owns(manifest, q)
          BY <1>1, <1>2, <4>2 DEF owns
        <5> QED
          BY <2>0, <4>1, <5>1 DEF RunInv, Settled
      <4>3. CASE q = p
        <5>1. ~Looked(r, p)
          BY <1>5, <4>3 DEF Passed
        <5>2. p \in run[r].links \cup run[r].stale
          BY <4>1, <4>3, <5>1 DEF Passed, Looked
        <5>3. wanted(r, p) => p \notin run[r].stale
          BY <2>0 DEF RunInv, Decided
        <5>4. run[r].mem[p] = None => ~owns(manifest, p)'
          <6>1. run[r].mem[p] = manifest[p]
            BY <2>0, <3>0, <5>1, <2>2 DEF RunInv, Recorded
          <6>2. disk'[p] \in Entries
            BY <1>2
          <6> QED
            BY <1>1, <6>1, <6>2, EntryShape DEF owns
        <5>5. ~wanted(r, p) /\ run[r].prune => p \in run[r].stale \/ run[r].mem[p] = None
          BY <2>0, <5>2 DEF RunInv, Listed
        <5> QED
          BY <4>3, <5>2, <5>3, <5>4, <5>5
      <4> QED
        BY <4>2, <4>3
    <3>8. Listed(r)'
      <4>1. run[r].op # "none" => Looked(r, run[r].at)'
        BY <1>5, <3>0 DEF Looked
      <4> QED
        BY <1>5, <2>0, <3>1, <4>1 DEF RunInv, Listed
    <3> QED
      BY <3>3, <3>4, <3>5, <3>6, <3>7, <3>8 DEF RunInv
  <2> QED
    BY <2>1, <2>2
<1>9. Provenance(manifest)'
  BY <1>1 DEF Inv, Provenance
<1>10. MadeIsClaimed'
  <2>1. \A q \in Paths : disk'[q] = disk[q] \/ ~Agents(q)'
    BY <1>2 DEF Agents
  <2>2. \A q \in Runs : run'[q].op = run[q].op /\ run'[q].at = run[q].at /\ run'[q].mem = run[q].mem
    BY <1>5
  <2> QED
    BY <1>1, <2>1, <2>2, ClaimsKept DEF Inv
<1>11. StatusDescribesMachine' /\ Copies'
  BY <1>1, CopiesKept DEF Inv, StatusDescribesMachine, InstalledSlugs
<1> QED
  BY <1>7, <1>8, <1>9, <1>10, <1>11 DEF Inv

\* The sources change, or nothing does.
LEMMA SourcesStep ==
    ASSUME Inv, UNCHANGED <<disk, manifest, lock, run, status, command, made, unsaved, unlisted>>,
           place' \in Places, vault' \in [Slugs -> Contents], profile' \in Profiles
    PROVE  Inv'
<1>1. TypeOK'
  BY DEF Inv, TypeOK
<1>2. \A r \in Runs : RunInv(r)'
  BY RunSame DEF Inv
<1>3. Provenance(manifest)' /\ MadeIsClaimed'
  BY DEF Inv, Provenance, MadeIsClaimed
<1>4. StatusDescribesMachine' /\ Copies'
  BY CopiesKept DEF Inv, StatusDescribesMachine, InstalledSlugs
<1> QED
  BY <1>1, <1>2, <1>3, <1>4 DEF Inv

\* The operator's steps.
LEMMA OperatorStepInv == Inv /\ OperatorStep => Inv'
<1> SUFFICES ASSUME Inv, OperatorStep PROVE Inv'
  OBVIOUS
<1>0. place \in Places /\ vault \in [Slugs -> Contents] /\ profile \in Profiles
  BY DEF Inv, TypeOK
<1>1. ASSUME NEW p \in Paths, NEW e \in {Absent, Real, Link(Elsewhere, "operator")}, editEntry(p, e)
      PROVE  Inv'
  <2>1. e \in Entries /\ (e.kind = "link" => e.by # "agent")
    BY <1>1, EntryShape
  <2> QED
    BY <1>1, <2>1, EditEntryStep
<1>2. ASSUME NEW p \in Paths, editEntry(p, Link(<<place, p[3]>>, "operator"))
      PROVE  Inv'
  <2> DEFINE e == Link(<<place, p[3]>>, "operator")
  <2>1. <<place, p[3]>> \in Targets
    BY <1>0, PathShape DEF Targets
  <2>2. e \in Entries /\ e.by # "agent"
    BY <2>1, EntryShape
  <2>3. editEntry(p, e)
    BY <1>2
  <2>4. PICK f \in Entries : f = e
    BY <2>2
  <2> QED
    BY <2>2, <2>3, <2>4, EditEntryStep
<1>3. ASSUME NEW v \in Places, moveVault(v) PROVE Inv'
  BY <1>0, <1>3, SourcesStep DEF moveVault
<1>4. ASSUME NEW s \in Slugs, NEW c \in Contents, editSkill(s, c) PROVE Inv'
  BY <1>0, <1>4, SourcesStep DEF editSkill
<1>5. ASSUME NEW prof \in Profiles, editProfile(prof) PROVE Inv'
  BY <1>0, <1>5, SourcesStep DEF editProfile
<1> QED
  BY <1>1, <1>2, <1>3, <1>4, <1>5 DEF OperatorStep

\* Every step keeps the invariant.
LEMMA StepInv == Inv /\ [Next]_vars => Inv'
<1> SUFFICES ASSUME Inv, [Next]_vars PROVE Inv'
  OBVIOUS
<1>1. ASSUME NEW r \in Runs, RunStep(r) PROVE Inv'
  BY <1>1, ResolveStep, ProvisionStep, NextHarnessStep, InspectStep, UninspectableStep,
     PruneEntryStep, RemoveStaleStep, SymlinkStep, SymlinkFailsStep, WithdrawStep, SaveStep,
     FinishStep, ReadInstalledStep, LoadStateStep, RecordStateStep, DieStep
     DEF RunStep
<1>2. CASE UNCHANGED vars
  <2>1. place' \in Places /\ vault' \in [Slugs -> Contents] /\ profile' \in Profiles
    BY <1>2 DEF Inv, TypeOK, vars
  <2> QED
    BY <1>2, <2>1, SourcesStep DEF vars
<1> QED
  BY <1>1, <1>2, CommandStepInv, OperatorStepInv DEF Next

(***************************************************************************)
(* Theorems.                                                                *)
(***************************************************************************)

\* The invariant holds throughout: one run works at a time on a true copy of the
\* manifest, whoever edits and dies meanwhile.
THEOREM Invariance == Spec => []Inv
<1>1. Init => Inv
  BY InitInv
<1>2. Inv /\ [Next]_vars => Inv'
  BY StepInv
<1> QED
  BY <1>1, <1>2, PTL DEF Spec

\* Every filesystem mutation is recorded before the next one is attempted
\* (link.go:346): no link of the agent's is on disk that the manifest, the run
\* about to record it or the list of deaths in between does not account for.
THEOREM LinksAreClaimed == Spec => []MadeIsClaimed
<1>1. Inv => MadeIsClaimed
  BY DEF Inv
<1> QED
  BY <1>1, Invariance, PTL

\* A run that is through has converged on what it read (link.go:319-321).
THEOREM RunsConverge == Spec => []RunConverges
<1>1. Inv => RunConverges
  <2> SUFFICES ASSUME Inv, NEW r \in Runs, Through(r), run[r].left = {},
                      NEW p \in Paths \ (run[r].touched \cup run[r].failed),
                      p[1] \in run[r].only, p[2] = run[r].home[p[1]]
               PROVE  IF wanted(r, p)
                      THEN /\ disk[p].kind # "absent"
                           /\ owns(manifest, p) => disk[p].to = Dir(r, p)
                      ELSE run[r].prune => ~owns(manifest, p)
    BY DEF RunConverges
  <2>1. Passed(r, p) /\ run[r].links = {} /\ run[r].stale = {}
    BY DEF Passed, Through
  <2> QED
    BY <2>1 DEF Inv, RunInv, Settled
<1> QED
  BY <1>1, Invariance, PTL

\* The list in state.json is the manifest's (link.go:260), for any number of runs
\* and of other commands that load and save the whole file, unless a change to the
\* manifest has not been reported, the last report was overtaken on its way, or a
\* copy loaded before it was saved after it.
THEOREM StatusIsTheMachines == Spec => []StatusDescribesMachine
<1>1. Inv => StatusDescribesMachine
  BY DEF Inv
<1> QED
  BY <1>1, Invariance, PTL

\* Every step of the operator's is an edit.
LEMMA OperatorEdits == OperatorStep => Edit
BY DEF OperatorStep, editEntry, moveVault, editSkill, editProfile

\* The edits made so far are a number.
Counted == edits \in Nat

\* Edits are counted, and only the operator's steps are.
LEMMA EditsCounted == Spec => []Counted
<1>1. Init => Counted
  BY DEF Init, Counted
<1>2. Counted /\ [Next]_vars => Counted'
  <2> SUFFICES ASSUME Counted, [Next]_vars PROVE Counted'
    OBVIOUS
  <2>1. ASSUME NEW r \in Runs, RunStep(r) PROVE edits' = edits
    BY <2>1 DEF RunStep, resolve, provision, nextHarness, inspect, uninspectable, pruneEntry,
       removeStale, symlink, symlinkFails, withdraw, save, finish, readInstalled, loadState, recordState, Die
  <2>2. CASE OperatorStep
    BY <2>2, OperatorEdits DEF Edit, Counted
  <2>3. CASE UNCHANGED vars
    BY <2>3 DEF vars, Counted
  <2>4. ASSUME NEW c \in Commands, CommandStep(c) PROVE edits' = edits
    BY <2>4 DEF CommandStep, commandLoads, commandSaves, commandDies
  <2> QED
    BY <2>1, <2>2, <2>3, <2>4 DEF Next, Counted
<1> QED
  BY <1>1, <1>2, PTL DEF Spec

\* What a step of a run takes off the disk was owned when the run looked.
LEMMA RunSpares ==
    ASSUME Inv, NEW r \in Runs, RunStep(r), NEW p \in Paths,
           disk'[p] # disk[p], disk[p].kind # "absent"
    PROVE  \/ disk[p].kind = "link" /\ <<p, disk[p].to>> \in made
           \/ p \in run[r].touched
<1>0. RunInv(r) /\ disk \in [Paths -> Entries]
  BY DEF Inv, TypeOK
<1>1. run[r].op \in {"replace", "withdraw"} /\ run[r].at = p
  BY <1>0 DEF RunStep, resolve, provision, nextHarness, inspect, uninspectable, pruneEntry,
     removeStale, symlink, symlinkFails, withdraw, save, finish, readInstalled, loadState, recordState, Die, Skip
<1>2. CASE p \notin run[r].touched
  <2>1. disk[p].kind = "link" /\ run[r].mem[p] = disk[p].to
    BY <1>0, <1>1, <1>2 DEF RunInv, Decided, owns
  <2>2. run[r].mem[p] # None
    BY <1>0, <2>1, EntryShape
  <2> QED
    BY <1>0, <2>1, <2>2 DEF RunInv, Provenance
<1> QED
  BY <1>2

\* An existing entry that Homeplane did not create is never overwritten, moved or
\* deleted (skills.go:13-14), but for one put in place after the run had looked.
THEOREM ForeignEntriesAlwaysStay == Spec => ForeignEntriesStay
<1> DEFINE Spared ==
        \A p \in Paths :
           (edits' = edits /\ disk'[p] # disk[p] /\ disk[p].kind # "absent") =>
              \/ disk[p].kind = "link" /\ <<p, disk[p].to>> \in made
              \/ \E r \in Runs : p \in run[r].touched
<1>1. Inv /\ Counted /\ [Next]_vars => [Spared]_vars
  <2> SUFFICES ASSUME Inv, Counted, Next, NEW p \in Paths,
                      edits' = edits, disk'[p] # disk[p], disk[p].kind # "absent"
               PROVE  \/ disk[p].kind = "link" /\ <<p, disk[p].to>> \in made
                      \/ \E r \in Runs : p \in run[r].touched
    OBVIOUS
  <2>1. ~OperatorStep
    BY OperatorEdits DEF Edit, Counted
  <2>2. PICK r \in Runs : RunStep(r)
    BY <2>1 DEF Next, CommandStep, commandLoads, commandSaves, commandDies
  <2> QED
    BY <2>2, RunSpares
<1> QED
  BY <1>1, Invariance, EditsCounted, PTL DEF Spec, ForeignEntriesStay

=============================================================================
