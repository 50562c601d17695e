----------------------------- MODULE HarnessFile -----------------------------
(***************************************************************************)
(* One harness's configuration file and the run that merges Homeplane's      *)
(* entries into it: internal/agent/harness configure.go (configureOne),      *)
(* writer.go (Apply, applyOnce), backup.go, preserve.go and the two editors  *)
(* jsonedit.go and tomledit.go.                                              *)
(*                                                                         *)
(* The file belongs to somebody else.  The harness and its user save, break, *)
(* reformat and delete it at any moment and know nothing of Homeplane's      *)
(* lock, so every read, copy, comparison and rename of a run is a step of    *)
(* its own.  Runs exclude each other (Configurator.Lock, modelled in         *)
(* AgentState): there is one run, and pc = "idle" between two of them.       *)
(*                                                                         *)
(* A file is what its parser and the editors tell apart: whether it parses,  *)
(* the content Homeplane does not own, the entries under names Homeplane     *)
(* uses, the grant in the connector entry, and which of those entries are    *)
(* not a table of their own (`mcp_servers.x.command = ...`), which the TOML  *)
(* editor does not cut.  The JSON editor cuts every form.                    *)
(***************************************************************************)
EXTENDS Naturals

CONSTANTS
    Contents,          \* what the file may hold beside Homeplane's entries
    Empty,             \* nothing
    Connector,         \* ConnectorServerName
    Engines,           \* server names an endpoint descriptor may publish
    Toml,              \* the harness is Codex: entries may be in dotted form
    MaxGrants,         \* bound: grants issued
    MaxMergeAttempts   \* maxMergeAttempts

ASSUME HarnessFileAssumption ==
    /\ Empty \in Contents
    /\ Connector \notin Engines
    /\ {"none", "unusable"} \cap Engines = {}
    /\ Toml \in BOOLEAN
    /\ MaxGrants \in Nat
    /\ MaxMergeAttempts \in Nat

VARIABLES
    file,        \* the configuration file
    record,      \* ManagedServers of the harness's record
    descriptor,  \* what the published endpoint descriptor says
    live,        \* the grant the server honours for this harness; 0 is none
    run,         \* the run in progress, or the last one
    late,        \* somebody else wrote the file since the run's last look
    unsaved      \* names a run put in the file without reaching saveRecord

vars == <<file, record, descriptor, live, run, late, unsaved>>

Names  == {Connector} \cup Engines
Grants == 0 .. MaxGrants

(* An absent file reads as an empty one (readFileAllowingMissing).          *)
NoFile == [there |-> FALSE, sound |-> TRUE, foreign |-> Empty, names |-> {},
           dotted |-> {}, token |-> 0]

Files == [there : BOOLEAN, sound : BOOLEAN, foreign : Contents,
          names : SUBSET Names, dotted : SUBSET Names, token : Grants]

Idle == [pc |-> "idle", outcome |-> "none", entries |-> {}, retire |-> {},
         grant |-> 0, before |-> NoFile, backup |-> NoFile, attempt |-> 0]

Init ==
    /\ file \in {NoFile} \cup {[NoFile EXCEPT !.there = TRUE, !.foreign = c] :
                               c \in Contents}
    /\ record = {}
    /\ descriptor \in Engines \cup {"none"}
    /\ live = 0
    /\ run = Idle
    /\ late = FALSE
    /\ unsaved = {}

-----------------------------------------------------------------------------
(* What the editors and the check compute from bytes already in hand.       *)

(* Mutant: names of an earlier run are not the merge's business.            *)
WrittenNames(entries, retire) == entries

(* The names the merge may remove, and the only ones the check exempts.      *)
managedNames(entries, retire) == entries \cup retire

(* The entries that are a table of their own: the spans scanTOMLTables finds, *)
(* and every entry of a JSON object.                                         *)
tables(f) == f.names \ f.dotted

(* What stays when the managed entries the editor can find are cut out.      *)
removeTables(f, managed) == f.names \ (tables(f) \cap managed)

(* An entry appended beside a dotted twin is a duplicate key, and no parser  *)
(* accepts the result.                                                       *)
parses(f, entries) == f.dotted \cap entries = {}

(* Mutant: an entry that is already there is left as it is.                 *)
PutIfAbsent(before, entries, managed, grant) ==
    [there   |-> TRUE,
     sound   |-> parses(before, entries),
     foreign |-> before.foreign,
     names   |-> removeTables(before, managed) \cup entries,
     dotted  |-> before.dotted,
     token   |-> IF Connector \in before.names THEN before.token ELSE grant]

(* rewriteClaude, rewriteCodex: every managed entry is cut out and the       *)
(* desired ones are written anew.                                            *)
rewrite(before, entries, managed, grant) ==
    [there   |-> TRUE,
     sound   |-> parses(before, entries),
     foreign |-> before.foreign,
     names   |-> removeTables(before, managed) \cup entries,
     dotted  |-> before.dotted,
     token   |-> grant]

(* What is left of a file once the managed entries are taken out.           *)
stripManaged(f, managed) == <<f.foreign, f.names \ managed>>

(* parse(after) - managed  ==  parse(before) - managed                       *)
verify(before, after, managed) ==
    /\ before.sound /\ after.sound
    /\ stripManaged(before, managed) = stripManaged(after, managed)

(* bytes.Equal: an absent file and an empty one are the same bytes.          *)
SameBytes(f, g) == [f EXCEPT !.there = TRUE] = [g EXCEPT !.there = TRUE]

-----------------------------------------------------------------------------
(* One run: Configure, configureOne, Apply, applyOnce.                       *)

(* The run ends; what it held is gone with its process.                      *)
End(outcome) ==
    run' = [Idle EXCEPT !.outcome = outcome, !.entries = run.entries]

To(pc) == run' = [run EXCEPT !.pc = pc]

(* Configure: the descriptor is read and converted once, before any          *)
(* authority moves; one that exists and cannot be used refuses the run.      *)
loadEngineEntry ==
    /\ run.pc = "idle"
    /\ live < MaxGrants
    /\ \/ /\ descriptor = "unusable"
          /\ run' = [Idle EXCEPT !.outcome = "refused"]
       \/ /\ descriptor # "unusable"
          /\ run' = [Idle EXCEPT
                !.pc = "detect",
                !.entries = {Connector} \cup (Engines \cap {descriptor})]
    /\ UNCHANGED <<file, record, descriptor, live, late, unsaved>>

(* Detect: a path inside a repository that does not ignore it is refused,    *)
(* and a harness with neither a binary nor a file is skipped.  The names to  *)
(* retire are the recorded ones the run does not write.                      *)
detect ==
    /\ run.pc = "detect"
    /\ \/ End("failed")
       \/ ~file.there /\ End("skipped")
       \/ run' = [run EXCEPT !.pc = "preflight", !.retire = record \ run.entries]
    /\ UNCHANGED <<file, record, descriptor, live, late, unsaved>>

(* Preflight: a file that does not parse ends the run before a grant is      *)
(* asked for: skipped when a copy of it could be made, failed when not, and  *)
(* failed as well when the file cannot be read.                              *)
preflight ==
    /\ run.pc = "preflight"
    /\ \/ End("failed")
       \/ file.sound /\ To("issue")
       \/ ~file.sound /\ End("skipped")
    /\ UNCHANGED <<file, record, descriptor, live, late, unsaved>>

(* IssueGrant: the request may not arrive, may be answered, or may be        *)
(* carried out with its answer lost; then the old grant is superseded and    *)
(* nobody holds the new one.                                                 *)
issueGrant ==
    /\ run.pc = "issue"
    /\ \/ End("failed") /\ live' \in {live, live + 1}
       \/ /\ run' = [run EXCEPT !.pc = "scope", !.grant = live + 1]
          /\ live' = live + 1
    /\ UNCHANGED <<file, record, descriptor, late, unsaved>>

(* Apply: the path is judged a second time, after the grant.                 *)
assertUserScope ==
    /\ run.pc = "scope"
    /\ End("failed") \/ To("read")
    /\ UNCHANGED <<file, record, descriptor, live, late, unsaved>>

(* applyOnce takes its snapshot.                                             *)
read ==
    /\ run.pc = "read"
    /\ End("failed") \/ run' = [run EXCEPT !.pc = "backup", !.before = file]
    /\ UNCHANGED <<file, record, descriptor, live, late, unsaved>>

managed == managedNames(run.entries, run.retire)
after   == rewrite(run.before, run.entries, managed, run.grant)

(* backupFile reads the path once more; then the snapshot is parsed, edited  *)
(* and checked, all before anything is written.                              *)
backup ==
    /\ run.pc = "backup"
    /\ \/ End("failed")
       \/ ~run.before.sound /\ End("skipped")
       \/ run.before.sound /\ ~verify(run.before, after, managed) /\ End("failed")
       \/ /\ verify(run.before, after, managed)
          /\ run' = [run EXCEPT !.pc = "look", !.backup = file]
    /\ UNCHANGED <<file, record, descriptor, live, late, unsaved>>

(* Mutant: the snapshot is trusted; no look before the rename.              *)
LookAway ==
    /\ run.pc = "look"
    /\ To("write")
    /\ late' = FALSE
    /\ UNCHANGED <<file, record, descriptor, live, unsaved>>

(* Mutant: a lost race starts over without being counted.                   *)
LookForEver ==
    /\ run.pc = "look"
    /\ \/ SameBytes(file, run.before) /\ To("write") /\ late' = FALSE
       \/ ~SameBytes(file, run.before) /\ To("read") /\ UNCHANGED late
    /\ UNCHANGED <<file, record, descriptor, live, unsaved>>

(* Mutant: the attempts are counted one past the bound.                     *)
LookOnceMore ==
    /\ run.pc = "look"
    /\ \/ SameBytes(file, run.before) /\ To("write") /\ late' = FALSE
       \/ /\ ~SameBytes(file, run.before)
          /\ run.attempt <= MaxMergeAttempts
          /\ run' = [run EXCEPT !.pc = "read", !.attempt = @ + 1]
          /\ UNCHANGED late
    /\ UNCHANGED <<file, record, descriptor, live, unsaved>>

(* The last look before the rename: another file than the snapshot is        *)
(* somebody else's edit, and the merge starts over until it gives up.  A     *)
(* grant is new in every run, so `after` is never what was there before.     *)
look ==
    /\ run.pc = "look"
    /\ \/ End("failed") /\ UNCHANGED late
       \/ SameBytes(file, run.before) /\ To("write") /\ late' = FALSE
       \/ /\ ~SameBytes(file, run.before)
          /\ run.attempt < MaxMergeAttempts
          /\ run' = [run EXCEPT !.pc = "read", !.attempt = @ + 1]
          /\ UNCHANGED late
       \/ /\ ~SameBytes(file, run.before)
          /\ run.attempt >= MaxMergeAttempts
          /\ End("failed")
          /\ UNCHANGED late
    /\ UNCHANGED <<file, record, descriptor, live, unsaved>>

(* writeFileAtomic: the rename replaces whatever is there.  An error before  *)
(* it changes nothing; one after it (the directory's fsync) reports a        *)
(* failed write that took place.                                             *)
write ==
    /\ run.pc = "write"
    /\ \/ End("failed") /\ UNCHANGED <<file, unsaved>>
       \/ /\ file' = after
          /\ unsaved' = unsaved \cup run.entries
          /\ To("landed") \/ End("failed")
    /\ UNCHANGED <<record, descriptor, live, late>>

(* The file is read back and checked against the snapshot once more; one     *)
(* that is gone or unreadable ends the run without a rollback.               *)
readBack ==
    /\ run.pc = "landed"
    /\ \/ End("failed")
       \/ file.there /\ verify(run.before, file, managed) /\ To("save")
       \/ file.there /\ ~verify(run.before, file, managed) /\ To("rollback")
    /\ UNCHANGED <<file, record, descriptor, live, late, unsaved>>

(* restoreFromBackup puts the copy back over whatever is there; without a    *)
(* copy it removes the file.  Either may fail.                               *)
restoreFromBackup ==
    /\ run.pc = "rollback"
    /\ file' \in {file, run.backup}
    /\ End("failed")
    /\ UNCHANGED <<record, descriptor, live, late, unsaved>>

saveRecord ==
    /\ run.pc = "save"
    /\ \/ End("failed") /\ UNCHANGED <<record, unsaved>>
       \/ /\ record' = run.entries
          /\ unsaved' = unsaved \ run.entries
          /\ End("configured") \/ End("failed")
    /\ UNCHANGED <<file, descriptor, live, late>>

(* The process is killed; the kernel drops its lock.                         *)
die ==
    /\ run.pc # "idle"
    /\ End("killed")
    /\ UNCHANGED <<file, record, descriptor, live, late, unsaved>>

RunStep ==
    \/ loadEngineEntry \/ detect \/ preflight \/ issueGrant \/ assertUserScope
    \/ read \/ backup \/ look \/ write \/ readBack \/ restoreFromBackup
    \/ saveRecord

-----------------------------------------------------------------------------
(* Everybody else.                                                          *)

(* The harness or its user saves the file, keeping Homeplane's entries or    *)
(* dropping them; a broken file may be mended by it.                         *)
Save ==
    /\ \E c \in Contents, keep \in BOOLEAN :
         file' = IF keep THEN [file EXCEPT !.there = TRUE, !.sound = TRUE, !.foreign = c]
                 ELSE [NoFile EXCEPT !.there = TRUE, !.foreign = c]
    /\ late' = TRUE
    /\ UNCHANGED <<record, descriptor, live, run, unsaved>>

(* A half-finished edit no parser accepts.                                   *)
Break ==
    /\ file.there
    /\ file' = [file EXCEPT !.sound = FALSE]
    /\ late' = TRUE
    /\ UNCHANGED <<record, descriptor, live, run, unsaved>>

Delete ==
    /\ file.there
    /\ file' = NoFile
    /\ late' = TRUE
    /\ UNCHANGED <<record, descriptor, live, run, unsaved>>

(* The entries are turned into dotted keys of one table.                     *)
Reformat ==
    /\ Toml /\ file.there /\ file.names # {}
    /\ file' = [file EXCEPT !.dotted = file.names]
    /\ late' = TRUE
    /\ UNCHANGED <<record, descriptor, live, run, unsaved>>

(* `gno activate` publishes another endpoint, or the descriptor is damaged   *)
(* or withdrawn; it does not take the agent's lock.                          *)
Publish ==
    /\ descriptor' \in Engines \cup {"none", "unusable"}
    /\ UNCHANGED <<file, record, live, run, late, unsaved>>

Next == RunStep \/ die \/ Save \/ Break \/ Delete \/ Reformat \/ Publish

(* A started run is a running process: it goes on to its next step unless it *)
(* is killed.  Starting one is up to the operator.                           *)
Spec == Init /\ [][Next]_vars /\ WF_vars(run.pc # "idle" /\ RunStep)
-----------------------------------------------------------------------------
(* Properties.                                                              *)

Pcs == {"idle", "detect", "preflight", "issue", "scope", "read", "backup",
        "look", "write", "landed", "rollback", "save"}
Outcomes == {"none", "refused", "skipped", "failed", "configured", "killed"}

(* Type invariant.  A grant a run writes is never newer than the server's,   *)
(* and the merge never starts more often than maxMergeAttempts allows        *)
(* (writer.go:131-134).                                                      *)
TypeOK ==
    /\ file \in Files /\ file.dotted \subseteq file.names
    /\ record \subseteq Names /\ unsaved \subseteq Names
    /\ descriptor \in Engines \cup {"none", "unusable"}
    /\ live \in Grants
    /\ late \in BOOLEAN
    /\ run \in [pc : Pcs, outcome : Outcomes, entries : SUBSET Names,
                retire : SUBSET Names, grant : 0 .. live, before : Files,
                backup : Files, attempt : 0 .. MaxMergeAttempts]

(* A harness reported as configured carries the newest grant in its file,    *)
(* whatever earlier runs left there, as long as nobody else wrote the file   *)
(* since the run's last look.  configure.go:74-76: a run that dies leaves "a *)
(* config nobody can authenticate with - and the next run repairs both".     *)
ConfiguredIsWired ==
    run.outcome = "configured" /\ ~late =>
        /\ file.there /\ file.sound
        /\ run.entries \subseteq file.names
        /\ file.token = live
        /\ record = run.entries

(* An entry under one of Homeplane's names is on record, so that a later run *)
(* can retire it.  The exceptions are exactly two: a run that ended between  *)
(* the rename and saveRecord, and an entry in a form the TOML editor cannot  *)
(* cut.  configure.go:343-345: the record exists so that a renamed engine    *)
(* "retires the old entry instead of orphaning it".                          *)
NoOrphans == file.names \subseteq record \cup unsaved \cup file.dotted

(* What of the file is not Homeplane's.                                      *)
Outside(f) == <<f.sound, f.foreign>>

(* A step of a run changes what is not Homeplane's only over an edit that    *)
(* landed after the run's last look at the file (writer.go:109): what was    *)
(* there at the look, a broken file included, is never overwritten,          *)
(* whichever attempt, rollback or restart the run is in.                     *)
EditsSurvive ==
    [][run' # run /\ Outside(file') # Outside(file) => late]_vars

(* A run that is not killed ends, even against a harness that saves its file *)
(* for ever: the optimistic merge gives up (writer.go:124).                  *)
RunEnds == run.pc # "idle" ~> run.pc = "idle"

(* writer.go:109-110 of the look before the rename: it "closes that window   *)
(* down to the rename itself; losing the race is a retry, not a lost edit".  *)
(* An edit would be lost by the rename alone.                                *)
LostAtRenameOnly ==
    [][run' # run /\ Outside(file') # Outside(file) => run.pc = "write"]_vars
=============================================================================
