-------------------------- MODULE HarnessFileProofs --------------------------
(***************************************************************************)
(* Proofs about one harness's configuration file, for every set of contents  *)
(* and engine names, any number of grants and any bound on the attempts.     *)
(***************************************************************************)
EXTENDS HarnessFile, TLAPS

(***************************************************************************)
(* The inductive invariant.                                                 *)
(***************************************************************************)

\* The steps of a run that hold a grant, and those past the check of the edit.
Granted == {"scope", "read", "backup", "look", "write", "landed", "rollback", "save"}
Checked == {"look", "write", "landed", "rollback", "save"}

\* What a run carries from step to step still describes the world: room for the
\* grant it is about to ask for, the server's newest grant, the names on record.
RunShape ==
    /\ run.pc # "idle" => Connector \in run.entries /\ run.outcome = "none"
    /\ run.pc \in {"detect", "preflight", "issue"} => live < MaxGrants
    /\ run.pc \in Granted => run.grant = live
    /\ run.pc \notin {"idle", "detect"} => run.retire = record \ run.entries

\* A file as one was on this machine: its entries are on record, unsaved, or in
\* a form the editor cannot cut.
Accounted(f) ==
    /\ f.dotted \subseteq f.names
    /\ f.names \subseteq record \cup unsaved \cup f.dotted

\* The file, and the two copies of it that a run may write back or build on.
Copies == Accounted(file) /\ Accounted(run.before) /\ Accounted(run.backup)

\* Nothing is written that the check did not pass.
CheckedFirst == run.pc \in Checked => verify(run.before, after, managed)

\* What the run knows of the file as long as nobody else has written it.
Undisturbed ==
    /\ run.pc = "write" /\ ~late => SameBytes(file, run.before)
    /\ run.pc \in {"landed", "save"} /\ ~late => file = after
    /\ run.pc = "rollback" => late

\* Whatever happens to the file after the rename, no name the run retires comes
\* back in a form the editor could have cut.
Retired ==
    run.pc \in {"landed", "save"} => file.names \cap run.retire \subseteq file.dotted

Inv ==
    /\ TypeOK
    /\ RunShape
    /\ Copies
    /\ CheckedFirst
    /\ Undisturbed
    /\ Retired
    /\ ConfiguredIsWired

(***************************************************************************)
(* What the helpers compute.                                                *)
(***************************************************************************)

\* The absent file is a file, and carries no entry.
LEMMA NoFileFacts == NoFile \in Files /\ NoFile.names = {} /\ NoFile.dotted = {}
  BY HarnessFileAssumption DEF NoFile, Files, Grants

\* What the editor makes of a file is a file; of the names on record, only the
\* entries of this run and what it cannot cut stay.
LEMMA RewriteFacts ==
    ASSUME NEW f \in Files, NEW e \in SUBSET Names, NEW m \in SUBSET Names,
           NEW g \in Grants, f.dotted \subseteq f.names
    PROVE  LET r == rewrite(f, e, m, g) IN
           /\ r \in Files
           /\ r.there /\ r.token = g /\ r.foreign = f.foreign
           /\ r.dotted = f.dotted /\ r.dotted \subseteq r.names
           /\ e \subseteq r.names
           /\ r.names \subseteq f.names \cup e
           /\ r.names \cap (m \ e) \subseteq r.dotted
  BY DEF rewrite, Files, parses, removeTables, tables

\* A run that ends leaves no trace in the run's variables but its outcome and the
\* entries it was about.
LEMMA EndFacts ==
    ASSUME NEW o, End(o)
    PROVE  /\ run'.pc = "idle" /\ run'.outcome = o /\ run'.entries = run.entries
           /\ run'.retire = {} /\ run'.grant = 0 /\ run'.before = NoFile
           /\ run'.backup = NoFile /\ run'.attempt = 0
  BY DEF End, Idle

\* Moving on changes the program counter and nothing else.
LEMMA ToFacts ==
    ASSUME TypeOK, NEW p \in Pcs, To(p)
    PROVE  /\ run'.pc = p /\ run'.outcome = run.outcome /\ run'.entries = run.entries
           /\ run'.retire = run.retire /\ run'.grant = run.grant
           /\ run'.before = run.before /\ run'.backup = run.backup
           /\ run'.attempt = run.attempt
           /\ after' = after /\ managed' = managed
  BY DEF TypeOK, To, after, managed

\* A run that ends over an unchanged file and record, or over a file the record
\* accounts for, keeps the invariant.
LEMMA EndKeeps ==
    ASSUME Inv, NEW o \in Outcomes \ {"configured"}, End(o),
           file' \in Files, Accounted(file)', record' = record,
           unsaved' \in SUBSET Names, descriptor' = descriptor,
           live' \in Grants, late' \in BOOLEAN
    PROVE  Inv'
<1>1. run' = [pc |-> "idle", outcome |-> o, entries |-> run.entries, retire |-> {},
              grant |-> 0, before |-> NoFile, backup |-> NoFile, attempt |-> 0]
  BY DEF End, Idle
<1>2. TypeOK'
  <2>1. run.entries \in SUBSET Names /\ record \subseteq Names /\ 0 \in 0 .. live'
        /\ 0 \in 0 .. MaxMergeAttempts
    BY HarnessFileAssumption DEF Inv, TypeOK, Grants
  <2>2. run' \in [pc : Pcs, outcome : Outcomes, entries : SUBSET Names,
                retire : SUBSET Names, grant : 0 .. live', before : Files,
                backup : Files, attempt : 0 .. MaxMergeAttempts]
    BY <1>1, <2>1, NoFileFacts DEF Pcs
  <2> QED BY <2>1, <2>2 DEF Inv, TypeOK, Accounted
<1>3. RunShape' BY <1>1 DEF RunShape, Granted
<1>4. Copies' BY <1>1, NoFileFacts DEF Copies, Accounted
<1>5. CheckedFirst' /\ Undisturbed' /\ Retired' /\ ConfiguredIsWired'
  BY <1>1 DEF CheckedFirst, Checked, Undisturbed, Retired, ConfiguredIsWired, Outcomes
<1> QED BY <1>2, <1>3, <1>4, <1>5 DEF Inv

\* What the checked editor would write is a file whose entries are accounted for
\* by what the run has put or is about to put in the file.
LEMMA AfterFacts ==
    ASSUME Inv, run.pc \in Granted
    PROVE  /\ after \in Files
           /\ after.there /\ after.token = live /\ after.foreign = run.before.foreign
           /\ after.dotted \subseteq after.names
           /\ run.entries \subseteq after.names
           /\ after.names \subseteq record \cup unsaved \cup run.entries \cup after.dotted
           /\ run.pc # "idle" => after.names \cap run.retire \subseteq after.dotted
<1>1. /\ run.before \in Files /\ run.entries \in SUBSET Names /\ managed \in SUBSET Names
      /\ run.grant \in Grants /\ run.before.dotted \subseteq run.before.names
      /\ run.before.names \subseteq record \cup unsaved \cup run.before.dotted
      /\ run.grant = live
  BY DEF Inv, TypeOK, Copies, Accounted, managed, managedNames, RunShape, Grants
<1>2. run.retire \subseteq managed \ run.entries
  BY DEF Inv, RunShape, managed, managedNames, Granted
<1>3. /\ after \in Files
      /\ after.there /\ after.token = run.grant /\ after.foreign = run.before.foreign
      /\ after.dotted = run.before.dotted /\ after.dotted \subseteq after.names
      /\ run.entries \subseteq after.names
      /\ after.names \subseteq run.before.names \cup run.entries
      /\ after.names \cap (managed \ run.entries) \subseteq after.dotted
  BY <1>1, RewriteFacts DEF after
<1> QED BY <1>1, <1>2, <1>3

-----------------------------------------------------------------------------
(***************************************************************************)
(* Initial states and steps.                                                *)
(***************************************************************************)

LEMMA InitInv == Init => Inv
<1> SUFFICES ASSUME Init PROVE Inv
  OBVIOUS
<1>1. run = [pc |-> "idle", outcome |-> "none", entries |-> {}, retire |-> {},
             grant |-> 0, before |-> NoFile, backup |-> NoFile, attempt |-> 0]
  BY DEF Init, Idle
<1>2. file \in Files /\ file.names = {} /\ file.dotted = {}
  <2>1. CASE file = NoFile BY <2>1, NoFileFacts
  <2>2. ASSUME NEW c \in Contents, file = [NoFile EXCEPT !.there = TRUE, !.foreign = c]
        PROVE  file \in Files /\ file.names = {} /\ file.dotted = {}
    BY <2>2, NoFileFacts DEF Files
  <2> QED BY <2>1, <2>2 DEF Init
<1>3. TypeOK
  <2>1. 0 \in Grants /\ 0 \in 0 .. 0 /\ 0 \in 0 .. MaxMergeAttempts
    BY HarnessFileAssumption DEF Grants
  <2>2. run \in [pc : Pcs, outcome : Outcomes, entries : SUBSET Names,
                retire : SUBSET Names, grant : 0 .. 0, before : Files,
                backup : Files, attempt : 0 .. MaxMergeAttempts]
    BY <1>1, <2>1, NoFileFacts DEF Pcs, Outcomes
  <2> QED BY <1>2, <2>1, <2>2 DEF Init, TypeOK
<1>4. RunShape /\ CheckedFirst /\ Undisturbed /\ Retired /\ ConfiguredIsWired
  BY <1>1 DEF RunShape, CheckedFirst, Undisturbed, Retired, ConfiguredIsWired,
              Granted, Checked
<1>5. Copies BY <1>1, <1>2, NoFileFacts DEF Copies, Accounted
<1> QED BY <1>3, <1>4, <1>5 DEF Inv

\* A run that ends and writes nothing.
LEMMA EndQuietly ==
    ASSUME Inv, NEW o \in Outcomes \ {"configured"}, End(o),
           UNCHANGED <<file, record, descriptor, unsaved>>,
           live' \in Grants, late' \in BOOLEAN
    PROVE  Inv'
<1>1. file' \in Files /\ Accounted(file)' /\ unsaved' \in SUBSET Names
  BY DEF Inv, TypeOK, Copies, Accounted
<1> QED BY <1>1, EndKeeps

\* A run that only moves on, to a step whose own part of the invariant holds.
LEMMA MoveOn ==
    ASSUME Inv, NEW p \in Pcs \ {"idle"}, To(p), run.pc # "idle",
           UNCHANGED <<file, record, descriptor, live, unsaved>>, late' \in BOOLEAN,
           late /\ p \notin {"write"} => late',
           p \in {"detect", "preflight", "issue"} => live < MaxGrants,
           p \in Granted => run.pc \in Granted,
           p # "detect" => run.pc # "detect",
           p \in Checked => verify(run.before, after, managed),
           p = "write" /\ ~late' => SameBytes(file, run.before),
           p \in {"landed", "save"} => run.pc \in {"landed", "save"},
           p = "rollback" => late'
    PROVE  Inv'
<1>1. /\ run'.pc = p /\ run'.outcome = run.outcome /\ run'.entries = run.entries
      /\ run'.retire = run.retire /\ run'.grant = run.grant
      /\ run'.before = run.before /\ run'.backup = run.backup
      /\ run'.attempt = run.attempt
      /\ after' = after /\ managed' = managed
  BY ToFacts DEF Inv
<1>2. TypeOK' BY DEF Inv, TypeOK, To
<1>3. RunShape' BY <1>1 DEF Inv, RunShape
<1>4. Copies' BY <1>1 DEF Inv, Copies, Accounted
<1>5. CheckedFirst' BY <1>1 DEF CheckedFirst, verify, stripManaged
<1>6. Undisturbed' BY <1>1 DEF Inv, Undisturbed, SameBytes, TypeOK
<1>7. Retired' BY <1>1 DEF Inv, Retired
<1>8. ConfiguredIsWired' BY <1>1 DEF Inv, RunShape, ConfiguredIsWired
<1> QED BY <1>2, <1>3, <1>4, <1>5, <1>6, <1>7, <1>8 DEF Inv

LEMMA LoadStep == Inv /\ loadEngineEntry => Inv'
<1> SUFFICES ASSUME Inv, loadEngineEntry PROVE Inv'
  OBVIOUS
<1>1. /\ run'.retire = {} /\ run'.grant = 0 /\ run'.before = NoFile
      /\ run'.backup = NoFile /\ run'.attempt = 0
      /\ \/ run'.pc = "idle" /\ run'.outcome = "refused" /\ run'.entries = {}
         \/ /\ run'.pc = "detect" /\ run'.outcome = "none"
            /\ run'.entries = {Connector} \cup (Engines \cap {descriptor})
  BY DEF loadEngineEntry, Idle
<1>2. run' \in [pc : Pcs, outcome : Outcomes, entries : SUBSET Names,
                retire : SUBSET Names, grant : 0 .. live', before : Files,
                backup : Files, attempt : 0 .. MaxMergeAttempts]
  <2>1. /\ 0 \in 0 .. live' /\ 0 \in 0 .. MaxMergeAttempts
        /\ {Connector} \cup (Engines \cap {descriptor}) \in SUBSET Names
    BY HarnessFileAssumption DEF loadEngineEntry, Inv, TypeOK, Grants, Names
  <2>2. \E e \in SUBSET Names, p \in {"idle", "detect"}, o \in {"none", "refused"} :
          run' = [pc |-> p, outcome |-> o, entries |-> e, retire |-> {}, grant |-> 0,
                  before |-> NoFile, backup |-> NoFile, attempt |-> 0]
    BY <2>1 DEF loadEngineEntry, Idle
  <2> QED BY <2>1, <2>2, NoFileFacts DEF Pcs, Outcomes
<1>3. TypeOK' BY <1>2 DEF Inv, TypeOK, loadEngineEntry
<1>4. RunShape' BY <1>1 DEF RunShape, loadEngineEntry, Granted
<1>5. Copies' BY <1>1, NoFileFacts DEF Inv, Copies, Accounted, loadEngineEntry
<1>6. CheckedFirst' /\ Undisturbed' /\ Retired' /\ ConfiguredIsWired'
  BY <1>1 DEF CheckedFirst, Undisturbed, Retired, ConfiguredIsWired, Checked
<1> QED BY <1>3, <1>4, <1>5, <1>6 DEF Inv

LEMMA DetectStep == Inv /\ detect => Inv'
<1> SUFFICES ASSUME Inv, detect PROVE Inv'
  OBVIOUS
<1>0. live' \in Grants /\ late' \in BOOLEAN
  BY DEF Inv, TypeOK, detect
<1>1. CASE End("failed") \/ End("skipped")
  BY <1>0, <1>1, EndQuietly DEF detect, Outcomes
<1>2. CASE run' = [run EXCEPT !.pc = "preflight", !.retire = record \ run.entries]
  <2>1. /\ run'.pc = "preflight" /\ run'.outcome = run.outcome
        /\ run'.entries = run.entries /\ run'.retire = record \ run.entries
        /\ run'.before = run.before /\ run'.backup = run.backup
    BY <1>2 DEF Inv, TypeOK
  <2>2. TypeOK' BY <1>2 DEF Inv, TypeOK, detect, Pcs
  <2>3. RunShape' BY <2>1 DEF Inv, RunShape, detect, Granted
  <2>4. Copies' BY <2>1 DEF Inv, Copies, Accounted, detect
  <2>5. CheckedFirst' /\ Undisturbed' /\ Retired'
    BY <2>1 DEF CheckedFirst, Undisturbed, Retired, Checked
  <2>6. ConfiguredIsWired' BY <2>1 DEF Inv, RunShape, ConfiguredIsWired, detect
  <2> QED BY <2>2, <2>3, <2>4, <2>5, <2>6 DEF Inv
<1> QED BY <1>1, <1>2 DEF detect

LEMMA PreflightStep == Inv /\ preflight => Inv'
<1> SUFFICES ASSUME Inv, preflight PROVE Inv'
  OBVIOUS
<1>0. live' \in Grants /\ late' \in BOOLEAN /\ late' = late
  BY DEF Inv, TypeOK, preflight
<1>1. CASE End("failed") \/ End("skipped")
  BY <1>0, <1>1, EndQuietly DEF preflight, Outcomes
<1>2. CASE To("issue")
  <2>1. live < MaxGrants /\ run.pc = "preflight"
    BY DEF Inv, RunShape, preflight
  <2> QED BY <1>0, <1>2, <2>1, MoveOn DEF preflight, Pcs, Granted, Checked
<1> QED BY <1>1, <1>2 DEF preflight

LEMMA IssueStep == Inv /\ issueGrant => Inv'
<1> SUFFICES ASSUME Inv, issueGrant PROVE Inv'
  OBVIOUS
<1>0. /\ live < MaxGrants /\ live \in Grants /\ live + 1 \in Grants
      /\ live' \in Grants /\ late' \in BOOLEAN
  BY HarnessFileAssumption DEF Inv, TypeOK, RunShape, issueGrant, Grants
<1>1. CASE End("failed")
  BY <1>0, <1>1, EndQuietly DEF issueGrant, Outcomes
<1>2. CASE /\ run' = [run EXCEPT !.pc = "scope", !.grant = live + 1]
           /\ live' = live + 1
  <2>1. /\ run'.pc = "scope" /\ run'.outcome = run.outcome
        /\ run'.entries = run.entries /\ run'.retire = run.retire
        /\ run'.grant = live'
        /\ run'.before = run.before /\ run'.backup = run.backup
    BY <1>2 DEF Inv, TypeOK
  <2>2. TypeOK'
    <3>1. live + 1 \in 0 .. live'
      BY <1>0, <1>2 DEF Grants
    <3>2. run' \in [pc : Pcs, outcome : Outcomes, entries : SUBSET Names,
                    retire : SUBSET Names, grant : 0 .. live', before : Files,
                    backup : Files, attempt : 0 .. MaxMergeAttempts]
      BY <1>2, <3>1 DEF Inv, TypeOK, Pcs
    <3> QED BY <1>0, <3>2 DEF Inv, TypeOK, issueGrant
  <2>3. RunShape' BY <2>1 DEF Inv, RunShape, issueGrant, Granted
  <2>4. Copies' BY <2>1 DEF Inv, Copies, Accounted, issueGrant
  <2>5. CheckedFirst' /\ Undisturbed' /\ Retired'
    BY <2>1 DEF CheckedFirst, Undisturbed, Retired, Checked
  <2>6. ConfiguredIsWired' BY <2>1 DEF Inv, RunShape, ConfiguredIsWired, issueGrant
  <2> QED BY <2>2, <2>3, <2>4, <2>5, <2>6 DEF Inv
<1> QED BY <1>1, <1>2 DEF issueGrant

LEMMA ScopeStep == Inv /\ assertUserScope => Inv'
<1> SUFFICES ASSUME Inv, assertUserScope PROVE Inv'
  OBVIOUS
<1>0. live' \in Grants /\ late' \in BOOLEAN /\ late' = late
  BY DEF Inv, TypeOK, assertUserScope
<1>1. CASE End("failed")
  BY <1>0, <1>1, EndQuietly DEF assertUserScope, Outcomes
<1>2. CASE To("read")
  BY <1>0, <1>2, MoveOn DEF assertUserScope, Pcs, Granted, Checked
<1> QED BY <1>1, <1>2 DEF assertUserScope

LEMMA ReadStep == Inv /\ read => Inv'
<1> SUFFICES ASSUME Inv, read PROVE Inv'
  OBVIOUS
<1>0. live' \in Grants /\ late' \in BOOLEAN
  BY DEF Inv, TypeOK, read
<1>1. CASE End("failed")
  BY <1>0, <1>1, EndQuietly DEF read, Outcomes
<1>2. CASE run' = [run EXCEPT !.pc = "backup", !.before = file]
  <2>1. /\ run'.pc = "backup" /\ run'.outcome = run.outcome
        /\ run'.entries = run.entries /\ run'.retire = run.retire
        /\ run'.grant = run.grant
        /\ run'.before = file /\ run'.backup = run.backup
    BY <1>2 DEF Inv, TypeOK
  <2>2. TypeOK' BY <1>2 DEF Inv, TypeOK, read, Pcs
  <2>3. RunShape' BY <2>1 DEF Inv, RunShape, read, Granted
  <2>4. Copies' BY <2>1 DEF Inv, Copies, Accounted, read
  <2>5. CheckedFirst' /\ Undisturbed' /\ Retired'
    BY <2>1 DEF CheckedFirst, Undisturbed, Retired, Checked
  <2>6. ConfiguredIsWired' BY <2>1 DEF Inv, RunShape, ConfiguredIsWired, read
  <2> QED BY <2>2, <2>3, <2>4, <2>5, <2>6 DEF Inv
<1> QED BY <1>1, <1>2 DEF read

LEMMA BackupStep == Inv /\ backup => Inv'
<1> SUFFICES ASSUME Inv, backup PROVE Inv'
  OBVIOUS
<1>0. live' \in Grants /\ late' \in BOOLEAN
  BY DEF Inv, TypeOK, backup
<1>1. CASE End("failed") \/ End("skipped")
  BY <1>0, <1>1, EndQuietly DEF backup, Outcomes
<1>2. CASE /\ verify(run.before, after, managed)
           /\ run' = [run EXCEPT !.pc = "look", !.backup = file]
  <2>1. /\ run'.pc = "look" /\ run'.outcome = run.outcome
        /\ run'.entries = run.entries /\ run'.retire = run.retire
        /\ run'.grant = run.grant
        /\ run'.before = run.before /\ run'.backup = file
        /\ after' = after /\ managed' = managed
    BY <1>2 DEF Inv, TypeOK, after, managed
  <2>2. TypeOK' BY <1>2 DEF Inv, TypeOK, backup, Pcs
  <2>3. RunShape' BY <2>1 DEF Inv, RunShape, backup, Granted
  <2>4. Copies' BY <2>1 DEF Inv, Copies, Accounted, backup
  <2>5. CheckedFirst' BY <1>2, <2>1 DEF CheckedFirst
  <2>6. Undisturbed' /\ Retired' BY <2>1 DEF Undisturbed, Retired
  <2>7. ConfiguredIsWired' BY <2>1 DEF Inv, RunShape, ConfiguredIsWired, backup
  <2> QED BY <2>2, <2>3, <2>4, <2>5, <2>6, <2>7 DEF Inv
<1> QED BY <1>1, <1>2 DEF backup

LEMMA LookStep == Inv /\ look => Inv'
<1> SUFFICES ASSUME Inv, look PROVE Inv'
  OBVIOUS
<1>0. /\ live' \in Grants /\ late' \in BOOLEAN /\ run.pc = "look"
      /\ verify(run.before, after, managed)
  BY DEF Inv, TypeOK, look, CheckedFirst, Checked
<1>1. CASE End("failed")
  BY <1>0, <1>1, EndQuietly DEF look, Outcomes
<1>2. CASE SameBytes(file, run.before) /\ To("write") /\ late' = FALSE
  BY <1>0, <1>2, MoveOn DEF look, Pcs, Granted, Checked
<1>3. CASE /\ run.attempt < MaxMergeAttempts
           /\ run' = [run EXCEPT !.pc = "read", !.attempt = @ + 1]
           /\ UNCHANGED late
  <2>1. /\ run'.pc = "read" /\ run'.outcome = run.outcome
        /\ run'.entries = run.entries /\ run'.retire = run.retire
        /\ run'.grant = run.grant
        /\ run'.before = run.before /\ run'.backup = run.backup
    BY <1>3 DEF Inv, TypeOK
  <2>2. TypeOK'
    <3>1. run.attempt + 1 \in 0 .. MaxMergeAttempts
      BY <1>3, HarnessFileAssumption DEF Inv, TypeOK
    <3> QED BY <1>3, <3>1 DEF Inv, TypeOK, look, Pcs
  <2>3. RunShape' BY <2>1 DEF Inv, RunShape, look, Granted
  <2>4. Copies' BY <2>1 DEF Inv, Copies, Accounted, look
  <2>5. CheckedFirst' /\ Undisturbed' /\ Retired'
    BY <2>1 DEF CheckedFirst, Undisturbed, Retired, Checked
  <2>6. ConfiguredIsWired' BY <2>1 DEF Inv, RunShape, ConfiguredIsWired, look
  <2> QED BY <2>2, <2>3, <2>4, <2>5, <2>6 DEF Inv
<1> QED BY <1>1, <1>2, <1>3 DEF look

\* The rename: what the editor made is accounted for by the entries it now owes
\* the record, whether or not the run lives to save them.
LEMMA WriteStep == Inv /\ write => Inv'
<1> SUFFICES ASSUME Inv, write PROVE Inv'
  OBVIOUS
<1>0. /\ live' \in Grants /\ late' \in BOOLEAN /\ run.pc = "write"
      /\ verify(run.before, after, managed)
      /\ unsaved \cup run.entries \in SUBSET Names
  BY DEF Inv, TypeOK, write, CheckedFirst, Checked
<1>1. CASE End("failed") /\ UNCHANGED <<file, unsaved>>
  BY <1>0, <1>1, EndQuietly DEF write, Outcomes
<1>2. CASE file' = after /\ unsaved' = unsaved \cup run.entries
  <2>1. /\ after \in Files
        /\ after.dotted \subseteq after.names
        /\ after.names \subseteq record \cup unsaved \cup run.entries \cup after.dotted
        /\ after.names \cap run.retire \subseteq after.dotted
    BY <1>0, AfterFacts DEF Granted
  <2>2. file' \in Files /\ Accounted(file)' /\ record' = record
    BY <1>2, <2>1 DEF Accounted, write
  <2>3. CASE End("failed")
    BY <1>0, <1>2, <2>2, <2>3, EndKeeps DEF write, Outcomes
  <2>4. CASE To("landed")
    <3>1. /\ run'.pc = "landed" /\ run'.outcome = run.outcome
          /\ run'.entries = run.entries /\ run'.retire = run.retire
          /\ run'.grant = run.grant
          /\ run'.before = run.before /\ run'.backup = run.backup
          /\ after' = after /\ managed' = managed
      BY <2>4, ToFacts DEF Inv, Pcs
    <3>2. TypeOK'
      <4>1. run' \in [pc : Pcs, outcome : Outcomes, entries : SUBSET Names,
                      retire : SUBSET Names, grant : 0 .. live', before : Files,
                      backup : Files, attempt : 0 .. MaxMergeAttempts]
        BY <2>4 DEF Inv, TypeOK, write, To, Pcs
      <4> QED BY <1>0, <1>2, <2>2, <4>1 DEF Inv, TypeOK, write, Accounted
    <3>3. RunShape' BY <1>0, <3>1 DEF Inv, RunShape, write, Granted
    <3>4. Copies' BY <1>2, <2>2, <3>1 DEF Inv, Copies, Accounted
    <3>5. CheckedFirst' BY <1>0, <3>1 DEF CheckedFirst
    <3>6. Undisturbed' BY <1>2, <3>1 DEF Undisturbed
    <3>7. Retired' BY <1>2, <2>1, <3>1 DEF Retired
    <3>8. ConfiguredIsWired'
      BY <1>0, <3>1 DEF Inv, RunShape, ConfiguredIsWired
    <3> QED BY <3>2, <3>3, <3>4, <3>5, <3>6, <3>7, <3>8 DEF Inv
  <2> QED BY <1>2, <2>3, <2>4, <1>1 DEF write
<1> QED BY <1>1, <1>2 DEF write

LEMMA ReadBackStep == Inv /\ readBack => Inv'
<1> SUFFICES ASSUME Inv, readBack PROVE Inv'
  OBVIOUS
<1>0. /\ live' \in Grants /\ late' \in BOOLEAN /\ late' = late /\ run.pc = "landed"
      /\ verify(run.before, after, managed)
      /\ ~late => file = after
  BY DEF Inv, TypeOK, readBack, CheckedFirst, Checked, Undisturbed
<1>1. CASE End("failed")
  BY <1>0, <1>1, EndQuietly DEF readBack, Outcomes
<1>2. CASE To("save")
  BY <1>0, <1>2, MoveOn DEF readBack, Pcs, Granted, Checked
<1>3. CASE file.there /\ ~verify(run.before, file, managed) /\ To("rollback")
  <2>1. late BY <1>0, <1>3
  <2> QED BY <1>0, <1>3, <2>1, MoveOn DEF readBack, Pcs, Granted, Checked
<1> QED BY <1>1, <1>2, <1>3 DEF readBack

LEMMA RestoreStep == Inv /\ restoreFromBackup => Inv'
<1> SUFFICES ASSUME Inv, restoreFromBackup PROVE Inv'
  OBVIOUS
<1>1. file' \in Files /\ Accounted(file)'
  BY DEF Inv, TypeOK, Copies, Accounted, restoreFromBackup
<1>2. live' \in Grants /\ late' \in BOOLEAN /\ unsaved' \in SUBSET Names
  BY DEF Inv, TypeOK, restoreFromBackup
<1> QED BY <1>1, <1>2, EndKeeps DEF restoreFromBackup, Outcomes

\* The record is replaced: what it no longer names is what the run retired, and
\* of that nothing is left that an editor could have cut.
LEMMA SaveRecordStep == Inv /\ saveRecord => Inv'
<1> SUFFICES ASSUME Inv, saveRecord PROVE Inv'
  OBVIOUS
<1>0. live' \in Grants /\ late' \in BOOLEAN /\ late' = late /\ run.pc = "save"
  BY DEF Inv, TypeOK, saveRecord
<1>1. CASE End("failed") /\ UNCHANGED <<record, unsaved>>
  BY <1>0, <1>1, EndQuietly DEF saveRecord, Outcomes
<1>2. CASE /\ record' = run.entries /\ unsaved' = unsaved \ run.entries
           /\ End("configured") \/ End("failed")
  <2>1. PICK o \in {"configured", "failed"} : End(o)
    BY <1>2
  <2>2. run' = [pc |-> "idle", outcome |-> o, entries |-> run.entries, retire |-> {},
                grant |-> 0, before |-> NoFile, backup |-> NoFile, attempt |-> 0]
    BY <2>1 DEF End, Idle
  <2>3. TypeOK'
    <3>1. run' \in [pc : Pcs, outcome : Outcomes, entries : SUBSET Names,
                    retire : SUBSET Names, grant : 0 .. live', before : Files,
                    backup : Files, attempt : 0 .. MaxMergeAttempts]
      BY <2>2, <1>0, NoFileFacts, HarnessFileAssumption
         DEF Inv, TypeOK, Pcs, Outcomes, Grants
    <3> QED BY <1>2, <3>1 DEF Inv, TypeOK, saveRecord
  <2>4. Copies'
    <3>1. /\ run.retire = record \ run.entries
          /\ file.names \cap run.retire \subseteq file.dotted
          /\ file.dotted \subseteq file.names
          /\ file.names \subseteq record \cup unsaved \cup file.dotted
      BY <1>0 DEF Inv, RunShape, Retired, Copies, Accounted
    <3>2. Accounted(file)' BY <1>2, <3>1 DEF Accounted, saveRecord
    <3> QED BY <2>2, <3>2, NoFileFacts DEF Copies, Accounted
  <2>5. RunShape' /\ CheckedFirst' /\ Undisturbed' /\ Retired'
    BY <2>2 DEF RunShape, CheckedFirst, Undisturbed, Retired, Granted, Checked
  <2>6. ConfiguredIsWired'
    <3>1. SUFFICES ASSUME ~late PROVE ConfiguredIsWired'
      BY <1>0 DEF ConfiguredIsWired
    <3>2. file = after /\ verify(run.before, after, managed)
      BY <1>0, <3>1 DEF Inv, Undisturbed, CheckedFirst, Checked
    <3>3. file.there /\ file.sound /\ run.entries \subseteq file.names /\ file.token = live
      BY <1>0, <3>2, AfterFacts DEF Granted, verify
    <3> QED BY <1>2, <2>2, <3>3 DEF ConfiguredIsWired, saveRecord
  <2> QED BY <2>3, <2>4, <2>5, <2>6 DEF Inv
<1> QED BY <1>1, <1>2 DEF saveRecord

LEMMA DieStep == Inv /\ die => Inv'
<1> SUFFICES ASSUME Inv, die PROVE Inv'
  OBVIOUS
<1>1. live' \in Grants /\ late' \in BOOLEAN
  BY DEF Inv, TypeOK, die
<1> QED BY <1>1, EndQuietly DEF die, Outcomes

\* Somebody else writes the file.  Nothing the run relies on is about the file
\* any more, except that no entry comes back.
LEMMA OthersKeep ==
    ASSUME Inv, UNCHANGED <<record, descriptor, live, run, unsaved>>, late' = TRUE,
           file' \in Files, file'.dotted \subseteq file'.names,
           file'.names \subseteq file.names, file.dotted \cap file'.names \subseteq file'.dotted
    PROVE  Inv'
<1>1. after' = after /\ managed' = managed
  BY DEF after, managed
<1>2. TypeOK' BY DEF Inv, TypeOK
<1>3. RunShape' BY DEF Inv, RunShape
<1>4. Copies' BY DEF Inv, Copies, Accounted
<1>5. CheckedFirst' BY <1>1 DEF Inv, CheckedFirst
<1>6. Undisturbed' BY DEF Inv, Undisturbed
<1>7. Retired' BY DEF Inv, Retired
<1>8. ConfiguredIsWired' BY DEF ConfiguredIsWired
<1> QED BY <1>2, <1>3, <1>4, <1>5, <1>6, <1>7, <1>8 DEF Inv

LEMMA OthersStep == Inv /\ (Save \/ Break \/ Delete \/ Reformat) => Inv'
<1> SUFFICES ASSUME Inv, Save \/ Break \/ Delete \/ Reformat PROVE Inv'
  OBVIOUS
<1>0. file \in Files /\ file.dotted \subseteq file.names
  BY DEF Inv, TypeOK
<1>1. /\ file' \in Files /\ file'.dotted \subseteq file'.names
      /\ file'.names \subseteq file.names /\ file.dotted \cap file'.names \subseteq file'.dotted
  <2>1. CASE Save
    <3>1. PICK c \in Contents, keep \in BOOLEAN :
            file' = IF keep THEN [file EXCEPT !.there = TRUE, !.sound = TRUE, !.foreign = c]
                    ELSE [NoFile EXCEPT !.there = TRUE, !.foreign = c]
      BY <2>1 DEF Save
    <3>2. CASE keep BY <1>0, <3>1, <3>2 DEF Files
    <3>3. CASE ~keep BY <1>0, <3>1, <3>3, NoFileFacts DEF Files
    <3> QED BY <3>2, <3>3
  <2>2. CASE Break BY <1>0, <2>2 DEF Break, Files
  <2>3. CASE Delete BY <1>0, <2>3, NoFileFacts DEF Delete
  <2>4. CASE Reformat BY <1>0, <2>4 DEF Reformat, Files
  <2> QED BY <2>1, <2>2, <2>3, <2>4
<1> QED BY <1>1, OthersKeep DEF Save, Break, Delete, Reformat

\* A step that touches neither the file nor the run.
LEMMA QuietStep ==
    ASSUME Inv, UNCHANGED <<file, record, live, run, late, unsaved>>,
           descriptor' \in Engines \cup {"none", "unusable"}
    PROVE  Inv'
<1>1. after' = after /\ managed' = managed
  BY DEF after, managed
<1> QED BY <1>1 DEF Inv, TypeOK, RunShape, Copies, Accounted, CheckedFirst,
                    Undisturbed, Retired, ConfiguredIsWired

LEMMA StepInv == Inv /\ [Next]_vars => Inv'
<1> SUFFICES ASSUME Inv, [Next]_vars PROVE Inv'
  OBVIOUS
<1>1. CASE RunStep
  BY <1>1, LoadStep, DetectStep, PreflightStep, IssueStep, ScopeStep, ReadStep,
     BackupStep, LookStep, WriteStep, ReadBackStep, RestoreStep, SaveRecordStep
     DEF RunStep
<1>2. CASE die BY <1>2, DieStep
<1>3. CASE Save \/ Break \/ Delete \/ Reformat BY <1>3, OthersStep
<1>4. CASE Publish BY <1>4, QuietStep DEF Publish
<1>5. CASE UNCHANGED vars
  BY <1>5, QuietStep DEF vars, Inv, TypeOK
<1> QED BY <1>1, <1>2, <1>3, <1>4, <1>5 DEF Next

-----------------------------------------------------------------------------
(***************************************************************************)
(* Theorems.                                                                *)
(***************************************************************************)

\* The inductive invariant holds in every reachable state, however the runs and
\* the other writers of the file interleave (configure.go, writer.go).
THEOREM Invariance == Spec => []Inv
<1>1. Inv /\ [Next]_vars => Inv'
  BY StepInv
<1> QED BY InitInv, <1>1, PTL DEF Spec

\* Every reachable state is well typed; in particular the merge never starts more
\* often than maxMergeAttempts allows, and no run writes a grant the server did
\* not issue (writer.go:131-134).
THEOREM TypeCorrect == Spec => []TypeOK
<1>1. Inv => TypeOK
  BY DEF Inv
<1> QED BY Invariance, <1>1, PTL

\* A harness reported as configured carries the newest grant in its file, whatever
\* was killed, lost or rolled back before, as long as nobody else wrote the file
\* since the run's last look (configure.go:74-76).
THEOREM ConfiguredStaysWired == Spec => []ConfiguredIsWired
<1>1. Inv => ConfiguredIsWired
  BY DEF Inv
<1> QED BY Invariance, <1>1, PTL

\* No entry is orphaned: every one is on record, unsaved because its run ended
\* between rename and saveRecord, or in a form the editor does not cut
\* (configure.go:343-345).
THEOREM EntriesAreAccountedFor == Spec => []NoOrphans
<1>1. Inv => NoOrphans
  BY DEF Inv, Copies, Accounted, NoOrphans
<1> QED BY Invariance, <1>1, PTL

\* The step of a run behind EditsSurvive: the rename keeps what is outside, and
\* only a rollback, which needs another writer to happen, does not.
LEMMA StepSpares ==
    ASSUME Inv, [Next]_vars, run' # run, Outside(file') # Outside(file)
    PROVE  late
<1>1. ~UNCHANGED file /\ ~UNCHANGED run
  BY DEF Outside
<1>2. write \/ restoreFromBackup
  BY <1>1 DEF vars, Next, RunStep, loadEngineEntry, detect, preflight, issueGrant,
     assertUserScope, read, backup, look, readBack, saveRecord, die, Save, Break,
     Delete, Reformat, Publish
<1>3. CASE restoreFromBackup
  BY <1>3 DEF Inv, Undisturbed, restoreFromBackup
<1>4. CASE write
  <2>1. SUFFICES ASSUME ~late PROVE FALSE
    OBVIOUS
  <2>2. /\ file' = after /\ run.pc = "write"
        /\ SameBytes(file, run.before) /\ verify(run.before, after, managed)
    BY <1>1, <1>4, <2>1 DEF write, Inv, Undisturbed, CheckedFirst, Checked
  <2>3. file.sound = run.before.sound /\ file.foreign = run.before.foreign
    <3> DEFINE f == [file EXCEPT !.there = TRUE]
               g == [run.before EXCEPT !.there = TRUE]
    <3>1. f.sound = file.sound /\ f.foreign = file.foreign
      BY DEF Inv, TypeOK, Files
    <3>2. g.sound = run.before.sound /\ g.foreign = run.before.foreign
      BY DEF Inv, TypeOK, Files
    <3>3. f = g BY <2>2 DEF SameBytes
    <3> QED BY <3>1, <3>2, <3>3
  <2>4. after.foreign = run.before.foreign /\ after.sound /\ run.before.sound
    BY <2>2, AfterFacts DEF verify, Granted
  <2>5. after.sound \in BOOLEAN /\ run.before.sound \in BOOLEAN
    BY <2>2, AfterFacts DEF Granted, Files, Inv, TypeOK
  <2>6. after.sound = run.before.sound BY <2>4, <2>5
  <2>7. Outside(file') = Outside(file)
    BY <2>2, <2>3, <2>4, <2>6 DEF Outside
  <2> QED BY <2>7
<1> QED BY <1>2, <1>3, <1>4

\* A run overwrites what is not Homeplane's only over an edit that landed after
\* its last look at the file: on every attempt, after every restart, and in the
\* rollback (writer.go:109).
THEOREM EditsAlwaysSurvive == Spec => EditsSurvive
<1>1. Inv /\ [Next]_vars => [run' # run /\ Outside(file') # Outside(file) => late]_vars
  BY StepSpares
<1> QED BY Invariance, <1>1, PTL DEF Spec, EditsSurvive

=============================================================================
