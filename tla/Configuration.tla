---------------------------- MODULE Configuration ----------------------------
(***************************************************************************)
(* The desktop app's configuration: how it starts (files brought over from *)
(* the old location, config.yaml written when there is none, settings and  *)
(* secrets layered over it, audit policies switched on), and how the       *)
(* Settings tab's Save button changes the live configuration, the files    *)
(* and, field by field, the settings that the rules, the notifications and *)
(* the correlation are judged by in the collector thread.                  *)
(*                                                                         *)
(* Settings are functions of Fields; "rules" stands for the detections     *)
(* section, which engine.configure puts in force at once.                  *)
(***************************************************************************)
EXTENDS Integers, Sequences

CONSTANTS
    Choices,      \* settings the dialog may hold
    Default,      \* those of DEFAULT_CONFIG
    OldDirs,      \* what the old location may hold: functions of Files
    AuditsOf,     \* AuditsOf[rules]: the audit policies that the enabled rules need
    None, Absent, Torn,   \* no key; no file; a file cut off while it was written
    MaxSaves, MaxFaults, MaxCrashes   \* bounds

ASSUME BoundsAssumption == {MaxSaves, MaxFaults, MaxCrashes} \subseteq Nat

\* alerts.configure and correlation.configure set their fields in this order,
\* after engine.configure.  Mutant: one field is forgotten.
WithoutSignals == <<"rules", "notify", "min_severity", "correlate", "window">>
WriteOrder == <<"rules", "notify", "min_severity", "correlate", "window", "signals">>

\* The order in which evaluate_event, _maybe_notify and check read them.
ReadOrder == <<"rules", "min_severity", "notify", "correlate", "window", "signals">>

LiveFields == {ReadOrder[i] : i \in 1..Len(ReadOrder)}
Fields == LiveFields \cup {"poll", "theme", "key"}

\* MIGRATE_FILES
Migrated == <<"config.yaml", "user_settings.yaml", "secrets.yaml", "siem.db">>
Files == {Migrated[i] : i \in 1..Len(Migrated)}

\* Settings have all fields; they and a key are not what stands for a missing file or
\* for one that was cut off.
ASSUME FilesAssumption == Absent # Torn
ASSUME SettingsAssumption ==
    \A s \in Choices \cup {Default} :
        /\ s = [f \in Fields |-> s[f]]
        /\ {[f \in Fields \ {"key"} |-> s[f]], s["key"]} \cap {Absent, Torn} = {}

VARIABLES
    old,         \* the files at the old location
    disk,        \* the files in the data directory
    audit,       \* the audit policies that are on, in Windows
    \* the main thread of the app
    pc,
    at,          \* the file it migrates, or the live field it sets
    config,      \* the configuration dictionary
    live,        \* the settings in engine, alerts and correlation
    poll,        \* the interval the collector thread was started with
    theme,       \* the theme on the screen
    status,      \* what the Settings tab says of the last save
    \* the collector thread
    reads,       \* the settings it has read for the event it judges
    saves, faults, crashes,
    applied,     \* history: the settings of the last start or completed save
    span,        \* history: the settings in force at some time since the first read
    written,     \* history: what each file was last given in full, by a save or else
                 \* by the first copy
    unaudited    \* history: the policies auditpol failed to switch on, last time

memory == <<config, live, poll, theme, applied, unaudited>>
counts == <<saves, faults, crashes>>
vars == <<old, disk, audit, pc, at, memory, status, reads, span, counts, written>>

LivePart(settings) == [f \in LiveFields |-> settings[f]]

Init ==
    /\ old \in OldDirs
    /\ disk = [f \in Files |-> Absent] /\ written = disk
    /\ audit = {}
    /\ pc = "off" /\ at = 1
    /\ config = Default /\ live = LivePart(Default) /\ applied = Default
    /\ poll = Default["poll"] /\ theme = Default["theme"]
    /\ unaudited = {} /\ status = "" /\ reads = <<>> /\ span = {}
    /\ saves = 0 /\ faults = 0 /\ crashes = 0

\* open(path, "w"): the file is empty until its text is written.
Truncate(file) == disk' = [disk EXCEPT ![file] = Torn] /\ UNCHANGED written

Write(file, content) ==
    /\ disk' = [disk EXCEPT ![file] = content]
    /\ written' = [written EXCEPT ![file] = content]

Fault == faults < MaxFaults /\ faults' = faults + 1 /\ UNCHANGED <<saves, crashes>>

Goto(label) == pc' = label

-----------------------------------------------------------------------------
(* main *)

BootVars == <<old, memory, status, reads, span, audit>>

\* prepare_data_dir: secure_directory, then migrate_old_files from the first file.
PrepareDataDir ==
    /\ pc = "off"
    /\ Goto("migrate") /\ at' = 1
    /\ UNCHANGED <<BootVars, disk, written, counts>>

\* Mutant: what is there already is overwritten.
WantedAgain(file) == old[file] # Absent

Wanted(file) == disk[file] = Absent /\ old[file] # Absent

CopyFile ==
    /\ pc = "migrate" /\ at <= Len(Migrated)
    /\ IF Wanted(Migrated[at])
       THEN Truncate(Migrated[at]) /\ Goto("copy") /\ UNCHANGED at
       ELSE at' = at + 1 /\ UNCHANGED <<disk, written, pc>>
    /\ UNCHANGED <<BootVars, counts>>

CopyEnds ==
    /\ pc = "copy"
    /\ disk' = [disk EXCEPT ![Migrated[at]] = old[Migrated[at]]]
    /\ written' = [written EXCEPT ![Migrated[at]] = IF @ = Absent THEN old[Migrated[at]] ELSE @]
    /\ Goto("migrate") /\ at' = at + 1
    /\ UNCHANGED <<BootVars, counts>>

EnsureConfig ==
    /\ pc = "migrate" /\ at > Len(Migrated)
    /\ IF disk["config.yaml"] = Absent
       THEN Truncate("config.yaml") /\ Goto("default")
       ELSE Goto("load") /\ UNCHANGED <<disk, written>>
    /\ UNCHANGED <<BootVars, at, counts>>

WriteDefault ==
    /\ pc = "default"
    /\ Write("config.yaml", Default)
    /\ Goto("load")
    /\ UNCHANGED <<BootVars, at, counts>>

\* Mutant: an empty settings file is not taken for an empty dictionary.
LoadableOnlyFull == disk["config.yaml"] # Torn /\ disk["user_settings.yaml"] # Torn

\* An empty config.yaml loads as None, on which main raises; empty settings and
\* secrets load as {}.
Loadable == disk["config.yaml"] # Torn

Holds(file) == disk[file] \notin {Absent, Torn}

\* The settings layered over config.yaml; the key from secrets.yaml alone.
Loaded ==
    [f \in Fields |->
        IF f = "key" THEN IF Holds("secrets.yaml") THEN disk["secrets.yaml"] ELSE None
        ELSE IF Holds("user_settings.yaml") THEN disk["user_settings.yaml"][f]
        ELSE disk["config.yaml"][f]]

Load ==
    /\ pc = "load"
    /\ IF Loadable THEN config' = Loaded /\ Goto("start")
       ELSE UNCHANGED config /\ Goto("off")
    /\ UNCHANGED <<old, live, poll, theme, applied, unaudited, status, reads, span, audit,
                   at, disk, written, counts>>

\* ensure_*_auditing_enabled for each rule that needs it: a check, then a set that
\* may fail, which nobody is told of.
EnsureAudit(rules) ==
    LET needed == AuditsOf[rules] \ audit
    IN \/ audit' = audit \cup needed /\ unaudited' = {} /\ UNCHANGED counts
       \/ /\ needed # {} /\ Fault
          /\ \E failed \in SUBSET needed \ {{}} :
                audit' = audit \cup (needed \ failed) /\ unaudited' = failed

\* The rest of main: the policies, the three configure calls, the database, and the
\* collector thread.  A database file that was cut off may be one that cannot be
\* opened, or empty and taken for a new one.
Start ==
    /\ pc = "start"
    /\ EnsureAudit(config["rules"])
    /\ live' = LivePart(config)
    /\ poll' = config["poll"] /\ theme' = config["theme"]
    /\ \/ disk["siem.db"] = Torn /\ Goto("off") /\ UNCHANGED <<disk, written, applied>>
       \/ /\ Goto("idle") /\ applied' = config
          /\ IF Holds("siem.db") THEN UNCHANGED <<disk, written>>
             ELSE Write("siem.db", "db")
    /\ UNCHANGED <<old, at, config, status, reads, span>>

\* An operation on a file or a directory raises, and main ends.
StartFails ==
    /\ pc \in {"off", "migrate", "copy", "default"}
    /\ Fault
    /\ Goto("off")
    /\ UNCHANGED <<BootVars, at, disk, written>>

-----------------------------------------------------------------------------
(* _do_save_settings *)

\* A number cannot be read: the early return.
InvalidNumber ==
    /\ pc = "idle" /\ status # "invalid"
    /\ status' = "invalid"
    /\ UNCHANGED <<old, disk, audit, pc, at, memory, reads, span, counts, written>>

\* The live dictionary is changed before anything is saved.
Save(choice) ==
    /\ pc = "idle" /\ saves < MaxSaves
    /\ saves' = saves + 1
    /\ config' = choice
    /\ Goto("settings")
    /\ UNCHANGED <<old, disk, audit, at, live, poll, theme, applied, unaudited, status,
                   reads, span, faults, crashes, written>>

SaveVars == <<old, audit, at, memory, status, reads, span, counts>>

Overlay == [f \in Fields \ {"key"} |-> config[f]]

SaveUserSettings ==
    \/ /\ pc = "settings"
       /\ Truncate("user_settings.yaml") /\ Goto("dump settings")
       /\ UNCHANGED SaveVars
    \/ /\ pc = "dump settings"
       /\ Write("user_settings.yaml", Overlay) /\ Goto("secrets")
       /\ UNCHANGED SaveVars

\* Mutant: without a key the secrets are left alone.
SaveSecretsIfKey ==
    \/ /\ pc = "secrets" /\ config["key"] # None
       /\ Truncate("secrets.yaml") /\ Goto("dump secrets")
       /\ UNCHANGED SaveVars
    \/ /\ pc = "secrets" /\ config["key"] = None
       /\ Goto("apply") /\ at' = 1
       /\ span' = IF reads = <<>> THEN {} ELSE span \cup {config}
       /\ UNCHANGED <<old, disk, audit, memory, status, reads, counts, written>>
    \/ /\ pc = "dump secrets"
       /\ Write("secrets.yaml", config["key"])
       /\ Goto("apply") /\ at' = 1
       /\ span' = IF reads = <<>> THEN {} ELSE span \cup {config}
       /\ UNCHANGED <<old, audit, memory, status, reads, counts>>

SaveSecrets ==
    \/ /\ pc = "secrets"
       /\ Truncate("secrets.yaml") /\ Goto("dump secrets")
       /\ UNCHANGED SaveVars
    \/ /\ pc = "dump secrets"
       /\ Write("secrets.yaml", config["key"])
       /\ Goto("apply") /\ at' = 1
       /\ span' = IF reads = <<>> THEN {} ELSE span \cup {config}
       /\ UNCHANGED <<old, audit, memory, status, reads, counts>>

\* Writing a file raises: _save_settings catches it.
SaveFails ==
    /\ pc \in {"settings", "dump settings", "secrets", "dump secrets"}
    /\ Fault
    /\ status' = "wrong" /\ Goto("idle")
    /\ UNCHANGED <<old, disk, audit, at, memory, reads, span, written>>

\* engine.configure, alerts.configure and correlation.configure, one field a step.
Configure ==
    /\ pc = "apply" /\ at <= Len(WriteOrder)
    /\ live' = [live EXCEPT ![WriteOrder[at]] = config[WriteOrder[at]]]
    /\ at' = at + 1
    /\ UNCHANGED <<old, disk, audit, pc, config, poll, theme, applied, unaudited, status,
                   reads, span, counts, written>>

\* The end of the handler.  A change of theme rebuilds the window, whose message
\* takes the place of the advice to restart.
FinishSave ==
    /\ pc = "apply" /\ at > Len(WriteOrder)
    /\ EnsureAudit(config["rules"])
    /\ applied' = config
    /\ theme' = config["theme"]
    /\ status' = IF config["theme"] # theme THEN "theme switched"
                 ELSE IF config["poll"] # poll THEN "saved, restart" ELSE "saved"
    /\ Goto("idle")
    /\ UNCHANGED <<old, disk, at, config, live, poll, reads, span, written>>

Booting == {"off", "migrate", "copy", "default", "load", "start"}

-----------------------------------------------------------------------------
(* The collector thread judges an event *)

Read ==
    /\ pc \notin Booting /\ Len(reads) < Len(ReadOrder)
    /\ reads' = Append(reads, live[ReadOrder[Len(reads) + 1]])
    /\ span' = IF reads # <<>> THEN span
               ELSE {applied} \cup (IF pc = "apply" THEN {config} ELSE {})
    /\ UNCHANGED <<old, disk, audit, pc, at, memory, status, counts, written>>

JudgementEnds ==
    /\ Len(reads) = Len(ReadOrder)
    /\ reads' = <<>> /\ span' = {}
    /\ UNCHANGED <<old, disk, audit, pc, at, memory, status, counts, written>>

\* The process ends; what it held in memory is gone.
Crash ==
    /\ pc # "off" /\ crashes < MaxCrashes
    /\ crashes' = crashes + 1
    /\ Goto("off") /\ at' = 1
    /\ config' = Default /\ live' = LivePart(Default) /\ applied' = Default
    /\ poll' = Default["poll"] /\ theme' = Default["theme"]
    /\ unaudited' = {} /\ status' = "" /\ reads' = <<>> /\ span' = {}
    /\ UNCHANGED <<old, disk, audit, saves, faults, written>>

Boot == PrepareDataDir \/ CopyFile \/ CopyEnds \/ EnsureConfig \/ WriteDefault \/ Load \/ Start

Next ==
    \/ Boot \/ StartFails
    \/ \E choice \in Choices : Save(choice)
    \/ InvalidNumber \/ SaveUserSettings \/ SaveSecrets \/ SaveFails
    \/ Configure \/ FinishSave
    \/ Read \/ JudgementEnds
    \/ Crash

Spec == Init /\ [][Next]_vars

\* The user keeps starting the app, and a start that was begun goes on.
FairSpec == Spec /\ WF_vars(Boot)

-----------------------------------------------------------------------------
(* Properties *)

\* What the window reports as saved is in force everywhere and on disk, and the next
\* start brings it back: the rules, the notifications and the correlation run on
\* it, and the interval of the collector does, or the user is told to restart.
\* The advice is missing only when a new theme's message took its place.  And the
\* rules that are on have the audit policies they need, but for those that auditpol
\* failed to switch on the last time.
SavedSurvives ==
    pc = "idle" /\ status \in {"saved", "saved, restart", "theme switched"} =>
        /\ Loaded = config
        /\ \A f \in LiveFields : live[f] = config[f]
        /\ theme = config["theme"]
        /\ poll # config["poll"] => status \in {"saved, restart", "theme switched"}
        /\ AuditsOf[live["rules"]] \subseteq audit \cup unaudited

\* After a start, whatever crashes and failed saves went before, the settings in
\* force are the last ones that were written in full, or those of config.yaml
\* when the file was cut off; and likewise the key.
NewestOrDefault ==
    pc = "idle" /\ status = "" =>
        /\ LET file == IF \/ disk["user_settings.yaml"] = Torn
                          \/ written["user_settings.yaml"] = Absent
                       THEN "config.yaml" ELSE "user_settings.yaml"
           IN \A f \in Fields \ {"key"} : config[f] = written[file][f]
        /\ config["key"] = IF disk["secrets.yaml"] = Torn
                              \/ written["secrets.yaml"] = Absent
                           THEN None ELSE written["secrets.yaml"]

\* Each setting by which an event is judged belongs to settings that were in force,
\* or being put in force, at some time while it was judged: when no save overlaps,
\* all belong to the last ones that were saved or loaded, whatever a save that
\* failed has left in the live dictionary.
JudgedBySettingsInForce ==
    \A i \in 1..Len(reads) : \E s \in span : reads[i] = s[ReadOrder[i]]

\* The app can always be started again, unless config.yaml or the database was cut
\* off in the middle of the first start.
StartsUnlessTorn ==
    \/ []<>(pc \notin Booting)
    \/ <>[](disk["config.yaml"] = Torn \/ disk["siem.db"] = Torn)
=============================================================================
