---------------------------- MODULE InterfaceProofs ----------------------------
(***************************************************************************)
(* Proofs about the two user interfaces: the settings of the desktop app   *)
(* (Configuration) and the pages of the web dashboard (Polling).           *)
(*                                                                         *)
(* The first part is for all settings and whatever the old location holds: *)
(* what a start brings back, what a save that was reported means, and that *)
(* no event is judged by settings nobody put in force.  The second is for  *)
(* any number of calls that overlap on a page, of rows and of filters:     *)
(* there is one poll at a time, an alert is announced once, and on the     *)
(* overview no older answer is drawn over a newer one.                     *)
(***************************************************************************)
EXTENDS Configuration, Polling, SequenceTheorems, FiniteSetTheorems, TLAPS

-----------------------------------------------------------------------------
(* The settings of the desktop app *)

Saving == {"settings", "dump settings", "secrets", "dump secrets", "apply"}

Content == {"config.yaml", "user_settings.yaml", "secrets.yaml"}

\* The fields that a save in progress has put in force so far.
Applied ==
    pc = "apply" =>
        \A j \in 1..Len(WriteOrder) : j < at => live[WriteOrder[j]] = config[WriteOrder[j]]

\* The shape of the state.
ShapeInv ==
    /\ pc \in Booting \cup Saving \cup {"idle"}
    /\ at \in Nat /\ at >= 1
    /\ pc = "copy" => at <= Len(Migrated)
    /\ DOMAIN disk = Files /\ DOMAIN written = Files /\ DOMAIN live = LiveFields
    /\ Applied

\* The collector reads only while the app runs, and a start says nothing of a save.
QuietInv == pc \in Booting => status = "" /\ reads = <<>>

\* Every step is one of these.
LEMMA Steps ==
  ASSUME [Next]_vars
  PROVE  \/ UNCHANGED vars
         \/ PrepareDataDir \/ CopyFile \/ CopyEnds \/ EnsureConfig \/ WriteDefault \/ Load \/ Start
         \/ StartFails \/ InvalidNumber \/ SaveUserSettings \/ SaveSecrets \/ SaveFails
         \/ Configure \/ FinishSave \/ Read \/ JudgementEnds \/ Crash
         \/ \E choice \in Choices : Save(choice)
  BY DEF Next, Boot

\* The fields and files by name, and the order the fields are set in covers them.
LEMMA Names ==
  /\ LiveFields = {"rules", "notify", "min_severity", "correlate", "window", "signals"}
  /\ LiveFields \subseteq Fields /\ "key" \in Fields /\ "key" \notin LiveFields
  /\ Len(WriteOrder) = 6 /\ Len(ReadOrder) = 6 /\ Len(Migrated) = 4
  /\ \A j \in 1..6 : WriteOrder[j] \in LiveFields /\ ReadOrder[j] \in LiveFields
  /\ \A f \in LiveFields : \E j \in 1..6 : WriteOrder[j] = f
  /\ Files = Content \cup {"siem.db"} /\ \A j \in 1..4 : Migrated[j] \in Files
  <1>1. Len(WriteOrder) = 6 /\ Len(ReadOrder) = 6 /\ Len(Migrated) = 4
    BY DEF WriteOrder, ReadOrder, Migrated
  <1>2. LiveFields = {"rules", "notify", "min_severity", "correlate", "window", "signals"}
    BY <1>1 DEF LiveFields, ReadOrder
  <1>3. \A j \in 1..6 : WriteOrder[j] \in LiveFields /\ ReadOrder[j] \in LiveFields
    BY <1>2 DEF WriteOrder, ReadOrder
  <1>4. /\ WriteOrder[1] = "rules" /\ WriteOrder[2] = "notify" /\ WriteOrder[3] = "min_severity"
        /\ WriteOrder[4] = "correlate" /\ WriteOrder[5] = "window" /\ WriteOrder[6] = "signals"
    BY DEF WriteOrder
  <1>5. \A f \in LiveFields : \E j \in 1..6 : WriteOrder[j] = f
    BY <1>2, <1>4
  <1>6. Files = Content \cup {"siem.db"}
    BY <1>1 DEF Files, Migrated, Content
  <1>7. \A j \in 1..4 : Migrated[j] \in Files
    BY <1>1 DEF Files
  <1>8. LiveFields \subseteq Fields /\ "key" \in Fields /\ "key" \notin LiveFields
    BY <1>2 DEF Fields
  <1> QED BY <1>1, <1>2, <1>3, <1>5, <1>6, <1>7, <1>8

LEMMA ShapeInit == Init => ShapeInv
  <1> SUFFICES ASSUME Init PROVE ShapeInv
    OBVIOUS
  <1>1. DOMAIN disk = Files /\ DOMAIN written = Files /\ DOMAIN live = LiveFields
    BY DEF Init, LivePart
  <1>2. at = 1 /\ pc = "off"
    BY DEF Init
  <1> QED BY <1>1, <1>2 DEF ShapeInv, Applied, Booting

LEMMA ShapeNext == ShapeInv /\ [Next]_vars => ShapeInv'
  <1> SUFFICES ASSUME ShapeInv, [Next]_vars PROVE ShapeInv'
    OBVIOUS
  <1> USE DEF Booting, Saving
  <1>n. Len(WriteOrder) = 6 /\ Len(Migrated) = 4 /\ \A j \in 1..6 : WriteOrder[j] \in LiveFields
    BY Names
  \* Enough to show.
  <1>0. ASSUME pc' \in Booting \cup Saving \cup {"idle"}, at' \in Nat /\ at' >= 1,
               pc' = "copy" => at' <= Len(Migrated),
               DOMAIN disk' = Files, DOMAIN written' = Files, DOMAIN live' = LiveFields,
               Applied'
        PROVE  ShapeInv'
    BY <1>0 DEF ShapeInv
  <1>a. /\ pc \in Booting \cup Saving \cup {"idle"} /\ at \in Nat /\ at >= 1
        /\ DOMAIN disk = Files /\ DOMAIN written = Files /\ DOMAIN live = LiveFields
    BY DEF ShapeInv
  <1>at. at \in Nat /\ at >= 1
    BY <1>a
  <1>b. ASSUME pc' # "apply" \/ at' = 1 PROVE Applied'
    BY <1>b, <1>n DEF Applied
  <1>1. CASE UNCHANGED vars
    BY <1>1, <1>n DEF vars, memory, counts, ShapeInv, Applied
  <1>2. CASE PrepareDataDir \/ StartFails
    <2>at. at' = at \/ at' = 1
      BY <1>2 DEF PrepareDataDir, StartFails
    <2>1. /\ pc' \in {"migrate", "off"} /\ UNCHANGED <<disk, written, live>>
      BY <1>2 DEF PrepareDataDir, StartFails, Goto, BootVars, memory
    <2>2. Applied'
      BY <2>at, <2>1, <1>b
    <2>3. pc' \in Booting \cup Saving \cup {"idle"}
      BY <2>1
    <2>5. at' \in Nat /\ at' >= 1
      BY <2>at, <1>at
    <2>6. pc' = "copy" => at' <= Len(Migrated)
      BY <2>1
    <2>4. DOMAIN disk' = Files /\ DOMAIN written' = Files /\ DOMAIN live' = LiveFields
      BY <2>1, <1>a
    <2> QED BY <1>0, <2>2, <2>3, <2>4, <2>5, <2>6
  <1>3. CASE CopyFile
    <2>at. at <= 4 /\ (at' = at \/ (at' = at + 1 /\ pc' = "migrate"))
      BY <1>3, <1>n DEF CopyFile, Goto
    <2>1. /\ live' = live
          /\ \/ pc' = "copy" /\ written' = written /\ disk' = [disk EXCEPT ![Migrated[at]] = Torn]
             \/ pc' = "migrate" /\ UNCHANGED <<disk, written>>
      BY <1>3, <1>n DEF CopyFile, Truncate, Goto, BootVars, memory
    <2>2. Applied'
      BY <2>at, <2>1, <1>b
    <2>3. pc' \in Booting \cup Saving \cup {"idle"}
      BY <2>1
    <2>5. at' \in Nat /\ at' >= 1
      BY <2>at, <1>at
    <2>6. pc' = "copy" => at' <= Len(Migrated)
      BY <2>at, <1>n
    <2>4. DOMAIN disk' = Files /\ DOMAIN written' = Files /\ DOMAIN live' = LiveFields
      BY <2>1, <1>a
    <2> QED BY <1>0, <2>2, <2>3, <2>4, <2>5, <2>6
  <1>4. CASE CopyEnds
    BY <1>4, <1>n DEF CopyEnds, Goto, BootVars, memory, ShapeInv, Applied
  <1>5. CASE EnsureConfig \/ WriteDefault
    BY <1>5, <1>n DEF EnsureConfig, WriteDefault, Truncate, Write, Goto, BootVars, memory, ShapeInv, Applied
  <1>6. CASE Load
    BY <1>6, <1>n DEF Load, Goto, ShapeInv, Applied
  <1>7. CASE Start
    BY <1>7, <1>n DEF Start, LivePart, Write, Goto, ShapeInv, Applied
  <1>8. ASSUME NEW choice \in Choices, Save(choice) PROVE ShapeInv'
    BY <1>8 DEF Save, Goto, ShapeInv, Applied
  <1>9. CASE InvalidNumber \/ SaveFails
    BY <1>9, <1>n DEF InvalidNumber, SaveFails, Goto, memory, ShapeInv, Applied
  <1>10. CASE SaveUserSettings
    BY <1>10, <1>n DEF SaveUserSettings, Truncate, Write, SaveVars, memory, Goto, ShapeInv, Applied
  <1>11. CASE SaveSecrets
    <2>at. at' = at \/ at' = 1
      BY <1>11 DEF SaveSecrets, SaveVars
    <2>ap. pc' = "dump secrets" \/ at' = 1
      BY <1>11 DEF SaveSecrets, SaveVars, Goto
    <2>1. /\ live' = live /\ DOMAIN disk' = DOMAIN disk /\ DOMAIN written' = DOMAIN written
          /\ pc' \in {"dump secrets", "apply"}
      BY <1>11 DEF SaveSecrets, Truncate, Write, SaveVars, memory, Goto
    <2>2. Applied'
      BY <2>ap, <1>b
    <2>3. pc' \in Booting \cup Saving \cup {"idle"}
      BY <2>1
    <2>5. at' \in Nat /\ at' >= 1
      BY <2>at, <1>at
    <2>6. pc' = "copy" => at' <= Len(Migrated)
      BY <2>1
    <2>4. DOMAIN disk' = Files /\ DOMAIN written' = Files /\ DOMAIN live' = LiveFields
      BY <2>1, <1>a
    <2> QED BY <1>0, <2>2, <2>3, <2>4, <2>5, <2>6
  <1>12. CASE Configure
    BY <1>12, <1>n DEF Configure, ShapeInv, Applied
  <1>13. CASE FinishSave
    BY <1>13, <1>n DEF FinishSave, Goto, ShapeInv, Applied
  <1>14. CASE Read \/ JudgementEnds
    <2>1. UNCHANGED <<pc, at, disk, written, live, config>>
      BY <1>14 DEF Read, JudgementEnds, memory
    <2> QED BY <2>1, <1>n DEF ShapeInv, Applied
  <1>15. CASE Crash
    <2>at. at' = 1
      BY <1>15 DEF Crash
    <2>1. pc' = "off" /\ UNCHANGED <<disk, written>> /\ DOMAIN live' = LiveFields
      BY <1>15 DEF Crash, LivePart, Goto
    <2>2. Applied'
      BY <2>at, <2>1, <1>b
    <2>3. pc' \in Booting \cup Saving \cup {"idle"}
      BY <2>1
    <2>5. at' \in Nat /\ at' >= 1
      BY <2>at, <1>at
    <2>6. pc' = "copy" => at' <= Len(Migrated)
      BY <2>1
    <2>4. DOMAIN disk' = Files /\ DOMAIN written' = Files /\ DOMAIN live' = LiveFields
      BY <2>1, <1>a
    <2> QED BY <1>0, <2>2, <2>3, <2>4, <2>5, <2>6
  <1> QED BY <1>1, <1>2, <1>3, <1>4, <1>5, <1>6, <1>7, <1>8, <1>9, <1>10, <1>11, <1>12, <1>13,
             <1>14, <1>15, Steps

LEMMA QuietInit == Init => QuietInv
  BY DEF Init, QuietInv

LEMMA QuietNext == QuietInv /\ [Next]_vars => QuietInv'
  <1> SUFFICES ASSUME QuietInv, [Next]_vars PROVE QuietInv'
    OBVIOUS
  <1>1. CASE UNCHANGED vars
    BY <1>1 DEF vars, memory, counts, QuietInv
  <1>2. CASE PrepareDataDir \/ CopyFile \/ CopyEnds \/ EnsureConfig \/ WriteDefault \/ StartFails
    BY <1>2 DEF PrepareDataDir, CopyFile, CopyEnds, EnsureConfig, WriteDefault, StartFails, BootVars,
                QuietInv, Booting
  <1>3. CASE Load \/ Start
    BY <1>3 DEF Load, Start, QuietInv, Booting
  <1>4. ASSUME pc \notin Booting, pc' \notin Booting PROVE QuietInv'
    BY <1>4 DEF QuietInv
  <1>5. ASSUME NEW choice \in Choices, Save(choice) PROVE QuietInv'
    BY <1>4, <1>5 DEF Save, Goto, Booting
  <1>6. CASE InvalidNumber \/ SaveUserSettings \/ SaveSecrets \/ SaveFails \/ FinishSave
    BY <1>4, <1>6 DEF InvalidNumber, SaveUserSettings, SaveSecrets, SaveFails, FinishSave, Goto, Booting
  <1>7. CASE Configure \/ Read
    BY <1>4, <1>7 DEF Configure, Read, Booting
  <1>8. CASE JudgementEnds
    BY <1>8 DEF JudgementEnds, QuietInv
  <1>9. CASE Crash
    BY <1>9 DEF Crash, QuietInv
  <1> QED BY <1>1, <1>2, <1>3, <1>5, <1>6, <1>7, <1>8, <1>9, Steps

-----------------------------------------------------------------------------
(* Starting *)

\* A file is what was last written to it in full, or cut off, and the app runs on
\* what it loaded until it saves.
FileInv ==
    /\ \A file \in Files : disk[file] \in {Torn, written[file]}
    /\ pc = "copy" => written[Migrated[at]] = Absent
    /\ pc = "start" \/ (pc = "idle" /\ status = "") => config = Loaded /\ Loadable

\* Truncating a file, or writing it in full, keeps it what was last written or torn.
LEMMA WriteKeeps ==
  ASSUME ShapeInv, FileInv, NEW file \in Files, NEW content,
         Truncate(file) \/ Write(file, content)
  PROVE  \A g \in Files : disk'[g] \in {Torn, written'[g]}
  <1>1. /\ DOMAIN disk = Files /\ DOMAIN written = Files
        /\ \A g \in Files : disk[g] \in {Torn, written[g]}
    BY DEF ShapeInv, FileInv
  <1> QED BY <1>1 DEF Truncate, Write

\* What is loaded comes from three files.
LEMMA SameLoaded ==
  ASSUME \A file \in Content : disk'[file] = disk[file]
  PROVE  Loaded' = Loaded /\ Loadable' = Loadable
  <1>1. /\ disk'["config.yaml"] = disk["config.yaml"]
        /\ disk'["user_settings.yaml"] = disk["user_settings.yaml"]
        /\ disk'["secrets.yaml"] = disk["secrets.yaml"]
    BY DEF Content
  <1>2. Loadable' = Loadable
    BY <1>1 DEF Loadable
  <1>3. /\ Holds("secrets.yaml")' = Holds("secrets.yaml")
        /\ Holds("user_settings.yaml")' = Holds("user_settings.yaml")
    BY <1>1 DEF Holds
  <1> QED BY <1>1, <1>2, <1>3 DEF Loaded

LEMMA FileInit == Init => FileInv
  BY DEF Init, FileInv

LEMMA FileNext == ShapeInv /\ FileInv /\ [Next]_vars => FileInv'
  <1> SUFFICES ASSUME ShapeInv, FileInv, [Next]_vars PROVE FileInv'
    OBVIOUS
  <1> DEFINE Kept == \A file \in Files : disk[file] \in {Torn, written[file]}
             Settled == pc = "start" \/ (pc = "idle" /\ status = "")
  <1>in. /\ Kept /\ (pc = "copy" => written[Migrated[at]] = Absent)
         /\ Settled => config = Loaded /\ Loadable
         /\ DOMAIN disk = Files /\ DOMAIN written = Files
    BY DEF FileInv, ShapeInv
  <1>na. /\ "config.yaml" \in Files /\ "user_settings.yaml" \in Files /\ "secrets.yaml" \in Files
         /\ "siem.db" \in Files /\ "siem.db" \notin Content /\ Content \subseteq Files
    BY Names DEF Content
  \* Steps that leave the files alone.
  <1>0. ASSUME UNCHANGED <<disk, written>>, pc' # "copy", ~Settled'
        PROVE  FileInv'
    BY <1>0, <1>in DEF FileInv
  <1>1. ASSUME UNCHANGED <<disk, written, pc, at, config, status>>
        PROVE  FileInv'
    <2>1. Loaded' = Loaded /\ Loadable' = Loadable
      BY <1>1, SameLoaded
    <2> QED BY <1>1, <1>in, <2>1 DEF FileInv
  <1>2. ASSUME NEW file \in Files, NEW content, Truncate(file) \/ Write(file, content),
               pc' # "copy", ~Settled'
        PROVE  FileInv'
    BY <1>2, WriteKeeps DEF FileInv
  <1>3. CASE UNCHANGED vars \/ Read \/ JudgementEnds
    BY <1>1, <1>3 DEF vars, memory, Read, JudgementEnds
  <1>4. CASE PrepareDataDir \/ StartFails \/ Crash
    BY <1>0, <1>4 DEF PrepareDataDir, StartFails, Crash, Goto
  <1>5. CASE CopyFile
    <2>1. pc' \in {"migrate", "copy"} /\ at \in 1..4
      BY <1>5, Names DEF CopyFile, Goto, ShapeInv
    <2>2. CASE Wanted(Migrated[at])
      <3>1. /\ Migrated[at] \in Files /\ Truncate(Migrated[at]) /\ at' = at
        BY <1>5, <2>1, <2>2, Names DEF CopyFile
      <3>2. written[Migrated[at]] = Absent
        BY <2>2, <3>1, <1>in, FilesAssumption DEF Wanted
      <3>3. written'[Migrated[at']] = Absent
        BY <3>1, <3>2 DEF Truncate
      <3>4. \A g \in Files : disk'[g] \in {Torn, written'[g]}
        BY <3>1, WriteKeeps
      <3> QED BY <2>1, <3>3, <3>4 DEF FileInv
    <2>3. CASE ~Wanted(Migrated[at])
      <3>1. UNCHANGED <<disk, written>> /\ pc' = pc /\ pc = "migrate"
        BY <1>5, <2>3 DEF CopyFile
      <3> QED BY <1>0, <3>1
    <2> QED BY <2>2, <2>3
  <1>6. CASE CopyEnds
    <2>1. pc = "copy" /\ pc' = "migrate" /\ at \in 1..4
      BY <1>6, Names DEF CopyEnds, Goto, ShapeInv
    <2>2. /\ Migrated[at] \in Files /\ written[Migrated[at]] = Absent
          /\ disk' = [disk EXCEPT ![Migrated[at]] = old[Migrated[at]]]
          /\ written' = [written EXCEPT ![Migrated[at]] = old[Migrated[at]]]
      BY <1>6, <2>1, <1>in, Names DEF CopyEnds
    <2>3. \A g \in Files : disk'[g] \in {Torn, written'[g]}
      BY <2>2, <1>in
    <2> QED BY <2>1, <2>3 DEF FileInv
  <1>7. CASE EnsureConfig
    BY <1>0, <1>2, <1>7, <1>na DEF EnsureConfig, Goto
  <1>8. CASE WriteDefault
    BY <1>2, <1>8, <1>na DEF WriteDefault, Goto
  <1>9. CASE Load
    <2>1. UNCHANGED <<disk, written>>
      BY <1>9 DEF Load
    <2>2. Loaded' = Loaded /\ Loadable' = Loadable
      BY <2>1, SameLoaded
    <2>3. \/ pc' = "off"
          \/ pc' = "start" /\ config' = Loaded /\ Loadable
      BY <1>9 DEF Load, Goto
    <2> QED BY <1>in, <2>1, <2>2, <2>3 DEF FileInv
  <1>10. CASE Start
    <2>1. pc = "start" /\ config' = config /\ pc' \in {"off", "idle"}
      BY <1>10 DEF Start, Goto
    <2>2. UNCHANGED <<disk, written>> \/ Write("siem.db", "db")
      BY <1>10 DEF Start
    <2>3. \A file \in Content : disk'[file] = disk[file]
      BY <2>2, <1>in, <1>na DEF Write
    <2>4. Loaded' = Loaded /\ Loadable' = Loadable
      BY <2>3, SameLoaded
    <2>5. \A g \in Files : disk'[g] \in {Torn, written'[g]}
      BY <2>2, <1>in, <1>na, WriteKeeps
    <2> QED BY <2>1, <2>4, <2>5, <1>in DEF FileInv
  <1>11. ASSUME NEW choice \in Choices, Save(choice) PROVE FileInv'
    BY <1>0, <1>11 DEF Save, Goto
  <1>12. CASE InvalidNumber \/ SaveFails
    BY <1>0, <1>12 DEF InvalidNumber, SaveFails, Goto
  <1>13. CASE SaveUserSettings
    BY <1>2, <1>13, <1>na DEF SaveUserSettings, Goto
  <1>14. CASE SaveSecrets
    BY <1>2, <1>14, <1>na DEF SaveSecrets, Goto
  <1>15. CASE Configure
    BY <1>0, <1>15 DEF Configure
  <1>16. CASE FinishSave
    <2>1. UNCHANGED <<disk, written>> /\ pc' = "idle" /\ status' # ""
      BY <1>16 DEF FinishSave, Goto
    <2> QED BY <1>0, <2>1
  <1> QED BY <1>3, <1>4, <1>5, <1>6, <1>7, <1>8, <1>9, <1>10, <1>11, <1>12, <1>13, <1>14, <1>15,
             <1>16, Steps

\* After a start, whatever crashes and failed saves went before, the settings in force
\* are the last ones written in full, or those of config.yaml when the file was cut
\* off; and likewise the key (NewestOrDefault).
THEOREM StartsFromNewest == Spec => []NewestOrDefault
  <1>1. FileInv => NewestOrDefault
    <2> SUFFICES ASSUME FileInv, pc = "idle", status = "" PROVE NewestOrDefault
      BY DEF NewestOrDefault
    <2> DEFINE cy == "config.yaml"
               us == "user_settings.yaml"
    <2>1. /\ config = Loaded /\ disk[cy] = written[cy]
          /\ disk[us] \in {Torn, written[us]}
          /\ disk["secrets.yaml"] \in {Torn, written["secrets.yaml"]}
      <3>1. config = Loaded
        BY DEF FileInv
      <3>2. \A file \in Files : disk[file] \in {Torn, written[file]}
        BY DEF FileInv, Content
      <3>3. cy \in Files /\ us \in Files /\ "secrets.yaml" \in Files
        BY Names DEF Content
      <3>4. disk[cy] # Torn
        BY DEF FileInv, Loadable
      <3> QED BY <3>1, <3>2, <3>3, <3>4
    <2>2. \A f \in Fields \ {"key"} :
              config[f] = IF disk[us] = Torn \/ written[us] = Absent THEN written[cy][f] ELSE written[us][f]
      <3> SUFFICES ASSUME NEW f \in Fields, f # "key"
                   PROVE  config[f] = IF disk[us] = Torn \/ written[us] = Absent
                                      THEN written[cy][f] ELSE written[us][f]
        OBVIOUS
      <3>1. config[f] = IF Holds(us) THEN disk[us][f] ELSE disk[cy][f]
        BY <2>1 DEF Loaded
      <3> QED BY <2>1, <3>1 DEF Holds
    <2>3. config["key"] = IF disk["secrets.yaml"] = Torn \/ written["secrets.yaml"] = Absent
                          THEN None ELSE written["secrets.yaml"]
      <3>1. "key" \in Fields
        BY DEF Fields
      <3>2. config["key"] = IF Holds("secrets.yaml") THEN disk["secrets.yaml"] ELSE None
        BY <2>1, <3>1 DEF Loaded
      <3> QED BY <2>1, <3>2 DEF Holds
    <2> QED BY <2>2, <2>3 DEF NewestOrDefault
  <1> QED BY <1>1, ShapeInit, ShapeNext, FileInit, FileNext, PTL DEF Spec

-----------------------------------------------------------------------------
(* Saving *)

\* A save in progress has put its settings on disk, file by file.
SaveInv ==
    /\ SavedSurvives
    /\ pc \in Saving => config \in Choices
    /\ pc \in {"secrets", "dump secrets", "apply"} => disk["user_settings.yaml"] = Overlay
    /\ pc = "apply" => disk["secrets.yaml"] = config["key"]

LEMMA SaveInit == Init => SaveInv
  BY DEF Init, SaveInv, SavedSurvives, Saving

\* With its settings and its key on disk, a dictionary from the dialog is what the
\* next start loads.
LEMMA LoadsBack ==
  ASSUME config \in Choices, disk["user_settings.yaml"] = Overlay,
         disk["secrets.yaml"] = config["key"]
  PROVE  Loaded = config
  <1>1. /\ config = [f \in Fields |-> config[f]]
        /\ [f \in Fields \ {"key"} |-> config[f]] \notin {Absent, Torn}
        /\ config["key"] \notin {Absent, Torn}
    BY SettingsAssumption
  <1>2. Holds("user_settings.yaml") /\ Holds("secrets.yaml")
    BY <1>1 DEF Holds, Overlay
  <1>3. \A f \in Fields : Loaded[f] = config[f]
    BY <1>2 DEF Loaded, Overlay
  <1>4. Loaded = [f \in Fields |-> Loaded[f]]
    BY DEF Loaded
  <1> QED BY <1>1, <1>3, <1>4

\* A save that has set every field has put its settings in force.
LEMMA AllApplied ==
  ASSUME ShapeInv, pc = "apply", at > Len(WriteOrder)
  PROVE  \A f \in LiveFields : live[f] = config[f]
  <1> SUFFICES ASSUME NEW f \in LiveFields PROVE live[f] = config[f]
    OBVIOUS
  <1>1. PICK j \in 1..6 : WriteOrder[j] = f
    BY Names
  <1>2. j \in 1..Len(WriteOrder) /\ j < at
    <2>1. at \in Nat /\ Len(WriteOrder) = 6
      BY Names DEF ShapeInv
    <2> QED BY <2>1
  <1> QED BY <1>1, <1>2 DEF ShapeInv, Applied

\* The policies that are needed are on, but for those that failed.
LEMMA Audited ==
  ASSUME NEW rules, EnsureAudit(rules)
  PROVE  AuditsOf[rules] \subseteq audit' \cup unaudited'
  BY DEF EnsureAudit

LEMMA SaveNext == ShapeInv /\ QuietInv /\ SaveInv /\ [Next]_vars => SaveInv'
  <1> SUFFICES ASSUME ShapeInv, QuietInv, SaveInv, [Next]_vars PROVE SaveInv'
    OBVIOUS
  <1> DEFINE Reported == {"saved", "saved, restart", "theme switched"}
  <1>na. /\ DOMAIN disk = Files /\ "user_settings.yaml" \in Files /\ "secrets.yaml" \in Files
    BY Names DEF ShapeInv, Content
  \* Enough to show outside a save.
  <1>0. ASSUME pc' \notin Saving, ~(pc' = "idle" /\ status' \in Reported)
        PROVE  SaveInv'
    BY <1>0 DEF SaveInv, SavedSurvives, Saving
  \* And within one.
  <1>s. ASSUME pc' # "idle", config' \in Choices,
               pc' \in {"secrets", "dump secrets", "apply"} => disk'["user_settings.yaml"] = Overlay',
               pc' = "apply" => disk'["secrets.yaml"] = config'["key"]
        PROVE  SaveInv'
    BY <1>s DEF SaveInv, SavedSurvives
  <1>1. ASSUME UNCHANGED <<pc, status, disk, config, live, theme, poll, audit, unaudited>>
        PROVE  SaveInv'
    <2>1. Loaded' = Loaded /\ Overlay' = Overlay
      BY <1>1 DEF Loaded, Holds, Overlay
    <2> QED BY <1>1, <2>1 DEF SaveInv, SavedSurvives
  <1>2. CASE UNCHANGED vars \/ Read \/ JudgementEnds
    BY <1>1, <1>2 DEF vars, memory, Read, JudgementEnds
  <1>3. CASE PrepareDataDir \/ CopyFile \/ CopyEnds \/ EnsureConfig \/ WriteDefault \/ Load \/ StartFails
             \/ Crash
    <2>1. pc' \in Booting
      BY <1>3 DEF PrepareDataDir, CopyFile, CopyEnds, EnsureConfig, WriteDefault, Load, StartFails,
                  Crash, Goto, Booting
    <2> QED BY <1>0, <2>1 DEF Booting, Saving
  <1>4. CASE Start
    <2>1. pc' \in {"off", "idle"} /\ status' = status /\ status = ""
      BY <1>4 DEF Start, Goto, QuietInv, Booting
    <2> QED BY <1>0, <2>1 DEF Saving
  <1>5. CASE InvalidNumber \/ SaveFails
    <2>1. pc' = "idle" /\ status' \notin Reported
      BY <1>5 DEF InvalidNumber, SaveFails, Goto
    <2> QED BY <1>0, <2>1 DEF Saving
  <1>6. ASSUME NEW choice \in Choices, Save(choice) PROVE SaveInv'
    BY <1>6, <1>s DEF Save, Goto
  <1>7. CASE SaveUserSettings
    <2>1. config \in Choices /\ config' = config
      BY <1>7 DEF SaveUserSettings, SaveVars, memory, SaveInv, Saving
    <2>2. CASE pc = "settings" /\ pc' = "dump settings"
      BY <1>s, <2>1, <2>2
    <2>3. CASE pc' = "secrets" /\ Write("user_settings.yaml", Overlay)
      <3>1. disk'["user_settings.yaml"] = Overlay /\ Overlay' = Overlay
        BY <2>1, <2>3, <1>na DEF Write, Overlay
      <3> QED BY <1>s, <2>1, <2>3, <3>1
    <2> QED BY <1>7, <2>2, <2>3 DEF SaveUserSettings, Goto
  <1>8. CASE SaveSecrets
    <2>1. config \in Choices /\ config' = config /\ disk["user_settings.yaml"] = Overlay
      BY <1>8 DEF SaveSecrets, SaveVars, memory, SaveInv, Saving
    <2>2. Overlay' = Overlay
      BY <2>1 DEF Overlay
    <2>3. CASE pc' = "dump secrets" /\ Truncate("secrets.yaml")
      <3>1. disk'["user_settings.yaml"] = Overlay
        BY <2>1, <2>3, <1>na DEF Truncate
      <3> QED BY <1>s, <2>1, <2>2, <2>3, <3>1
    <2>4. CASE pc' = "apply" /\ Write("secrets.yaml", config["key"])
      <3>1. disk'["user_settings.yaml"] = Overlay /\ disk'["secrets.yaml"] = config["key"]
        BY <2>1, <2>4, <1>na DEF Write
      <3> QED BY <1>s, <2>1, <2>2, <2>4, <3>1
    <2> QED BY <1>8, <2>3, <2>4 DEF SaveSecrets, Goto
  <1>9. CASE Configure
    <2>1. /\ pc = "apply" /\ UNCHANGED <<pc, disk, config>>
          /\ config \in Choices /\ disk["user_settings.yaml"] = Overlay
          /\ disk["secrets.yaml"] = config["key"]
      BY <1>9 DEF Configure, SaveInv, Saving
    <2>2. Overlay' = Overlay
      BY <2>1 DEF Overlay
    <2> QED BY <1>s, <2>1, <2>2
  <1>10. CASE FinishSave
    <2>1. /\ pc = "apply" /\ pc' = "idle" /\ UNCHANGED <<disk, config, live, poll>>
          /\ at > Len(WriteOrder) /\ EnsureAudit(config["rules"]) /\ theme' = config["theme"]
          /\ config \in Choices /\ disk["user_settings.yaml"] = Overlay
          /\ disk["secrets.yaml"] = config["key"]
      BY <1>10 DEF FinishSave, Goto, SaveInv, Saving
    <2>2. Loaded' = config'
      <3>1. Loaded' = Loaded
        BY <2>1 DEF Loaded, Holds
      <3> QED BY <2>1, <3>1, LoadsBack
    <2>3. \A f \in LiveFields : live'[f] = config'[f]
      BY <2>1, AllApplied
    <2>4. AuditsOf[live'["rules"]] \subseteq audit' \cup unaudited'
      BY <2>1, <2>3, Audited, Names
    <2>5. poll' # config'["poll"] => status' \in {"saved, restart", "theme switched"}
      BY <1>10, <2>1 DEF FinishSave
    <2> QED BY <2>1, <2>2, <2>3, <2>4, <2>5 DEF SaveInv, SavedSurvives, Saving
  <1> QED BY <1>2, <1>3, <1>4, <1>5, <1>6, <1>7, <1>8, <1>9, <1>10, Steps

\* What the window reports as saved is in force everywhere and on disk, the next start
\* brings it back, and its rules have their audit policies but for those that failed
\* (SavedSurvives).
THEOREM SavesHold == Spec => []SavedSurvives
  <1>1. SaveInv => SavedSurvives
    BY DEF SaveInv
  <1> QED BY <1>1, ShapeInit, ShapeNext, QuietInit, QuietNext, SaveInit, SaveNext, PTL DEF Spec

-----------------------------------------------------------------------------
(* Judging an event *)

\* What settings in force, or being put in force, may have told the collector.
InForce == {s[f] : s \in span, f \in LiveFields}

\* What has been read so far is of settings that were in force.
ReadsInForce ==
    /\ JudgedBySettingsInForce
    /\ reads \in Seq(InForce) /\ Len(reads) <= Len(ReadOrder)

\* Every live setting is of the settings in force or of those being applied, and a
\* collector in the middle of an event counts both.
LiveInForce ==
    pc \notin Booting =>
        /\ reads # <<>> => applied \in span /\ (pc = "apply" => config \in span)
        /\ \A f \in LiveFields : live[f] = applied[f] \/ (pc = "apply" /\ live[f] = config[f])

JudgeInv == ReadsInForce /\ LiveInForce

\* More settings in force take nothing away; and nothing read is nothing wrong.
LEMMA ReadsKept ==
  ASSUME ReadsInForce, reads' = reads, span \subseteq span'
  PROVE  ReadsInForce'
  <1>1. InForce \subseteq InForce'
    BY DEF InForce
  <1>2. reads' \in Seq(InForce')
    BY <1>1 DEF ReadsInForce
  <1> QED BY <1>2 DEF ReadsInForce, JudgedBySettingsInForce

LEMMA NothingRead ==
  ASSUME reads' = <<>>
  PROVE  ReadsInForce'
  <1>1. reads' \in Seq(InForce') /\ Len(reads') = 0
    OBVIOUS
  <1> QED BY <1>1, Names DEF ReadsInForce, JudgedBySettingsInForce

\* One more field is read of settings that are in force.
LEMMA OneMoreRead ==
  ASSUME ReadsInForce, Len(reads) < Len(ReadOrder),
         NEW s \in span', span \subseteq span' \/ reads = <<>>,
         reads' = Append(reads, s[ReadOrder[Len(reads) + 1]])
  PROVE  ReadsInForce'
  <1> DEFINE n == Len(reads)
             x == s[ReadOrder[n + 1]]
  <1>1. n \in Nat /\ n + 1 \in 1..6 /\ Len(ReadOrder) = 6 /\ reads \in Seq(InForce)
    BY Names DEF ReadsInForce
  <1>2. ReadOrder[n + 1] \in LiveFields
    BY <1>1, Names
  <1>3. x \in InForce' /\ (span \subseteq span' => InForce \subseteq InForce')
    BY <1>2 DEF InForce
  <1>4. reads \in Seq(InForce')
    <2>1. <<>> \in Seq(InForce')
      OBVIOUS
    <2> QED BY <1>1, <1>3, <2>1
  <1>5. reads' = Append(reads, x)
    OBVIOUS
  <1> HIDE DEF x
  <1>6. /\ reads' \in Seq(InForce') /\ Len(reads') = n + 1
        /\ \A i \in 1..n : reads'[i] = reads[i]
        /\ reads'[n + 1] = x
    BY <1>3, <1>4, <1>5, AppendProperties
  <1>7. ASSUME NEW i \in 1..Len(reads') PROVE \E r \in span' : reads'[i] = r[ReadOrder[i]]
    <2>1. CASE i \in 1..n
      <3>0. span \subseteq span'
        <4>1. reads = <<>> => n = 0
          OBVIOUS
        <4> QED BY <2>1, <4>1, <1>1
      <3>1. \E r \in span : reads[i] = r[ReadOrder[i]]
        BY <2>1 DEF ReadsInForce, JudgedBySettingsInForce
      <3> QED BY <2>1, <3>0, <3>1, <1>6
    <2>2. CASE i = n + 1
      BY <2>2, <1>6 DEF x
    <2> QED BY <2>1, <2>2, <1>1, <1>6, <1>7
  <1> QED BY <1>1, <1>6, <1>7 DEF ReadsInForce, JudgedBySettingsInForce

LEMMA JudgeInit == Init => JudgeInv
  <1> SUFFICES ASSUME Init PROVE JudgeInv
    OBVIOUS
  <1>1. reads = <<>> /\ pc \in Booting
    BY DEF Init, Booting
  <1>2. reads \in Seq(InForce) /\ Len(reads) = 0 /\ Len(ReadOrder) = 6
    BY <1>1, Names
  <1> QED BY <1>1, <1>2 DEF JudgeInv, ReadsInForce, LiveInForce, JudgedBySettingsInForce

LEMMA JudgeNext == ShapeInv /\ QuietInv /\ JudgeInv /\ [Next]_vars => JudgeInv'
  <1> SUFFICES ASSUME ShapeInv, QuietInv, JudgeInv, [Next]_vars PROVE JudgeInv'
    OBVIOUS
  <1>in. ReadsInForce /\ LiveInForce
    BY DEF JudgeInv
  <1>go. ASSUME ReadsInForce', LiveInForce' PROVE JudgeInv'
    BY <1>go DEF JudgeInv
  <1>1. CASE UNCHANGED vars
    <2>1. UNCHANGED <<reads, span, pc, applied, live, config>>
      BY <1>1 DEF vars, memory
    <2> QED BY <1>in, <1>go, <2>1, ReadsKept DEF LiveInForce
  <1>2. CASE PrepareDataDir \/ CopyFile \/ CopyEnds \/ EnsureConfig \/ WriteDefault \/ Load \/ StartFails
    <2>1. pc' \in Booting /\ UNCHANGED <<reads, span>>
      BY <1>2 DEF PrepareDataDir, CopyFile, CopyEnds, EnsureConfig, WriteDefault, Load, StartFails,
                  BootVars, Goto, Booting
    <2> QED BY <1>in, <1>go, <2>1, ReadsKept DEF LiveInForce
  <1>3. CASE Start
    <2>1. reads' = <<>>
      BY <1>3 DEF Start, QuietInv, Booting
    <2>2. \/ pc' = "off"
          \/ pc' = "idle" /\ \A f \in LiveFields : live'[f] = applied'[f]
      BY <1>3 DEF Start, Goto, LivePart
    <2> QED BY <1>go, <2>1, <2>2, NothingRead DEF LiveInForce, Booting
  <1>4. CASE InvalidNumber \/ SaveUserSettings \/ SaveFails \/ \E choice \in Choices : Save(choice)
    <2>1. /\ pc \notin Booting /\ pc # "apply" /\ pc' # "apply"
          /\ UNCHANGED <<reads, span, applied, live>>
      <3>1. CASE InvalidNumber \/ SaveFails
        BY <3>1 DEF InvalidNumber, SaveFails, memory, Goto, Booting
      <3>2. CASE SaveUserSettings
        BY <3>2 DEF SaveUserSettings, SaveVars, memory, Goto, Booting
      <3>3. CASE \E choice \in Choices : Save(choice)
        BY <3>3 DEF Save, Goto, Booting
      <3> QED BY <1>4, <3>1, <3>2, <3>3
    <2> QED BY <1>in, <1>go, <2>1, ReadsKept DEF LiveInForce
  <1>5. CASE SaveSecrets
    <2>1. /\ pc \notin Booting /\ pc # "apply" /\ UNCHANGED <<reads, applied, live, config>>
      BY <1>5 DEF SaveSecrets, SaveVars, memory, Booting
    <2>2. CASE pc' = "dump secrets" /\ span' = span
      BY <1>in, <1>go, <2>1, <2>2, ReadsKept DEF LiveInForce
    <2>3. CASE reads = <<>>
      BY <1>in, <1>go, <2>1, <2>3, NothingRead DEF LiveInForce
    <2>4. CASE reads # <<>> /\ span' = span \cup {config}
      BY <1>in, <1>go, <2>1, <2>4, ReadsKept DEF LiveInForce
    <2> QED BY <1>5, <2>2, <2>3, <2>4 DEF SaveSecrets, SaveVars, Goto
  <1>6. CASE Configure
    <2>1. /\ pc = "apply" /\ UNCHANGED <<pc, reads, span, applied, config>>
          /\ DOMAIN live = LiveFields
          /\ live' = [live EXCEPT ![WriteOrder[at]] = config[WriteOrder[at]]]
      BY <1>6 DEF Configure, ShapeInv
    <2>2. \A f \in LiveFields : live'[f] \in {live[f], config[f]}
      BY <2>1
    <2> QED BY <1>in, <1>go, <2>1, <2>2, ReadsKept DEF LiveInForce, Booting
  <1>7. CASE FinishSave
    <2>1. /\ pc = "apply" /\ pc' = "idle" /\ UNCHANGED <<reads, span, live>> /\ applied' = config
          /\ at > Len(WriteOrder)
      BY <1>7 DEF FinishSave, Goto
    <2>2. \A f \in LiveFields : live'[f] = applied'[f]
      BY <2>1, AllApplied
    <2> QED BY <1>in, <1>go, <2>1, <2>2, ReadsKept DEF LiveInForce, Booting
  <1>8. CASE Read
    <2>1. /\ pc \notin Booting /\ Len(reads) < Len(ReadOrder) /\ UNCHANGED <<pc, applied, live, config>>
          /\ reads' = Append(reads, live[ReadOrder[Len(reads) + 1]])
      BY <1>8 DEF Read, memory
    <2>2. /\ applied \in span' /\ (pc = "apply" => config \in span')
          /\ span \subseteq span' \/ reads = <<>>
      BY <1>8, <1>in DEF Read, LiveInForce
    <2>3. ReadOrder[Len(reads) + 1] \in LiveFields
      <3>1. Len(reads) \in Nat /\ Len(ReadOrder) = 6
        BY <1>in, Names DEF ReadsInForce
      <3> QED BY <2>1, <3>1, Names
    <2>4. PICK s \in span' : live[ReadOrder[Len(reads) + 1]] = s[ReadOrder[Len(reads) + 1]]
      BY <1>in, <2>1, <2>2, <2>3 DEF LiveInForce
    <2>5. ReadsInForce'
      BY <1>in, <2>1, <2>2, <2>4, OneMoreRead
    <2> QED BY <1>in, <1>go, <2>1, <2>2, <2>5 DEF LiveInForce
  <1>9. CASE JudgementEnds \/ Crash
    <2>1. reads' = <<>>
      BY <1>9 DEF JudgementEnds, Crash
    <2>2. CASE JudgementEnds
      <3>1. UNCHANGED <<pc, applied, live, config>>
        BY <2>2 DEF JudgementEnds, memory
      <3> QED BY <1>in, <1>go, <2>1, <3>1, NothingRead DEF LiveInForce
    <2>3. CASE Crash
      <3>1. pc' \in Booting
        BY <2>3 DEF Crash, Goto, Booting
      <3> QED BY <1>go, <2>1, <3>1, NothingRead DEF LiveInForce
    <2> QED BY <1>9, <2>2, <2>3
  <1> QED BY <1>1, <1>2, <1>3, <1>4, <1>5, <1>6, <1>7, <1>8, <1>9, Steps

\* Each setting by which an event is judged was in force, or being put in force, at
\* some time while it was judged (JudgedBySettingsInForce).
THEOREM JudgedInForce == Spec => []JudgedBySettingsInForce
  <1>1. JudgeInv => JudgedBySettingsInForce
    BY DEF JudgeInv, ReadsInForce
  <1> QED BY <1>1, ShapeInit, ShapeNext, QuietInit, QuietNext, JudgeInit, JudgeNext, PTL DEF Spec

-----------------------------------------------------------------------------
(* The pages of the dashboard: what is known of their state *)

\* The rows there ever were.
Rows == 1..Len(alerts)

\* An answer that was given is one to what the task asked.
AnswerInv(t) ==
    tasks[t].reply \notin {NoReply, Failed} =>
        /\ Request(t) = "alerts" =>
              tasks[t].reply.asked \in Filters /\ tasks[t].reply.rows \subseteq Rows
        /\ Request(t) = "blocked-ips" => tasks[t].reply \subseteq Sources

\* A call under way.
Job(t) ==
    /\ tasks[t] = [kind |-> tasks[t].kind, asked |-> tasks[t].asked,
                   at |-> tasks[t].at, reply |-> tasks[t].reply]
    /\ tasks[t].kind \in Kinds /\ tasks[t].at \in 1..Len(Requests(tasks[t].kind))
    /\ tasks[t].kind \in {"poll", "change"} => tasks[t].asked \in Filters
    /\ tasks[t].kind = "block" => tasks[t].asked \in Rows
    /\ AnswerInv(t)

JobsInv == DOMAIN tasks = Slots /\ \A t \in Slots : tasks[t] = Idle \/ Job(t)

\* The flag says whether there is a poll, and there is never a second one.
PollInv ==
    /\ running <=> \E t \in Slots : tasks[t].kind = "poll"
    /\ \A t, u \in Slots : tasks[t].kind = "poll" /\ tasks[u].kind = "poll" => t = u

RowsInv ==
    /\ alerts \in Seq(Arriving) /\ Len(alerts) <= MaxAlerts /\ purged \in 0..Len(alerts)
    /\ seen \subseteq Rows /\ first \subseteq Rows
    /\ shown.asked \in Filters /\ shown.rows \subseteq Rows
    /\ blocked \subseteq Sources /\ listed \subseteq Sources
    /\ marked \in [Ids -> Nat]

\* Every start of the server was preceded by a stop.
ServerInv ==
    /\ troubles \in 0..MaxTroubles /\ token \in Nat /\ cookie \in 1..token
    /\ up \in BOOLEAN /\ token <= troubles + 1 /\ (~up => token <= troubles)

FlagsInv ==
    /\ hidden \in BOOLEAN /\ running \in BOOLEAN /\ rendered \in BOOLEAN /\ pill \in BOOLEAN
    /\ page \in Pages /\ filter \in Filters


\* What was announced was drawn, and so was what the page opened with, and nothing
\* is drawn before the page's first table.
AnnounceInv ==
    /\ ~rendered => seen = {}
    /\ first \subseteq seen
    /\ \A i \in Ids : marked[i] <= 1 /\ (marked[i] = 1 => i \in seen \ first)

\* The newest rows of a table of n that the first p were deleted from.
Cut(p, n) == {i \in p + 1..n : n - i < Limit}

\* An answer that waits to be drawn is no older than what is on the screen, and has
\* the newest rows of a table in which there was as much as p and n say, or more.
Recent(t, p, n) ==
    tasks[t] # Idle /\ tasks[t].reply \notin {NoReply, Failed} =>
        /\ Request(t) = "alerts" =>
              /\ tasks[t].reply.asof \in shown.asof..Version
              /\ \E q \in p..purged, m \in n..Len(alerts) : tasks[t].reply.rows = Cut(q, m)
        /\ Request(t) = "stats" => tasks[t].reply.asof \in stats.asof..Version

\* The overview: only polls, what is drawn is of the past, and p and n are the table at
\* the time of the first drawing, before which nothing was announced.
OverviewInv ==
    page = "overview" =>
        /\ filter = All
        /\ \A t \in Slots : tasks[t] = Idle \/ (tasks[t].kind = "poll" /\ tasks[t].asked = All)
        /\ shown.asof \in 0..Version /\ stats.asof \in 0..Version
        /\ \E p \in 0..purged, n \in 0..Len(alerts) :
              /\ rendered => first = Cut(p, n)
              /\ \A i \in Ids : marked[i] > 0 => i > n
              /\ \A t \in Slots : Recent(t, p, n)

\* What is known of a page, its calls and the server that answers them.
PageInv == JobsInv /\ PollInv /\ RowsInv /\ ServerInv /\ FlagsInv

\* Every step is one of these.
LEMMA PageSteps ==
  ASSUME [PageNext]_pageVars
  PROVE  \/ \E t \in Slots : Answered(t) \/ Continue(t) \/ Finish(t) \/ Throw(t)
         \/ Tick \/ Hide \/ Show \/ ChangeFilter \/ Click \/ OpenLink
         \/ Stop \/ Restart \/ InsertAlert \/ PurgeAlerts \/ BlockElsewhere \/ UNCHANGED pageVars
  BY DEF PageNext, Resumed

\* The requests of each kind of call, on each page.
LEMMA RequestsOf ==
  ASSUME page \in Pages, NEW kind \in Kinds
  PROVE  /\ Len(Requests(kind)) \in Nat \ {0}
         /\ kind \notin {"poll", "change"} => Len(Requests(kind)) = 1
         /\ \A k \in 1..Len(Requests(kind)) :
               /\ Requests(kind)[k] = "alerts" => kind \in {"poll", "change"}
               /\ Requests(kind)[k] = "stats" => kind \in {"poll", "change"}
               /\ Requests(kind)[k] = "block" => kind = "block"
  <1>1. CASE kind \in {"poll", "change"} /\ page = "alerts"
    <2>1. Requests(kind) = <<"alerts", "blocked-ips">>
      BY <1>1 DEF Requests
    <2> QED BY <1>1, <2>1
  <1>2. CASE kind \in {"poll", "change"} /\ page = "overview"
    <2>1. Requests(kind) = <<"stats", "events-over-time", "top-event-ids", "alerts", "events">>
      BY <1>2 DEF Requests
    <2> QED BY <1>2, <2>1
  <1>3. CASE kind = "list"
    <2>1. Requests(kind) = <<"blocked-ips">>
      BY <1>3 DEF Requests
    <2>2. Len(<<"blocked-ips">>) = 1 /\ <<"blocked-ips">>[1] = "blocked-ips"
      OBVIOUS
    <2>3. Len(Requests(kind)) = 1 /\ \A k \in 1..1 : Requests(kind)[k] = "blocked-ips"
      BY <2>1, <2>2
    <2> QED BY <1>3, <2>3
  <1>4. CASE kind \in {"block", "unblock"}
    <2>1. Requests(kind) = <<kind>>
      BY <1>4 DEF Requests
    <2>2. Len(<<kind>>) = 1 /\ <<kind>>[1] = kind
      OBVIOUS
    <2> QED BY <1>4, <2>1, <2>2
  <1> QED BY <1>1, <1>2, <1>3, <1>4 DEF Kinds, Pages

\* A place is free, or a call is under way in it.
LEMMA FreeOrJob ==
  ASSUME JobsInv, NEW t \in Slots
  PROVE  /\ tasks[t] = Idle <=> tasks[t].kind = "idle"
         /\ tasks[t] # Idle => Job(t)
         /\ tasks[t] = Idle => tasks[t].kind \notin Kinds
  <1>1. Idle.kind = "idle" /\ "idle" \notin Kinds
    BY DEF Idle, Kinds
  <1> QED BY <1>1 DEF JobsInv, Job

\* A place that is chosen for a new call is free.
LEMMA NextIsFree ==
  ASSUME Free # {}
  PROVE  NextFree \in Slots /\ tasks[NextFree] = Idle
  BY DEF Free, NextFree

-----------------------------------------------------------------------------
(* What the actions do to the calls *)

\* An answer is put down with the call it is for.
LEMMA AnsweredEffect ==
  ASSUME JobsInv, RowsInv, FlagsInv, NEW t \in Slots, Answered(t)
  PROVE  /\ tasks[t] # Idle /\ Job(t)
         /\ UNCHANGED <<alerts, purged, up, token, cookie, page, hidden, filter, running,
                        rendered, seen, shown, stats, listed, first, marked, pill>>
         /\ blocked' \subseteq Sources /\ troubles' \in {troubles, troubles + 1}
         /\ troubles' = troubles \/ troubles < MaxTroubles
         /\ DOMAIN tasks' = Slots /\ \A u \in Slots \ {t} : tasks'[u] = tasks[u]
         /\ \E a : /\ tasks'[t] = [kind |-> tasks[t].kind, asked |-> tasks[t].asked,
                                   at |-> tasks[t].at, reply |-> a]
                   /\ a # Failed =>
                        /\ Request(t) = "alerts" =>
                              a = Table(tasks[t].asked)
                        /\ Request(t) = "stats" => a = Totals
                        /\ Request(t) = "blocked-ips" => a = blocked
  <1>1. tasks[t] # Idle /\ Job(t)
    BY FreeOrJob DEF Answered, Serve, Refuse, ServerError, Waiting
  <1>2. /\ UNCHANGED <<alerts, purged, up, token, cookie, page, hidden, filter, running,
                       rendered, seen, shown, stats, listed, first, marked, pill>>
        /\ troubles' \in {troubles, troubles + 1}
        /\ troubles' = troubles \/ troubles < MaxTroubles
    <2>1. Frame
      BY DEF Answered, Serve, Refuse, ServerError
    <2>2. UNCHANGED troubles \/ (troubles < MaxTroubles /\ troubles' = troubles + 1)
      BY DEF Answered, Serve, Refuse, ServerError
    <2> QED BY <2>1, <2>2 DEF Frame, server, window, tables
  <1>3. /\ blocked' \subseteq Sources
        /\ \E a : /\ Reply(t, a)
                  /\ a # Failed =>
                       /\ Request(t) = "alerts" =>
                             a = Table(tasks[t].asked)
                       /\ Request(t) = "stats" => a = Totals
                       /\ Request(t) = "blocked-ips" => a = blocked
    <2>0. blocked \subseteq Sources
      BY DEF RowsInv
    <2>1. CASE ApiAlerts(t)
      BY <2>0, <2>1 DEF ApiAlerts
    <2>2. CASE ApiStats(t)
      BY <2>0, <2>2 DEF ApiStats
    <2>3. CASE ApiCharts(t)
      BY <2>0, <2>3 DEF ApiCharts
    <2>4. CASE ApiBlockedIps(t)
      BY <2>0, <2>4 DEF ApiBlockedIps
    <2>5. CASE ApiBlock(t)
      <3>1. alerts[tasks[t].asked] \in Arriving
        <4>1. Request(t) = "block"
          BY <2>5 DEF ApiBlock
        <4>2. tasks[t].kind = "block"
          BY <1>1, <4>1, RequestsOf DEF Job, Request, FlagsInv
        <4>3. tasks[t].asked \in 1..Len(alerts)
          BY <1>1, <4>2 DEF Job, Rows
        <4> QED BY <4>3 DEF RowsInv
      <3> QED BY <2>0, <2>5, <3>1 DEF ApiBlock, Sources
    <2>6. CASE ApiUnblock(t)
      BY <2>0, <2>6 DEF ApiUnblock
    <2>7. CASE Reply(t, Failed) /\ blocked' = blocked
      BY <2>0, <2>7
    <2> QED BY <2>1, <2>2, <2>3, <2>4, <2>5, <2>6, <2>7 DEF Answered, Serve, Refuse, ServerError
  <1>4. PICK a : /\ Reply(t, a)
                 /\ a # Failed =>
                      /\ Request(t) = "alerts" =>
                            a = Table(tasks[t].asked)
                      /\ Request(t) = "stats" => a = Totals
                      /\ Request(t) = "blocked-ips" => a = blocked
    BY <1>3
  <1>5. /\ DOMAIN tasks' = Slots /\ \A u \in Slots \ {t} : tasks'[u] = tasks[u]
        /\ tasks'[t] = [tasks[t] EXCEPT !.reply = a]
    BY <1>4 DEF Reply, JobsInv
  <1>6. tasks'[t] = [kind |-> tasks[t].kind, asked |-> tasks[t].asked,
                     at |-> tasks[t].at, reply |-> a]
    BY <1>1, <1>5 DEF Job
  <1> QED BY <1>1, <1>2, <1>3, <1>4, <1>5, <1>6

\* What draws an answer.
LEMMA DrawEffect ==
  ASSUME NEW t \in Slots, Draw(t)
  PROVE  /\ \/ Request(t) = "alerts" /\ RenderAlerts(tasks[t].reply)
            \/ UNCHANGED <<rendered, seen, shown, first, marked>>
         /\ UNCHANGED stats \/ (Request(t) = "stats" /\ stats' = tasks[t].reply)
         /\ UNCHANGED listed \/ (Request(t) = "blocked-ips" /\ listed' = tasks[t].reply)
  <1>1. CASE Request(t) = "alerts"
    BY <1>1 DEF Draw, RenderAlerts
  <1>2. CASE Request(t) = "stats"
    BY <1>2 DEF Draw
  <1>3. CASE Request(t) = "blocked-ips"
    BY <1>3 DEF Draw
  <1>4. CASE Request(t) \notin {"alerts", "stats", "blocked-ips"}
    BY <1>4 DEF Draw, tables
  <1> QED BY <1>1, <1>2, <1>3, <1>4

\* A call that goes on has its next request to be answered.
LEMMA ContinueEffect ==
  ASSUME JobsInv, NEW t \in Slots, Continue(t)
  PROVE  /\ tasks[t] # Idle /\ Job(t) /\ tasks[t].reply \notin {NoReply, Failed} /\ Draw(t)
         /\ UNCHANGED <<alerts, purged, blocked, up, token, cookie, page, hidden, filter, running,
                        pill, troubles>>
         /\ DOMAIN tasks' = Slots /\ \A u \in Slots \ {t} : tasks'[u] = tasks[u]
         /\ tasks[t].at < Len(Requests(tasks[t].kind))
         /\ tasks'[t] = [kind |-> tasks[t].kind, asked |-> tasks[t].asked,
                         at |-> tasks[t].at + 1, reply |-> NoReply]
  <1>1. tasks[t] # Idle /\ tasks[t].reply \notin {NoReply, Failed} /\ Draw(t) /\ ~IsLast(t)
    BY DEF Continue, Delivered
  <1>2. Job(t)
    BY <1>1, FreeOrJob
  <1>3. UNCHANGED <<alerts, purged, blocked, up, token, cookie, page, hidden, filter, running,
                    pill, troubles>>
    BY DEF Continue, database, server, window, bounds
  <1>4. tasks' = [tasks EXCEPT ![t].at = @ + 1, ![t].reply = NoReply]
    BY DEF Continue
  <1>5. /\ DOMAIN tasks' = Slots /\ \A u \in Slots \ {t} : tasks'[u] = tasks[u]
        /\ tasks'[t] = [tasks[t] EXCEPT !.at = @ + 1, !.reply = NoReply]
    BY <1>4 DEF JobsInv
  <1>6. tasks'[t] = [kind |-> tasks[t].kind, asked |-> tasks[t].asked,
                     at |-> tasks[t].at + 1, reply |-> NoReply]
    BY <1>2, <1>5 DEF Job
  <1>7. tasks[t].at < Len(Requests(tasks[t].kind))
    BY <1>1, <1>2 DEF Job, IsLast
  <1> QED BY <1>1, <1>2, <1>3, <1>5, <1>6, <1>7

\* A call that ends leaves its place free, or to the refresh that it starts.
LEMMA EndEffect ==
  ASSUME JobsInv, NEW t \in Slots, Finish(t) \/ Throw(t)
  PROVE  /\ tasks[t] # Idle /\ Job(t) /\ tasks[t].reply # NoReply
         /\ (tasks[t].reply # Failed /\ Draw(t)) \/ UNCHANGED tables
         /\ UNCHANGED <<alerts, purged, blocked, up, token, cookie, page, hidden, filter, troubles>>
         /\ tasks[t].kind = "poll" => running' = FALSE
         /\ tasks[t].kind # "poll" => running' = running
         /\ pill \in BOOLEAN => pill' \in BOOLEAN
         /\ DOMAIN tasks' = Slots /\ \A u \in Slots \ {t} : tasks'[u] = tasks[u]
         /\ \/ tasks'[t] = Idle
            \/ tasks[t].kind \in {"block", "unblock"} /\ tasks'[t] = Call("list", All)
  <1>1. tasks[t] # Idle /\ tasks[t].reply # NoReply
    BY DEF Finish, Throw, Delivered
  <1>2. Job(t)
    BY <1>1, FreeOrJob
  <1>3. (tasks[t].reply # Failed /\ Draw(t)) \/ UNCHANGED tables
    BY DEF Finish, Throw
  <1>4. UNCHANGED <<alerts, purged, blocked, up, token, cookie, page, hidden, filter, troubles>>
    BY DEF Finish, Throw, database, server, window, bounds
  <1>5. PICK ok \in BOOLEAN : End(t, ok)
    BY DEF Finish, Throw
  <1>6. /\ tasks[t].kind = "poll" => running' = FALSE
        /\ tasks[t].kind # "poll" => running' = running
        /\ pill \in BOOLEAN => pill' \in BOOLEAN
    <2>1. CASE tasks[t].kind = "poll"
      BY <1>5, <2>1 DEF End
    <2>2. CASE tasks[t].kind # "poll"
      BY <1>5, <2>2 DEF End
    <2> QED BY <2>1, <2>2
  <1>7. \E new : /\ tasks' = [tasks EXCEPT ![t] = new]
                 /\ \/ new = Idle
                    \/ tasks[t].kind \in {"block", "unblock"} /\ new = Call("list", All)
    <2>1. CASE Finish(t)
      BY <2>1 DEF Finish
    <2>2. CASE Throw(t)
      BY <2>2 DEF Throw
    <2> QED BY <2>1, <2>2
  <1>8. PICK new : /\ tasks' = [tasks EXCEPT ![t] = new]
                   /\ \/ new = Idle
                      \/ tasks[t].kind \in {"block", "unblock"} /\ new = Call("list", All)
    BY <1>7
  <1>9. /\ DOMAIN tasks' = Slots /\ tasks'[t] = new
        /\ \A u \in Slots \ {t} : tasks'[u] = tasks[u]
    BY <1>8 DEF JobsInv
  <1> QED BY <1>1, <1>2, <1>3, <1>4, <1>6, <1>8, <1>9

-----------------------------------------------------------------------------
(* Typing *)

\* A call that nothing happened to is as it was.
LEMMA JobStays ==
  ASSUME NEW t \in Slots, Job(t), tasks'[t] = tasks[t], page' = page, Rows \subseteq Rows'
  PROVE  Job(t)'
  <1>1. Requests(tasks[t].kind)' = Requests(tasks[t].kind) /\ Request(t)' = Request(t)
    BY DEF Requests, Request
  <1>2. AnswerInv(t)'
    BY <1>1 DEF Job, AnswerInv
  <1> QED BY <1>1, <1>2 DEF Job

LEMMA JobsStay ==
  ASSUME JobsInv, page' = page, Rows \subseteq Rows', NEW t \in Slots,
         DOMAIN tasks' = Slots, \A u \in Slots \ {t} : tasks'[u] = tasks[u],
         tasks'[t] = Idle \/ Job(t)'
  PROVE  JobsInv'
  <1>1. ASSUME NEW u \in Slots \ {t} PROVE tasks'[u] = Idle \/ Job(u)'
    BY <1>1, JobStays DEF JobsInv
  <1> QED BY <1>1 DEF JobsInv, Idle

\* A new call is one.
LEMMA NewJob ==
  ASSUME JobsInv, page \in Pages, UNCHANGED <<page, alerts>>,
         NEW u \in Slots, NEW kind \in Kinds, NEW asked,
         kind \in {"poll", "change"} => asked \in Filters, kind = "block" => asked \in Rows,
         \/ tasks[u] = Idle /\ tasks' = [tasks EXCEPT ![u] = Call(kind, asked)]
         \/ /\ DOMAIN tasks' = Slots /\ tasks'[u] = Call(kind, asked)
            /\ \A v \in Slots \ {u} : tasks'[v] = tasks[v]
  PROVE  /\ JobsInv' /\ tasks'[u] = Call(kind, asked) /\ tasks'[u].kind = kind
         /\ \A v \in Slots \ {u} : tasks'[v] = tasks[v]
  <1>1. /\ DOMAIN tasks' = Slots /\ tasks'[u] = Call(kind, asked)
        /\ \A v \in Slots \ {u} : tasks'[v] = tasks[v]
    BY DEF JobsInv
  <1>2. /\ tasks'[u].kind = kind /\ tasks'[u].asked = asked /\ tasks'[u].at = 1
        /\ tasks'[u].reply = NoReply
        /\ tasks'[u] = [kind |-> kind, asked |-> asked, at |-> 1, reply |-> NoReply]
    BY <1>1 DEF Call
  <1>3. 1 \in 1..Len(Requests(kind)')
    <2>1. Requests(kind)' = Requests(kind)
      BY DEF Requests
    <2>2. Len(Requests(kind)) \in Nat \ {0}
      BY RequestsOf
    <2> QED BY <2>1, <2>2
  <1>4. Rows' = Rows
    BY DEF Rows
  <1>5. Job(u)'
    BY <1>2, <1>3, <1>4 DEF Job, AnswerInv
  <1> QED BY <1>1, <1>2, <1>4, <1>5, JobsStay

\* A page that is loaded starts with a poll.
LEMMA PollHasRequests ==
  page' \in Pages => Len(Requests("poll")') \in Nat \ {0}
  <1> SUFFICES ASSUME page' \in Pages PROVE Len(Requests("poll")') \in Nat \ {0}
    OBVIOUS
  <1>1. CASE page' = "alerts"
    <2>1. Requests("poll")' = <<"alerts", "blocked-ips">>
      BY <1>1 DEF Requests
    <2> QED BY <2>1
  <1>2. CASE page' = "overview"
    <2>1. Requests("poll")' = <<"stats", "events-over-time", "top-event-ids", "alerts", "events">>
      BY <1>2 DEF Requests
    <2> QED BY <2>1
  <1> QED BY <1>1, <1>2 DEF Pages

\* The calls keep their shape.
LEMMA JobsNext == PageInv /\ [PageNext]_pageVars => JobsInv'
  <1> SUFFICES ASSUME PageInv, [PageNext]_pageVars PROVE JobsInv'
    OBVIOUS
  <1> USE DEF PageInv
  <1>p. page \in Pages /\ filter \in Filters
    BY DEF FlagsInv
  <1>r. shown.rows \subseteq Rows
    BY DEF RowsInv
  <1>1. ASSUME NEW t \in Slots, Answered(t) PROVE JobsInv'
    <2>1. /\ Job(t) /\ UNCHANGED <<page, alerts>>
          /\ DOMAIN tasks' = Slots /\ \A u \in Slots \ {t} : tasks'[u] = tasks[u]
      BY <1>1, AnsweredEffect
    <2>2. PICK a : /\ tasks'[t] = [kind |-> tasks[t].kind, asked |-> tasks[t].asked,
                                   at |-> tasks[t].at, reply |-> a]
                   /\ a # Failed =>
                        /\ Request(t) = "alerts" =>
                              a = Table(tasks[t].asked)
                        /\ Request(t) = "stats" => a = Totals
                        /\ Request(t) = "blocked-ips" => a = blocked
      BY <1>1, AnsweredEffect
    <2>3. /\ tasks'[t].kind = tasks[t].kind /\ tasks'[t].asked = tasks[t].asked
          /\ tasks'[t].at = tasks[t].at /\ tasks'[t].reply = a
      BY <2>2
    <2>4. /\ Requests(tasks[t].kind)' = Requests(tasks[t].kind) /\ Request(t)' = Request(t)
          /\ Rows' = Rows
      BY <2>1, <2>3 DEF Requests, Request, Rows
    <2>5. AnswerInv(t)'
      <3>1. Request(t) = "alerts" => tasks[t].asked \in Filters
        BY <1>p, <2>1, RequestsOf DEF Job, Request
      <3>2. \A f : Newest(f) \subseteq Rows
        BY DEF Newest, Selected, Stored, Rows, RowsInv
      <3>3. blocked \subseteq Sources
        BY DEF RowsInv
      <3>4. Sources' = Sources
        BY DEF Sources
      <3>5. a # Failed => /\ Request(t) = "alerts" => a.asked \in Filters /\ a.rows \subseteq Rows
                          /\ Request(t) = "blocked-ips" => a \subseteq Sources
        BY <2>2, <3>1, <3>2, <3>3 DEF Table
      <3> QED BY <2>3, <2>4, <3>4, <3>5 DEF AnswerInv
    <2>6. Job(t)'
      BY <2>1, <2>2, <2>3, <2>4, <2>5 DEF Job
    <2> QED BY <2>1, <2>4, <2>6, JobsStay
  <1>2. ASSUME NEW t \in Slots, Continue(t) PROVE JobsInv'
    <2>1. /\ Job(t) /\ UNCHANGED <<page, alerts>>
          /\ DOMAIN tasks' = Slots /\ \A u \in Slots \ {t} : tasks'[u] = tasks[u]
          /\ tasks[t].at < Len(Requests(tasks[t].kind))
          /\ tasks'[t] = [kind |-> tasks[t].kind, asked |-> tasks[t].asked,
                          at |-> tasks[t].at + 1, reply |-> NoReply]
      BY <1>2, ContinueEffect
    <2>2. /\ tasks'[t].kind = tasks[t].kind /\ tasks'[t].asked = tasks[t].asked
          /\ tasks'[t].at = tasks[t].at + 1 /\ tasks'[t].reply = NoReply
      BY <2>1
    <2>3. Requests(tasks[t].kind)' = Requests(tasks[t].kind) /\ Rows' = Rows
      BY <2>1, <2>2 DEF Requests, Rows
    <2>4. tasks'[t].at \in 1..Len(Requests(tasks[t].kind))
      <3>1. Len(Requests(tasks[t].kind)) \in Nat
        BY <1>p, <2>1, RequestsOf DEF Job
      <3> QED BY <2>1, <2>2, <3>1 DEF Job
    <2>5. Job(t)'
      BY <2>1, <2>2, <2>3, <2>4 DEF Job, AnswerInv
    <2> QED BY <2>1, <2>3, <2>5, JobsStay
  <1>3. ASSUME NEW t \in Slots, Finish(t) \/ Throw(t) PROVE JobsInv'
    <2>1. /\ UNCHANGED <<page, alerts>>
          /\ DOMAIN tasks' = Slots /\ \A u \in Slots \ {t} : tasks'[u] = tasks[u]
          /\ tasks'[t] = Idle \/ tasks'[t] = Call("list", All)
      BY <1>3, EndEffect
    <2>2. CASE tasks'[t] = Idle
      BY <2>1, <2>2, JobsStay DEF Rows
    <2>3. CASE tasks'[t] = Call("list", All)
      <3>1. "list" \in Kinds
        BY DEF Kinds
      <3> QED BY <1>p, <2>1, <2>3, <3>1, NewJob
    <2> QED BY <2>1, <2>2, <2>3
  <1>4. ASSUME StartPoll, Free # {}, UNCHANGED <<page, alerts>> PROVE JobsInv'
    <2>1. "poll" \in Kinds
      BY DEF Kinds
    <2>2. NextFree \in Slots /\ tasks[NextFree] = Idle
      BY <1>4, NextIsFree
    <2> QED BY <1>p, <1>4, <2>1, <2>2, NewJob DEF StartPoll, Asked
  <1>5. CASE ChangeFilter
    <2>1. "change" \in Kinds
      BY DEF Kinds
    <2>2. NextFree \in Slots /\ tasks[NextFree] = Idle
      BY <1>5, NextIsFree DEF ChangeFilter
    <2>3. PICK f \in Filters : tasks' = [tasks EXCEPT ![NextFree] = Call("change", f)]
      BY <1>5 DEF ChangeFilter
    <2>4. UNCHANGED <<page, alerts>>
      BY <1>5 DEF ChangeFilter, database
    <2> QED BY <1>p, <2>1, <2>2, <2>3, <2>4, NewJob
  <1>6. CASE Click
    <2>1. "block" \in Kinds /\ "unblock" \in Kinds
      BY DEF Kinds
    <2>2. NextFree \in Slots /\ tasks[NextFree] = Idle
      BY <1>6, NextIsFree DEF Click
    <2>3. UNCHANGED <<page, alerts>>
      BY <1>6 DEF Click, database, window
    <2>4. ASSUME NEW i \in shown.rows, tasks' = [tasks EXCEPT ![NextFree] = Call("block", i)]
          PROVE  JobsInv'
      BY <1>p, <1>r, <2>1, <2>2, <2>3, <2>4, NewJob
    <2>5. ASSUME NEW ip \in listed, tasks' = [tasks EXCEPT ![NextFree] = Call("unblock", ip)]
          PROVE  JobsInv'
      BY <1>p, <2>1, <2>2, <2>3, <2>5, NewJob
    <2> QED BY <1>6, <2>4, <2>5 DEF Click
  <1>7. CASE OpenLink
    <2>1. tasks' = Unloaded /\ page' \in Pages
      BY <1>7 DEF OpenLink
    <2>2. /\ DOMAIN tasks' = Slots /\ 1 \in Slots /\ tasks'[1] = Call("poll", All)
          /\ \A u \in Slots \ {1} : tasks'[u] = Idle
      BY <2>1, PageAssumption DEF Unloaded, Slots
    <2>3. /\ tasks'[1].kind = "poll" /\ tasks'[1].asked = All /\ tasks'[1].at = 1
          /\ tasks'[1].reply = NoReply
          /\ tasks'[1] = [kind |-> "poll", asked |-> All, at |-> 1, reply |-> NoReply]
      BY <2>2 DEF Call
    <2>4. 1 \in 1..Len(Requests("poll")') /\ "poll" \in Kinds
      <3>1. Len(Requests("poll")') \in Nat \ {0}
        BY <2>1, PollHasRequests
      <3> QED BY <3>1 DEF Kinds
    <2>5. Job(1)'
      BY <2>3, <2>4, PageAssumption DEF Job, AnswerInv
    <2> QED BY <2>2, <2>5 DEF JobsInv, Idle
  <1>8. ASSUME UNCHANGED <<page, tasks>>, Rows \subseteq Rows' PROVE JobsInv'
    BY <1>8, JobStays DEF JobsInv, Idle
  <1>9. ASSUME UNCHANGED <<page, tasks, alerts>> PROVE JobsInv'
    BY <1>8, <1>9 DEF Rows
  <1>10. CASE Tick
    BY <1>4, <1>10 DEF Tick, database, window
  <1>11. CASE Show
    <2>1. UNCHANGED <<page, alerts>> /\ Free # {} /\ (UNCHANGED tasks \/ StartPoll)
      BY <1>11 DEF Show, database
    <2> QED BY <1>4, <1>9, <2>1
  <1>12. CASE Hide
    BY <1>9, <1>12 DEF Hide, database
  <1>13. CASE Stop \/ Restart \/ PurgeAlerts \/ BlockElsewhere \/ UNCHANGED pageVars
    BY <1>9, <1>13 DEF Stop, Restart, PurgeAlerts, BlockElsewhere, pageVars, database, window
  <1>14. CASE InsertAlert
    <2>1. UNCHANGED <<page, tasks>> /\ \E a \in Arriving : alerts' = Append(alerts, a)
      BY <1>14 DEF InsertAlert, window
    <2>2. Rows \subseteq Rows'
      BY <2>1 DEF Rows, RowsInv
    <2> QED BY <1>8, <2>1, <2>2
  <1> QED BY <1>1, <1>2, <1>3, <1>5, <1>6, <1>7, <1>10, <1>11, <1>12, <1>13, <1>14, PageSteps

\* A poll begins only when there is none, and takes the flag down when it ends.
LEMMA PollNext == PageInv /\ [PageNext]_pageVars => PollInv'
  <1> SUFFICES ASSUME PageInv, [PageNext]_pageVars PROVE PollInv'
    OBVIOUS
  <1> USE DEF PageInv
  \* It is enough to know what becomes of one call.
  <1>0. ASSUME UNCHANGED running, NEW t \in Slots, \A u \in Slots \ {t} : tasks'[u] = tasks[u],
               tasks'[t].kind = "poll" <=> tasks[t].kind = "poll"
        PROVE  PollInv'
    <2>1. \A u \in Slots : tasks'[u].kind = "poll" <=> tasks[u].kind = "poll"
      BY <1>0
    <2> QED BY <1>0, <2>1 DEF PollInv
  <1>1. ASSUME NEW t \in Slots, Answered(t) PROVE PollInv'
    <2>1. /\ UNCHANGED running /\ \A u \in Slots \ {t} : tasks'[u] = tasks[u]
      BY <1>1, AnsweredEffect
    <2>2. \E k, a : tasks'[t] = [kind |-> tasks[t].kind, asked |-> tasks[t].asked,
                                  at |-> k, reply |-> a]
      BY <1>1, AnsweredEffect, ZenonT(60)
    <2>3. tasks'[t].kind = tasks[t].kind
      BY <2>2
    <2> QED BY <1>0, <2>1, <2>3
  <1>2. ASSUME NEW t \in Slots, Continue(t) PROVE PollInv'
    <2>1. /\ UNCHANGED running /\ \A u \in Slots \ {t} : tasks'[u] = tasks[u]
      BY <1>2, ContinueEffect
    <2>2. \E k, a : tasks'[t] = [kind |-> tasks[t].kind, asked |-> tasks[t].asked,
                                  at |-> k, reply |-> a]
      BY <1>2, ContinueEffect, Zenon
    <2>3. tasks'[t].kind = tasks[t].kind
      BY <2>2
    <2> QED BY <1>0, <2>1, <2>3
  <1>3. ASSUME NEW t \in Slots, Finish(t) \/ Throw(t) PROVE PollInv'
    <2>1. /\ \A u \in Slots \ {t} : tasks'[u] = tasks[u]
          /\ tasks[t].kind = "poll" => running' = FALSE
          /\ tasks[t].kind # "poll" => UNCHANGED running
          /\ tasks'[t] = Idle \/ tasks'[t] = Call("list", All)
      BY <1>3, EndEffect
    <2>2. tasks'[t].kind # "poll"
      BY <2>1 DEF Idle, Call
    <2>3. CASE tasks[t].kind = "poll"
      <3>1. \A u \in Slots : tasks'[u].kind # "poll"
        BY <2>1, <2>2, <2>3 DEF PollInv
      <3> QED BY <2>1, <2>3, <3>1 DEF PollInv
    <2>4. CASE tasks[t].kind # "poll"
      BY <1>0, <2>1, <2>2, <2>4
    <2> QED BY <2>3, <2>4
  <1>4. ASSUME StartPoll, ~running, Free # {} PROVE PollInv'
    <2>1. /\ NextFree \in Slots /\ running' = TRUE
          /\ tasks' = [tasks EXCEPT ![NextFree] = Call("poll", Asked)] /\ DOMAIN tasks = Slots
      BY <1>4, NextIsFree DEF StartPoll, JobsInv
    <2>2. /\ tasks'[NextFree].kind = "poll"
          /\ \A u \in Slots \ {NextFree} : tasks'[u] = tasks[u]
      BY <2>1 DEF Call
    <2>3. \A u \in Slots : tasks[u].kind # "poll"
      BY <1>4 DEF PollInv
    <2> QED BY <2>1, <2>2, <2>3 DEF PollInv
  <1>5. ASSUME UNCHANGED running, Free # {}, NEW kind \in {"change", "block", "unblock"}, NEW asked,
               tasks' = [tasks EXCEPT ![NextFree] = Call(kind, asked)]
        PROVE  PollInv'
    <2>1. NextFree \in Slots /\ tasks[NextFree].kind = "idle" /\ DOMAIN tasks = Slots
      BY <1>5, NextIsFree DEF JobsInv, Idle
    <2>2. /\ tasks'[NextFree].kind = kind
          /\ \A u \in Slots \ {NextFree} : tasks'[u] = tasks[u]
      BY <1>5, <2>1 DEF Call
    <2> QED BY <1>0, <1>5, <2>1, <2>2
  <1>6. CASE Tick
    BY <1>4, <1>6 DEF Tick, MayTick
  <1>7. ASSUME UNCHANGED <<running, tasks>> PROVE PollInv'
    BY <1>7 DEF PollInv
  <1>8. CASE Show
    <2>1. (running /\ UNCHANGED <<running, tasks>>) \/ (~running /\ Free # {} /\ StartPoll)
      BY <1>8 DEF Show
    <2> QED BY <1>4, <1>7, <2>1
  <1>9. CASE ChangeFilter
    BY <1>5, <1>9 DEF ChangeFilter
  <1>10. CASE Click
    BY <1>5, <1>10 DEF Click
  <1>11. CASE OpenLink
    <2>1. running' = TRUE /\ tasks' = Unloaded
      BY <1>11 DEF OpenLink
    <2>2. /\ 1 \in Slots /\ tasks'[1].kind = "poll"
          /\ \A u \in Slots \ {1} : tasks'[u].kind = "idle"
      BY <2>1, PageAssumption DEF Unloaded, Slots, Call, Idle
    <2> QED BY <2>1, <2>2 DEF PollInv
  <1>12. CASE Hide \/ Stop \/ Restart \/ InsertAlert \/ PurgeAlerts \/ BlockElsewhere
              \/ UNCHANGED pageVars
    BY <1>7, <1>12 DEF Hide, Stop, Restart, InsertAlert, PurgeAlerts, BlockElsewhere, pageVars
  <1> QED BY <1>1, <1>2, <1>3, <1>6, <1>8, <1>9, <1>10, <1>11, <1>12, PageSteps

\* What is on the screen was in the database, whose rows keep their numbers.
LEMMA RowsNext == PageInv /\ [PageNext]_pageVars => RowsInv'
  <1> SUFFICES ASSUME PageInv, [PageNext]_pageVars PROVE RowsInv'
    OBVIOUS
  <1> USE DEF PageInv
  <1>s. Sources' = Sources /\ Ids' = Ids
    BY DEF Sources, Ids
  <1>0. ASSUME UNCHANGED <<alerts, purged, seen, first, shown, listed, marked>>, blocked' \subseteq Sources
        PROVE  RowsInv'
    BY <1>s, <1>0 DEF RowsInv, Rows
  <1>1. ASSUME NEW t \in Slots, Answered(t) PROVE RowsInv'
    BY <1>0, <1>1, AnsweredEffect
  \* An answer that is drawn.
  <1>2. ASSUME NEW t \in Slots, Job(t), tasks[t].reply \notin {NoReply, Failed}, Draw(t),
               UNCHANGED <<alerts, purged, blocked>>
        PROVE  RowsInv'
    <2>1. AnswerInv(t) /\ Rows' = Rows
      BY <1>2 DEF Job, Rows
    <2>2. listed' \subseteq Sources
      BY <1>2, <2>1, DrawEffect DEF AnswerInv, RowsInv
    <2>3. CASE UNCHANGED <<rendered, seen, shown, first, marked>>
      BY <1>2, <1>s, <2>1, <2>2, <2>3 DEF RowsInv
    <2>4. CASE Request(t) = "alerts" /\ RenderAlerts(tasks[t].reply)
      <3> DEFINE answer == tasks[t].reply
      <3>1. answer.asked \in Filters /\ answer.rows \subseteq Rows
        BY <1>2, <2>1, <2>4 DEF AnswerInv
      <3> HIDE DEF answer
      <3>2. /\ marked' = [i \in Ids |-> marked[i] + IF i \in Unseen(answer.rows) THEN 1 ELSE 0]
            /\ seen' = seen \cup answer.rows /\ shown' = answer
            /\ first' = first \/ first' = answer.rows
        BY <2>4 DEF RenderAlerts, answer
      <3>3. marked' \in [Ids -> Nat]
        <4>1. \A i \in Ids : marked[i] \in Nat
          BY DEF RowsInv
        <4>2. \A i \in Ids : (marked[i] + IF i \in Unseen(answer.rows) THEN 1 ELSE 0) \in Nat
          BY <4>1
        <4> QED BY <3>2, <4>2
      <3>4. seen' \subseteq Rows /\ first' \subseteq Rows /\ shown'.rows \subseteq Rows /\ shown'.asked \in Filters
        BY <3>1, <3>2 DEF RowsInv
      <3>5. /\ alerts' \in Seq(Arriving) /\ Len(alerts') <= MaxAlerts /\ blocked' \subseteq Sources
            /\ purged' \in 0..Len(alerts')
        BY <1>2 DEF RowsInv
      <3> QED BY <1>s, <2>1, <2>2, <3>3, <3>4, <3>5 DEF RowsInv
    <2> QED BY <1>2, <2>3, <2>4, DrawEffect
  <1>3. ASSUME NEW t \in Slots, Continue(t) PROVE RowsInv'
    BY <1>2, <1>3, ContinueEffect
  <1>4. ASSUME NEW t \in Slots, Finish(t) \/ Throw(t) PROVE RowsInv'
    <2>1. /\ Job(t) /\ tasks[t].reply # NoReply /\ UNCHANGED <<alerts, purged, blocked>>
          /\ (tasks[t].reply # Failed /\ Draw(t)) \/ UNCHANGED tables
      BY <1>4, EndEffect
    <2>2. blocked \subseteq Sources
      BY DEF RowsInv
    <2> QED BY <1>0, <1>2, <2>1, <2>2 DEF tables
  <1>5. ASSUME UNCHANGED <<database, tables>> PROVE RowsInv'
    BY <1>0, <1>5 DEF database, tables, RowsInv
  <1>6. CASE Tick \/ Hide \/ Show \/ ChangeFilter \/ Click \/ Stop \/ Restart \/ UNCHANGED pageVars
    BY <1>5, <1>6 DEF Tick, Hide, Show, ChangeFilter, Click, Stop, Restart, pageVars
  <1>7. CASE OpenLink
    <2>1. /\ UNCHANGED <<alerts, purged, blocked>> /\ seen' = {} /\ shown' = NoTable /\ listed' = {}
          /\ first' = {} /\ marked' = [i \in Ids |-> 0]
      BY <1>7 DEF OpenLink, database
    <2>2. shown'.rows = {} /\ shown'.asked = All
      BY <2>1 DEF NoTable
    <2> QED BY <1>s, <2>1, <2>2, PageAssumption DEF RowsInv
  <1>8. CASE InsertAlert
    <2>1. /\ Len(alerts) < MaxAlerts /\ UNCHANGED <<purged, blocked, seen, first, shown, listed, marked>>
          /\ \E a \in Arriving : alerts' = Append(alerts, a)
      BY <1>8 DEF InsertAlert, tables
    <2>2. alerts' \in Seq(Arriving) /\ Len(alerts') = Len(alerts) + 1 /\ Len(alerts) \in Nat
      BY <2>1 DEF RowsInv
    <2>3. Len(alerts') <= MaxAlerts /\ Rows \subseteq Rows' /\ purged' \in 0..Len(alerts')
      BY <2>1, <2>2, PageAssumption DEF Rows, RowsInv
    <2> QED BY <1>s, <2>1, <2>2, <2>3 DEF RowsInv
  <1>9. CASE BlockElsewhere
    <2>1. /\ UNCHANGED <<alerts, purged, seen, first, shown, listed, marked>>
          /\ \E ip \in Sources : blocked' \in {blocked \ {ip}, blocked \cup {ip}}
      BY <1>9 DEF BlockElsewhere, tables
    <2>2. blocked' \subseteq Sources
      BY <2>1 DEF RowsInv
    <2> QED BY <1>0, <2>1, <2>2
  <1>10. CASE PurgeAlerts
    <2>1. /\ UNCHANGED <<alerts, blocked, seen, first, shown, listed, marked>>
          /\ \E n \in Stored : purged' = n
      BY <1>10 DEF PurgeAlerts, tables
    <2>2. purged' \in 0..Len(alerts')
      BY <2>1 DEF RowsInv, Stored
    <2> QED BY <1>s, <2>1, <2>2 DEF RowsInv, Rows
  <1> QED BY <1>1, <1>3, <1>4, <1>6, <1>7, <1>8, <1>9, <1>10, PageSteps

\* A new token was preceded by a stop.
LEMMA ServerNext == PageInv /\ [PageNext]_pageVars => ServerInv'
  <1> SUFFICES ASSUME PageInv, [PageNext]_pageVars PROVE ServerInv'
    OBVIOUS
  <1> USE DEF PageInv
  <1>a. MaxTroubles \in Nat
    BY PageAssumption
  <1>b. UNCHANGED up => (up \in BOOLEAN <=> up' \in BOOLEAN) /\ (~up <=> ~up')
    OBVIOUS
  <1>0. ASSUME UNCHANGED <<up, token, cookie>>,
               \/ troubles' = troubles
               \/ troubles < MaxTroubles /\ troubles' = troubles + 1
        PROVE  ServerInv'
    <2>1. troubles' \in 0..MaxTroubles /\ troubles <= troubles' /\ troubles' \in Nat
      BY <1>0, <1>a DEF ServerInv
    <2>2. token' \in Nat /\ cookie' \in 1..token'
      BY <1>0 DEF ServerInv
    <2>3. token' = token /\ token \in Nat /\ troubles \in Nat /\ token <= troubles + 1
      BY <1>0 DEF ServerInv
    <2>4. token' <= troubles' + 1
      <3>1. ASSUME NEW a \in Nat, NEW b \in Nat, NEW c \in Nat, a <= b + 1, b <= c PROVE a <= c + 1
        BY <3>1
      <3>2. token <= troubles' + 1
        BY <2>1, <2>3, <3>1, Zenon
      <3> QED BY <2>3, <3>2, Zenon
    <2>5. ASSUME ~up PROVE token' <= troubles'
      <3>1. token <= troubles
        BY <2>5 DEF ServerInv
      <3> QED BY <2>1, <2>3, <3>1
    <2> QED BY <1>0, <1>b, <2>1, <2>2, <2>4, <2>5 DEF ServerInv
  <1>1. ASSUME NEW t \in Slots, Answered(t) PROVE ServerInv'
    <2>1. /\ UNCHANGED <<up, token, cookie>> /\ troubles' \in {troubles, troubles + 1}
          /\ troubles' = troubles \/ troubles < MaxTroubles
      BY <1>1, AnsweredEffect
    <2> QED BY <1>0, <2>1
  <1>2. ASSUME NEW t \in Slots, Continue(t) PROVE ServerInv'
    BY <1>0, <1>2, ContinueEffect
  <1>3. ASSUME NEW t \in Slots, Finish(t) \/ Throw(t) PROVE ServerInv'
    BY <1>0, <1>3, EndEffect
  <1>4. CASE Tick \/ Hide \/ Show \/ ChangeFilter \/ Click \/ InsertAlert \/ PurgeAlerts
             \/ BlockElsewhere \/ UNCHANGED pageVars
    <2>1. UNCHANGED <<up, token, cookie, troubles>>
      BY <1>4 DEF Tick, Hide, Show, ChangeFilter, Click, InsertAlert, PurgeAlerts,
                  BlockElsewhere, pageVars, server, bounds
    <2> QED BY <1>0, <2>1
  <1>5. CASE OpenLink
    <2>1. cookie' = token /\ UNCHANGED <<up, token, troubles>>
      BY <1>5 DEF OpenLink
    <2> QED BY <2>1 DEF ServerInv
  <1>6. CASE Stop
    <2>1. up' = FALSE /\ troubles < MaxTroubles /\ troubles' = troubles + 1 /\ UNCHANGED <<token, cookie>>
      BY <1>6 DEF Stop
    <2>2. token \in Nat /\ cookie \in 1..token /\ troubles \in Nat /\ token <= troubles + 1
      BY DEF ServerInv
    <2>3. /\ troubles' \in 0..MaxTroubles /\ token' \in Nat /\ cookie' \in 1..token'
          /\ token' <= troubles' + 1 /\ token' <= troubles'
      BY <1>a, <2>1, <2>2
    <2> QED BY <2>1, <2>3 DEF ServerInv
  <1>7. CASE Restart
    <2>1. ~up /\ up' = TRUE /\ token' = token + 1 /\ UNCHANGED <<cookie, troubles>>
      BY <1>7 DEF Restart, bounds
    <2> QED BY <2>1 DEF ServerInv
  <1> QED BY <1>1, <1>2, <1>3, <1>4, <1>5, <1>6, <1>7, PageSteps

LEMMA FlagsNext == PageInv /\ [PageNext]_pageVars => FlagsInv'
  <1> SUFFICES ASSUME PageInv, [PageNext]_pageVars PROVE FlagsInv'
    OBVIOUS
  <1> USE DEF PageInv
  <1>0. UNCHANGED Pages
    BY DEF Pages
  <1>1. ASSUME NEW t \in Slots, Answered(t) PROVE FlagsInv'
    BY <1>0, <1>1, AnsweredEffect, Zenon DEF FlagsInv
  <1>2. ASSUME NEW t \in Slots, Continue(t) PROVE FlagsInv'
    <2>1. UNCHANGED <<page, hidden, filter, running, pill>> /\ Draw(t)
      BY <1>2, ContinueEffect
    <2>2. rendered' \in {rendered, TRUE}
      BY <2>1, DrawEffect DEF RenderAlerts
    <2> QED BY <1>0, <2>1, <2>2, Zenon DEF FlagsInv
  <1>3. ASSUME NEW t \in Slots, Finish(t) \/ Throw(t) PROVE FlagsInv'
    <2>1. /\ UNCHANGED <<page, hidden, filter>> /\ running' \in {running, FALSE}
          /\ pill \in BOOLEAN => pill' \in BOOLEAN
          /\ Draw(t) \/ UNCHANGED tables
      BY <1>3, EndEffect
    <2>2. rendered' \in {rendered, TRUE}
      BY <2>1, DrawEffect DEF RenderAlerts, tables
    <2> QED BY <1>0, <2>1, <2>2, Zenon DEF FlagsInv
  <1>4. CASE OpenLink
    <2>1. /\ page' \in Pages /\ hidden' = FALSE /\ filter' = All /\ running' = TRUE
          /\ rendered' = FALSE /\ pill' = TRUE
      BY <1>4 DEF OpenLink
    <2> QED BY <1>0, <2>1, PageAssumption DEF FlagsInv
  <1>5. ASSUME UNCHANGED <<page, rendered, pill>>, hidden' \in BOOLEAN, filter' \in Filters,
               running' \in BOOLEAN
        PROVE  FlagsInv'
    BY <1>0, <1>5, Zenon DEF FlagsInv
  <1>6. hidden \in BOOLEAN /\ filter \in Filters /\ running \in BOOLEAN
    BY DEF FlagsInv
  <1>7. CASE Tick
    <2>1. UNCHANGED <<page, rendered, pill, hidden, filter>> /\ running' = TRUE
      BY <1>7 DEF Tick, StartPoll, window, tables
    <2> QED BY <1>5, <1>6, <2>1, Zenon
  <1>8. CASE Show
    <2>1. UNCHANGED <<page, rendered, pill, filter>> /\ hidden' = FALSE /\ running' \in {running, TRUE}
      BY <1>8 DEF Show, StartPoll, window, tables
    <2> QED BY <1>5, <1>6, <2>1, Zenon
  <1>9. CASE Hide
    <2>1. UNCHANGED <<page, rendered, pill, filter, running>> /\ hidden' = TRUE
      BY <1>9 DEF Hide, window, tables
    <2> QED BY <1>5, <1>6, <2>1, Zenon
  <1>10. CASE ChangeFilter
    <2>1. UNCHANGED <<page, rendered, pill, hidden, running>> /\ filter' \in Filters
      BY <1>10 DEF ChangeFilter, tables
    <2> QED BY <1>5, <1>6, <2>1, Zenon
  <1>11. CASE Click \/ Stop \/ Restart \/ InsertAlert \/ PurgeAlerts \/ BlockElsewhere
              \/ UNCHANGED pageVars
    <2>1. UNCHANGED <<page, rendered, pill, hidden, filter, running>>
      BY <1>11 DEF Click, Stop, Restart, InsertAlert, PurgeAlerts, BlockElsewhere, pageVars,
                   window, tables
    <2> QED BY <1>5, <1>6, <2>1, Zenon
  <1> QED BY <1>1, <1>2, <1>3, <1>4, <1>7, <1>8, <1>9, <1>10, <1>11, PageSteps

LEMMA PageStart == PageInit => PageInv
  <1> SUFFICES ASSUME PageInit PROVE PageInv
    OBVIOUS
  <1>1. JobsInv /\ PollInv
    <2>1. page \in Pages /\ running = TRUE /\ tasks = Unloaded
      BY DEF PageInit
    <2>2. /\ DOMAIN tasks = Slots /\ 1 \in Slots /\ tasks[1] = Call("poll", All)
          /\ \A u \in Slots \ {1} : tasks[u] = Idle
      BY <2>1, PageAssumption DEF Unloaded, Slots
    <2>3. /\ tasks[1].kind = "poll" /\ tasks[1].asked = All /\ tasks[1].at = 1
          /\ tasks[1].reply = NoReply
          /\ tasks[1] = [kind |-> "poll", asked |-> All, at |-> 1, reply |-> NoReply]
      BY <2>2 DEF Call
    <2>4. 1 \in 1..Len(Requests("poll")) /\ "poll" \in Kinds
      BY <2>1, RequestsOf DEF Kinds
    <2>5. Job(1)
      BY <2>3, <2>4, PageAssumption DEF Job, AnswerInv
    <2>6. \A u \in Slots \ {1} : tasks[u].kind # "poll"
      BY <2>2 DEF Idle
    <2> QED BY <2>1, <2>2, <2>3, <2>5, <2>6 DEF JobsInv, PollInv
  <1>2. RowsInv
    <2>0. alerts = <<>> \/ \E a \in Arriving : alerts = <<a>>
      BY DEF PageInit
    <2>1. alerts \in Seq(Arriving) /\ Len(alerts) \in 0..1
      <3>1. CASE alerts = <<>>
        BY <3>1
      <3>2. ASSUME NEW a \in Arriving, alerts = <<a>> PROVE alerts \in Seq(Arriving) /\ Len(alerts) = 1
        BY <3>2
      <3> QED BY <2>0, <3>1, <3>2
    <2>2. shown.rows = {} /\ shown.asked = All
      BY DEF PageInit, NoTable
    <2>3. Len(alerts) <= MaxAlerts
      <3>1. MaxAlerts \in Nat \ {0}
        BY PageAssumption
      <3> HIDE DEF PageInit
      <3> QED BY <2>1, <3>1
    <2>4. purged \in 0..Len(alerts)
      <3>1. purged = 0
        BY DEF PageInit
      <3> HIDE DEF PageInit
      <3> QED BY <2>1, <3>1
    <2> QED BY <2>1, <2>2, <2>3, <2>4, PageAssumption DEF PageInit, RowsInv
  <1>3. ServerInv
    BY PageAssumption DEF PageInit, ServerInv
  <1>4. FlagsInv
    BY PageAssumption DEF PageInit, FlagsInv
  <1> QED BY <1>1, <1>2, <1>3, <1>4 DEF PageInv

LEMMA PageStays == PageInv /\ [PageNext]_pageVars => PageInv'
  BY JobsNext, PollNext, RowsNext, ServerNext, FlagsNext DEF PageInv

\* What the types are for: the flag counts the polls.
LEMMA FlagCountsPolls ==
  ASSUME PageInv
  PROVE  Cardinality({t \in Slots \ Free : tasks[t].kind = "poll"}) = IF running THEN 1 ELSE 0
  <1> DEFINE polls == {t \in Slots \ Free : tasks[t].kind = "poll"}
  <1>1. polls = {t \in Slots : tasks[t].kind = "poll"}
    BY DEF Free, Idle
  <1>2. running <=> \E t \in Slots : tasks[t].kind = "poll"
    BY DEF PageInv, PollInv
  <1>3. CASE running
    <2>1. PICK t \in Slots : tasks[t].kind = "poll"
      BY <1>2, <1>3
    <2>2. \A u \in Slots : tasks[u].kind = "poll" => t = u
      BY <2>1 DEF PageInv, PollInv
    <2>3. polls = {t}
      BY <1>1, <2>1, <2>2
    <2> QED BY <1>3, <2>3, FS_Singleton
  <1>4. CASE ~running
    <2>1. polls = {}
      BY <1>1, <1>2, <1>4
    <2> QED BY <1>4, <2>1, FS_EmptySet
  <1> QED BY <1>3, <1>4

LEMMA PageTypes == PageInv => TypeOK
  <1> SUFFICES ASSUME PageInv PROVE TypeOK
    OBVIOUS
  <1>1. /\ alerts \in Seq(Arriving) /\ Len(alerts) <= MaxAlerts /\ purged \in 0..Len(alerts)
        /\ blocked \subseteq Sources
        /\ shown.asked \in Filters /\ listed \subseteq Sources /\ marked \in [Ids -> Nat]
    BY DEF PageInv, RowsInv
  <1>2. {up, hidden, running, rendered, pill} \subseteq BOOLEAN
    BY Zenon DEF PageInv, FlagsInv, ServerInv
  <1>3. token \in 1..MaxTroubles + 1 /\ cookie \in 1..token
    <2>1. /\ MaxTroubles \in Nat /\ troubles \in 0..MaxTroubles
          /\ token \in Nat /\ cookie \in 1..token /\ token <= troubles + 1
      BY PageAssumption DEF PageInv, ServerInv
    <2> QED BY <2>1
  <1>4. page \in Pages /\ filter \in Filters
    BY DEF PageInv, FlagsInv
  <1>5. \A t \in Slots \ Free :
           tasks[t].kind \in Kinds /\ tasks[t].at \in 1..Len(Requests(tasks[t].kind))
    BY FreeOrJob DEF PageInv, Free, Job
  <1>6. UNION {seen, shown.rows, first} \subseteq 1..Len(alerts)
    BY DEF PageInv, RowsInv, Rows
  <1> QED BY <1>1, <1>2, <1>3, <1>4, <1>5, <1>6, FlagCountsPolls DEF TypeOK

\* Whatever the requests of the page's calls overtake, whenever the server is stopped
\* and started and whatever the collector adds and the purge deletes meanwhile, each
\* call is one of the functions of dashboard.js at one of its requests, and the flag of
\* startPolling is up exactly while there is a poll, of which there is never a second.
\* A row on the screen is one that was stored once; it need not be stored any more.
THEOREM PageTypeCorrect == PageSpec => []TypeOK
  <1> QED BY PageStart, PageStays, PageTypes, PTL DEF PageSpec

-----------------------------------------------------------------------------
(* What is announced *)

\* Rows are announced when the table shows them for the first time.
LEMMA RenderKeeps ==
  ASSUME PageInv, AnnounceInv, NEW answer, answer.rows \subseteq Rows, RenderAlerts(answer)
  PROVE  AnnounceInv'
  <1>0. Ids' = Ids
    BY DEF Ids
  <1>1. /\ marked' = [i \in Ids |-> marked[i] + IF i \in Unseen(answer.rows) THEN 1 ELSE 0]
        /\ rendered' = TRUE /\ seen' = seen \cup answer.rows
        /\ first' = IF rendered THEN first ELSE answer.rows
    BY DEF RenderAlerts
  <1>2. first' \subseteq seen'
    <2>1. CASE rendered
      BY <1>1, <2>1 DEF AnnounceInv
    <2>2. CASE ~rendered
      BY <1>1, <2>2
    <2> QED BY <2>1, <2>2
  <1>3. ASSUME NEW i \in Ids PROVE marked'[i] <= 1 /\ (marked'[i] = 1 => i \in seen' \ first')
    <2>0. marked[i] \in {0, 1} /\ (marked[i] = 1 => i \in seen \ first)
      BY DEF AnnounceInv, PageInv, RowsInv
    <2>1. CASE i \in Unseen(answer.rows)
      <3>1. rendered /\ i \in answer.rows /\ i \notin seen
        BY <2>1 DEF Unseen
      <3>2. marked[i] = 0 /\ i \notin first
        BY <2>0, <3>1 DEF AnnounceInv
      <3>3. marked'[i] = 1
        BY <1>1, <2>1, <3>2
      <3> QED BY <1>1, <3>1, <3>2, <3>3
    <2>2. CASE i \notin Unseen(answer.rows)
      <3>1. marked'[i] = marked[i]
        BY <1>1, <2>0, <2>2
      <3>2. CASE marked[i] = 0
        BY <3>1, <3>2
      <3>3. CASE marked[i] = 1
        <4>1. rendered /\ i \in seen \ first
          BY <2>0, <3>3 DEF AnnounceInv
        <4> QED BY <1>1, <3>1, <3>3, <4>1
      <3> QED BY <2>0, <3>2, <3>3
    <2> QED BY <2>1, <2>2
  <1> QED BY <1>0, <1>1, <1>2, <1>3 DEF AnnounceInv

LEMMA AnnounceNext == PageInv /\ AnnounceInv /\ [PageNext]_pageVars => AnnounceInv'
  <1> SUFFICES ASSUME PageInv, AnnounceInv, [PageNext]_pageVars PROVE AnnounceInv'
    OBVIOUS
  <1>j. JobsInv /\ RowsInv /\ FlagsInv
    BY DEF PageInv
  <1>0. ASSUME UNCHANGED <<rendered, seen, first, marked>> PROVE AnnounceInv'
    BY <1>0 DEF AnnounceInv, Ids
  <1>1. ASSUME NEW t \in Slots, Answered(t) PROVE AnnounceInv'
    BY <1>0, <1>1, <1>j, AnsweredEffect
  <1>2. ASSUME NEW t \in Slots, Job(t), tasks[t].reply \notin {NoReply, Failed}, Draw(t)
        PROVE  AnnounceInv'
    <2>1. CASE Request(t) = "alerts" /\ RenderAlerts(tasks[t].reply)
      <3>1. tasks[t].reply.rows \subseteq Rows
        BY <1>2, <2>1 DEF Job, AnswerInv
      <3> QED BY <2>1, <3>1, RenderKeeps
    <2> QED BY <1>0, <1>2, <2>1, DrawEffect
  <1>3. ASSUME NEW t \in Slots, Continue(t) PROVE AnnounceInv'
    BY <1>2, <1>3, <1>j, ContinueEffect
  <1>4. ASSUME NEW t \in Slots, Finish(t) \/ Throw(t) PROVE AnnounceInv'
    <2>1. /\ Job(t) /\ tasks[t].reply # NoReply
          /\ (tasks[t].reply # Failed /\ Draw(t)) \/ UNCHANGED tables
      BY <1>4, <1>j, EndEffect
    <2> QED BY <1>0, <1>2, <2>1 DEF tables
  <1>5. CASE OpenLink
    <2>1. /\ rendered' = FALSE /\ seen' = {} /\ first' = {} /\ marked' = [i \in Ids |-> 0]
      BY <1>5 DEF OpenLink
    <2> QED BY <2>1 DEF AnnounceInv, Ids
  <1>6. CASE Tick \/ Hide \/ Show \/ ChangeFilter \/ Click \/ Stop \/ Restart \/ InsertAlert
             \/ PurgeAlerts \/ BlockElsewhere \/ UNCHANGED pageVars
    <2>1. UNCHANGED tables
      BY <1>6 DEF Tick, Hide, Show, ChangeFilter, Click, Stop, Restart, InsertAlert,
                  PurgeAlerts, BlockElsewhere, pageVars
    <2> QED BY <1>0, <2>1 DEF tables
  <1> QED BY <1>1, <1>3, <1>4, <1>5, <1>6, PageSteps

-----------------------------------------------------------------------------
(* The overview's tables *)

\* The newest rows of all severities are the last of the table.
LEMMA NewestOfAll ==
  ASSUME RowsInv
  PROVE  Newest(All) = Cut(purged, Len(alerts))
  <1>1. Len(alerts) \in Nat /\ purged \in 0..Len(alerts) /\ Limit \in Nat
    BY PageAssumption DEF RowsInv
  <1>2. Selected(All) = Stored
    BY DEF Selected
  <1>3. ASSUME NEW i \in Stored
        PROVE  Cardinality({j \in Stored : j > i}) = Len(alerts) - i
    <2>1. i \in Nat /\ purged + 1 <= i /\ i <= Len(alerts)
      BY <1>1, <1>3 DEF Stored
    <2>2. {j \in Stored : j > i} = i + 1..Len(alerts)
      BY <1>1, <2>1 DEF Stored
    <2>3. \A a, b \in Int : Cardinality(a..b) = IF a > b THEN 0 ELSE b - a + 1
      BY FS_Interval
    <2>4. i + 1 \in Int /\ Len(alerts) \in Int
      BY <1>1, <2>1
    <2>5. Cardinality(i + 1..Len(alerts)) =
             IF i + 1 > Len(alerts) THEN 0 ELSE Len(alerts) - (i + 1) + 1
      BY <2>3, <2>4, Zenon
    <2>6. (IF i + 1 > Len(alerts) THEN 0 ELSE Len(alerts) - (i + 1) + 1) = Len(alerts) - i
      BY <1>1, <2>1
    <2> QED BY <2>2, <2>5, <2>6, Zenon
  <1>4. Newest(All) = {i \in Stored : Len(alerts) - i < Limit}
    BY <1>2, <1>3 DEF Newest
  <1> QED BY <1>4 DEF Cut, Stored

\* What a later table has at its end was at the end of an earlier one, or is newer.
LEMMA LaterCut ==
  ASSUME NEW p \in Nat, NEW n \in Nat, NEW q \in Nat, NEW m \in Nat, p <= q, n <= m,
         NEW i \in Cut(q, m), i \notin Cut(p, n)
  PROVE  i > n
  <1>1. i \in Int /\ q + 1 <= i /\ m - i < Limit /\ Limit \in Nat
    BY PageAssumption DEF Cut
  <1>2. ~(i \in p + 1..n /\ n - i < Limit)
    BY DEF Cut
  <1> QED BY <1>1, <1>2

LEMMA CutIsUpTo ==
  ASSUME NEW p \in Nat, NEW n \in Nat, NEW i \in Cut(p, n)
  PROVE  i \in Nat /\ i <= n
  BY DEF Cut

\* On the overview only the poll draws, and what it draws is no older than the screen.
LEMMA DrawAdvances ==
  ASSUME PageInv, OverviewInv, page = "overview", NEW t \in Slots, tasks[t] # Idle,
         tasks[t].reply \notin {NoReply, Failed}, Draw(t)
  PROVE  /\ shown'.asof \in shown.asof..Version
         /\ stats'.asof \in stats.asof..Version
  <1>0. shown.asof \in 0..Version /\ stats.asof \in 0..Version
    BY DEF OverviewInv
  <1>1. PICK p \in 0..purged, n \in 0..Len(alerts) :
              /\ rendered => first = Cut(p, n)
              /\ \A i \in Ids : marked[i] > 0 => i > n
              /\ \A u \in Slots : Recent(u, p, n)
    BY DEF OverviewInv
  <1>2. Recent(t, p, n)
    BY <1>1
  <1>3. stats'.asof \in stats.asof..Version
    <2>1. CASE UNCHANGED stats
      BY <1>0, <2>1
    <2>2. CASE Request(t) = "stats" /\ stats' = tasks[t].reply
      BY <1>2, <2>2 DEF Recent
    <2> QED BY <2>1, <2>2, DrawEffect
  <1>4. shown'.asof \in shown.asof..Version
    <2>1. CASE Request(t) = "alerts" /\ RenderAlerts(tasks[t].reply)
      <3>1. shown' = tasks[t].reply
        BY <2>1 DEF RenderAlerts
      <3> QED BY <1>2, <2>1, <3>1 DEF Recent
    <2>2. CASE UNCHANGED shown
      BY <1>0, <2>2
    <2> QED BY <2>1, <2>2, DrawEffect
  <1> QED BY <1>3, <1>4

\* What is announced on the overview is newer than all of the first table.
LEMMA DrawAnnounces ==
  ASSUME PageInv, AnnounceInv, OverviewInv, page = "overview", NEW t \in Slots, tasks[t] # Idle,
         tasks[t].reply \notin {NoReply, Failed}, Draw(t)
  PROVE  \E p \in 0..purged, n \in 0..Len(alerts) :
            /\ rendered' => first' = Cut(p, n)
            /\ \A i \in Ids : marked'[i] > 0 => i > n
  <1>0. /\ Len(alerts) \in Nat /\ purged \in Nat /\ marked \in [Ids -> Nat]
        /\ (rendered \/ ~rendered) /\ Ids \subseteq Nat
    BY DEF PageInv, RowsInv, Ids
  <1>1. PICK p \in 0..purged, n \in 0..Len(alerts) :
              /\ rendered => first = Cut(p, n)
              /\ \A i \in Ids : marked[i] > 0 => i > n
              /\ \A u \in Slots : Recent(u, p, n)
    BY DEF OverviewInv
  <1>2. CASE UNCHANGED <<rendered, seen, shown, first, marked>>
    BY <1>1, <1>2
  <1>3. CASE Request(t) = "alerts" /\ RenderAlerts(tasks[t].reply)
    <2> DEFINE rows == tasks[t].reply.rows
    <2>1. PICK q \in p..purged, m \in n..Len(alerts) : rows = Cut(q, m)
      BY <1>1, <1>3 DEF Recent
    <2>2. /\ marked' = [i \in Ids |-> marked[i] + IF i \in Unseen(rows) THEN 1 ELSE 0]
          /\ first' = IF rendered THEN first ELSE rows
      BY <1>3 DEF RenderAlerts
    <2>3. p \in Nat /\ n \in Nat /\ q \in Nat /\ m \in Nat /\ p <= q /\ n <= m
      BY <1>0, <2>1
    <2> HIDE DEF rows
    <2>4. CASE rendered
      <3>1. first' = Cut(p, n)
        BY <1>1, <2>2, <2>4
      <3>2. ASSUME NEW i \in Ids, marked'[i] > 0 PROVE i > n
        <4>1. CASE i \in Unseen(rows)
          <5>1. i \in Cut(q, m) /\ i \notin seen
            BY <2>1, <2>4, <4>1 DEF Unseen
          <5>2. i \notin Cut(p, n)
            BY <1>1, <2>4, <5>1 DEF AnnounceInv
          <5> QED BY <2>3, <5>1, <5>2, LaterCut
        <4>2. CASE i \notin Unseen(rows)
          <5>1. marked'[i] = marked[i] + 0 /\ marked[i] \in Nat
            BY <1>0, <2>2, <4>2
          <5>2. marked[i] > 0
            BY <3>2, <5>1
          <5> QED BY <1>1, <5>2
        <4> QED BY <4>1, <4>2
      <3> QED BY <3>1, <3>2
    <2>5. CASE ~rendered
      <3>1. first' = Cut(q, m)
        BY <2>1, <2>2, <2>5
      <3>2. ASSUME NEW i \in Ids, marked'[i] > 0 PROVE i > m
        <4>1. marked'[i] = marked[i] + 0 /\ marked[i] \in Nat
          BY <1>0, <2>2, <2>5 DEF Unseen
        <4>2. marked[i] <= 1 /\ (marked[i] = 1 => i \in seen) /\ seen = {}
          BY <2>5 DEF AnnounceInv
        <4> QED BY <3>2, <4>1, <4>2
      <3>3. q \in 0..purged /\ m \in 0..Len(alerts)
        BY <1>0, <2>1, <2>3
      <3> QED BY <3>1, <3>2, <3>3
    <2> QED BY <2>4, <2>5
  <1> QED BY <1>2, <1>3, DrawEffect

\* What it takes on the overview.
LEMMA OverviewOf ==
  ASSUME filter' = All, shown'.asof \in 0..Version', stats'.asof \in 0..Version',
         NEW p \in 0..purged', NEW n \in 0..Len(alerts'),
         rendered' => first' = Cut(p, n), \A i \in Ids : marked'[i] > 0 => i > n,
         \A u \in Slots : tasks'[u] = Idle \/ (tasks'[u].kind = "poll" /\ tasks'[u].asked = All),
         \A u \in Slots : Recent(u, p, n)'
  PROVE  OverviewInv'
  <1>1. Slots' = Slots /\ Ids' = Ids /\ Idle' = Idle /\ Cut(p, n)' = Cut(p, n)
    BY DEF Slots, Ids, Idle, Cut
  <1>2. /\ rendered' => first' = Cut(p, n)' /\ \A i \in Ids' : marked'[i] > 0 => i > n
        /\ \A u \in Slots' : Recent(u, p, n)'
        /\ \A u \in Slots' : tasks'[u] = Idle' \/ (tasks'[u].kind = "poll" /\ tasks'[u].asked = All)
    BY <1>1
  <1> QED BY <1>2, Zenon DEF OverviewInv

\* The overview when no answer is waiting to be drawn.
LEMMA OverviewQuiet ==
  ASSUME filter' = All, shown'.asof \in 0..Version', stats'.asof \in 0..Version',
         NEW p \in 0..purged', NEW n \in 0..Len(alerts'),
         rendered' => first' = Cut(p, n), \A i \in Ids : marked'[i] > 0 => i > n,
         \A u \in Slots : \/ tasks'[u] = Idle
                          \/ /\ tasks'[u].kind = "poll" /\ tasks'[u].asked = All
                             /\ tasks'[u].reply \in {NoReply, Failed}
  PROVE  OverviewInv'
  <1>1. Slots' = Slots /\ Ids' = Ids /\ Idle' = Idle
    BY DEF Slots, Ids, Idle
  <1>2. \A u \in Slots : Recent(u, p, n)'
    BY <1>1 DEF Recent
  <1>3. \A u \in Slots : tasks'[u] = Idle \/ (tasks'[u].kind = "poll" /\ tasks'[u].asked = All)
    OBVIOUS
  <1> QED BY <1>2, <1>3, OverviewOf

\* An answer stays recent while the table grows and is purged.
LEMMA RecentStays ==
  ASSUME NEW t \in Slots, NEW p \in Nat, NEW n \in Nat, Recent(t, p, n),
         UNCHANGED <<page, shown, stats>>, tasks'[t] = tasks[t],
         {purged, purged', Len(alerts), Len(alerts')} \subseteq Nat,
         purged <= purged', Len(alerts) <= Len(alerts'),
         shown.asof \in Nat, stats.asof \in Nat
  PROVE  Recent(t, p, n)'
  <1>1. Request(t)' = Request(t) /\ Idle' = Idle
    BY DEF Request, Requests, Idle
  <1>2. Version \in Nat /\ Version' \in Nat /\ Version <= Version'
    BY DEF Version
  <1>3. /\ shown.asof..Version \subseteq shown.asof..Version'
        /\ stats.asof..Version \subseteq stats.asof..Version'
    BY <1>2
  <1>4. p..purged \subseteq p..purged' /\ n..Len(alerts) \subseteq n..Len(alerts')
    OBVIOUS
  <1>5. \A q, m : Cut(q, m)' = Cut(q, m)
    BY DEF Cut
  <1> SUFFICES ASSUME tasks[t] # Idle, tasks[t].reply \notin {NoReply, Failed}
               PROVE  /\ Request(t) = "alerts" =>
                           /\ tasks[t].reply.asof \in shown.asof..Version'
                           /\ \E q \in p..purged', m \in n..Len(alerts') : tasks[t].reply.rows = Cut(q, m)
                      /\ Request(t) = "stats" => tasks[t].reply.asof \in stats.asof..Version'
    BY <1>1, <1>5, Zenon DEF Recent
  <1> QED BY <1>3, <1>4 DEF Recent

\* What is on the screen, and what waits to be drawn, is of the past of a database that
\* grew or was purged.
LEMMA OverviewFrame ==
  ASSUME PageInv, OverviewInv, UNCHANGED <<page, filter, rendered, shown, stats, first, marked>>,
         purged' \in Nat, Len(alerts') \in Nat, purged <= purged', Len(alerts) <= Len(alerts'),
         NEW u \in Slots, \A v \in Slots \ {u} : tasks'[v] = tasks[v],
         \/ tasks'[u] = tasks[u]
         \/ tasks'[u] = Idle
         \/ page = "overview" => /\ tasks'[u].kind = "poll" /\ tasks'[u].asked = All
                                 /\ tasks'[u].reply \in {NoReply, Failed}
  PROVE  OverviewInv'
  <1> SUFFICES ASSUME page = "overview" PROVE OverviewInv'
    BY DEF OverviewInv
  <1>0. /\ Len(alerts) \in Nat /\ purged \in Nat
        /\ filter = All /\ shown.asof \in 0..Version /\ stats.asof \in 0..Version
    BY DEF PageInv, RowsInv, OverviewInv
  <1>1. PICK p \in 0..purged, n \in 0..Len(alerts) :
              /\ rendered => first = Cut(p, n)
              /\ \A i \in Ids : marked[i] > 0 => i > n
              /\ \A v \in Slots : Recent(v, p, n)
    BY DEF OverviewInv
  <1>2. p \in Nat /\ n \in Nat /\ p \in 0..purged' /\ n \in 0..Len(alerts')
    BY <1>0, <1>1
  <1>3. /\ shown.asof \in Nat /\ stats.asof \in Nat
        /\ shown'.asof \in 0..Version' /\ stats'.asof \in 0..Version'
    <2>1. Version \in Nat /\ Version' \in Nat /\ Version <= Version'
      BY <1>0 DEF Version
    <2> QED BY <1>0, <2>1
  <1>4. Slots' = Slots /\ Ids' = Ids /\ Idle' = Idle /\ Cut(p, n)' = Cut(p, n)
    BY DEF Slots, Ids, Idle, Cut
  <1>5. ASSUME NEW v \in Slots
        PROVE  /\ tasks'[v] = Idle \/ (tasks'[v].kind = "poll" /\ tasks'[v].asked = All)
               /\ \/ tasks'[v] = tasks[v]
                  \/ tasks'[v] = Idle
                  \/ tasks'[v].reply \in {NoReply, Failed}
    BY DEF OverviewInv
  <1>6. ASSUME NEW v \in Slots PROVE Recent(v, p, n)'
    <2>1. CASE tasks'[v] = tasks[v]
      BY <1>0, <1>1, <1>2, <1>3, <2>1, RecentStays
    <2>2. CASE tasks'[v] = Idle \/ tasks'[v].reply \in {NoReply, Failed}
      BY <1>4, <2>2 DEF Recent
    <2> QED BY <1>5, <2>1, <2>2
  <1>7. /\ filter' = All
        /\ rendered' => first' = Cut(p, n)
        /\ \A i \in Ids : marked'[i] > 0 => i > n
    BY <1>0, <1>1
  <1> QED BY <1>2, <1>3, <1>5, <1>6, <1>7, OverviewOf

LEMMA OverviewNext == PageInv /\ AnnounceInv /\ OverviewInv /\ [PageNext]_pageVars => OverviewInv'
  <1> SUFFICES ASSUME PageInv, AnnounceInv, OverviewInv, [PageNext]_pageVars PROVE OverviewInv'
    OBVIOUS
  <1>j. /\ JobsInv /\ RowsInv /\ FlagsInv /\ Len(alerts) \in Nat /\ purged \in Nat
        /\ purged \in 0..Len(alerts) /\ All \in Filters
    BY PageAssumption DEF PageInv, RowsInv
  <1>0. ASSUME UNCHANGED <<page, filter, tables, alerts, purged, tasks>> PROVE OverviewInv'
    <2>1. 1 \in Slots
      BY PageAssumption DEF Slots
    <2> QED BY <1>j, <1>0, <2>1, OverviewFrame DEF tables
  <1>1. ASSUME NEW t \in Slots, Answered(t) PROVE OverviewInv'
    <2>1. /\ tasks[t] # Idle
          /\ UNCHANGED <<alerts, purged, page, filter, rendered, shown, stats, first, marked>>
          /\ \A u \in Slots \ {t} : tasks'[u] = tasks[u]
      BY <1>1, <1>j, AnsweredEffect
    <2>2. PICK a : /\ tasks'[t] = [kind |-> tasks[t].kind, asked |-> tasks[t].asked,
                                   at |-> tasks[t].at, reply |-> a]
                   /\ a # Failed =>
                        /\ Request(t) = "alerts" =>
                              a = Table(tasks[t].asked)
                        /\ Request(t) = "stats" => a = Totals
                        /\ Request(t) = "blocked-ips" => a = blocked
      BY <1>1, <1>j, AnsweredEffect, Zenon
    <2>3. /\ tasks'[t].kind = tasks[t].kind /\ tasks'[t].asked = tasks[t].asked
          /\ tasks'[t].at = tasks[t].at /\ tasks'[t].reply = a
      BY <2>2
    <2> SUFFICES ASSUME page = "overview" PROVE OverviewInv'
      BY <2>1 DEF OverviewInv
    <2>4. /\ filter = All /\ tasks[t].kind = "poll" /\ tasks[t].asked = All
          /\ shown.asof \in 0..Version /\ stats.asof \in 0..Version
          /\ \A u \in Slots : tasks[u] = Idle \/ (tasks[u].kind = "poll" /\ tasks[u].asked = All)
      BY <2>1 DEF OverviewInv
    <2>5. \A u \in Slots \ {t} : tasks[u] = Idle
      BY <2>4 DEF PageInv, PollInv
    <2>6. PICK p \in 0..purged, n \in 0..Len(alerts) :
              /\ rendered => first = Cut(p, n)
              /\ \A i \in Ids : marked[i] > 0 => i > n
              /\ \A u \in Slots : Recent(u, p, n)
      BY <2>1 DEF OverviewInv
    <2>7. /\ Request(t)' = Request(t) /\ Version' = Version /\ Slots' = Slots /\ Ids' = Ids
          /\ Idle' = Idle /\ Cut(p, n)' = Cut(p, n)
      BY <2>1, <2>3 DEF Request, Requests, Version, Slots, Ids, Idle, Cut
    <2>8. /\ Request(t) = "alerts" /\ a # Failed =>
                /\ a.asof \in shown.asof..Version
                /\ \E q \in p..purged, m \in n..Len(alerts) : a.rows = Cut(q, m)
          /\ Request(t) = "stats" /\ a # Failed => a.asof \in stats.asof..Version
      <3>1. /\ Version \in shown.asof..Version /\ Version \in stats.asof..Version
            /\ Len(alerts) \in n..Len(alerts) /\ purged \in p..purged
        <4>1. Version \in Nat
          BY <1>j DEF Version
        <4> QED BY <1>j, <2>4, <2>6, <4>1
      <3>2. Newest(All) = Cut(purged, Len(alerts))
        BY <1>j, NewestOfAll
      <3>3. ASSUME Request(t) = "alerts", a # Failed
            PROVE  a.rows = Newest(All) /\ a.asof = Version
        BY <2>2, <2>4, <3>3 DEF Table
      <3>4. ASSUME Request(t) = "stats", a # Failed PROVE a.asof = Version
        BY <2>2, <3>4 DEF Totals
      <3> QED BY <3>1, <3>2, <3>3, <3>4
    <2>9. ASSUME NEW u \in Slots PROVE Recent(u, p, n)'
      <3>1. CASE u = t
        <4>1. \A q, m : Cut(q, m)' = Cut(q, m)
          BY DEF Cut
        <4> QED BY <2>1, <2>3, <2>7, <2>8, <3>1, <4>1, Zenon DEF Recent
      <3>2. CASE u # t
        BY <2>1, <2>5, <2>7, <3>2 DEF Recent
      <3> QED BY <3>1, <3>2
    <2>10. \A u \in Slots : tasks'[u] = Idle \/ (tasks'[u].kind = "poll" /\ tasks'[u].asked = All)
      BY <2>1, <2>3, <2>4
    <2>11. /\ filter' = All /\ shown'.asof \in 0..Version' /\ stats'.asof \in 0..Version'
           /\ p \in 0..purged' /\ n \in 0..Len(alerts')
      BY <2>1, <2>4, <2>6, <2>7
    <2>12. (rendered' => first' = Cut(p, n)) /\ \A i \in Ids : marked'[i] > 0 => i > n
      BY <2>1, <2>6
    <2> QED BY <2>9, <2>10, <2>11, <2>12, OverviewOf
  \* An answer that is drawn is gone, and with it the last that was waiting.
  <1>2. ASSUME page = "overview", NEW t \in Slots, tasks[t] # Idle,
               tasks[t].reply \notin {NoReply, Failed}, Draw(t),
               UNCHANGED <<page, filter, alerts, purged>>, \A u \in Slots \ {t} : tasks'[u] = tasks[u],
               \/ tasks'[t] = Idle
               \/ /\ tasks'[t].kind = tasks[t].kind /\ tasks'[t].asked = tasks[t].asked
                  /\ tasks'[t].reply = NoReply
        PROVE  OverviewInv'
    <2>1. /\ filter' = All /\ tasks[t].kind = "poll" /\ tasks[t].asked = All
          /\ shown.asof \in 0..Version /\ stats.asof \in 0..Version
          /\ \A u \in Slots : tasks[u] = Idle \/ (tasks[u].kind = "poll" /\ tasks[u].asked = All)
      BY <1>2 DEF OverviewInv
    <2>2. \A u \in Slots \ {t} : tasks'[u] = Idle
      BY <1>2, <2>1 DEF PageInv, PollInv
    <2>3. shown'.asof \in shown.asof..Version /\ stats'.asof \in stats.asof..Version
      BY <1>2, DrawAdvances
    <2>4. PICK p \in 0..purged, n \in 0..Len(alerts) :
            /\ rendered' => first' = Cut(p, n)
            /\ \A i \in Ids : marked'[i] > 0 => i > n
      BY <1>2, DrawAnnounces
    <2>5. shown'.asof \in 0..Version' /\ stats'.asof \in 0..Version'
      <3>1. Version' = Version /\ Version \in Nat
        BY <1>j, <1>2 DEF Version
      <3> QED BY <2>1, <2>3, <3>1
    <2>6. \A u \in Slots : \/ tasks'[u] = Idle
                           \/ /\ tasks'[u].kind = "poll" /\ tasks'[u].asked = All
                              /\ tasks'[u].reply \in {NoReply, Failed}
      BY <1>2, <2>1, <2>2
    <2>7. p \in 0..purged' /\ n \in 0..Len(alerts')
      BY <1>2, <2>4
    <2> QED BY <2>1, <2>4, <2>5, <2>6, <2>7, OverviewQuiet
  <1>3. ASSUME NEW t \in Slots, Continue(t) PROVE OverviewInv'
    <2>1. /\ tasks[t] # Idle /\ tasks[t].reply \notin {NoReply, Failed} /\ Draw(t)
          /\ UNCHANGED <<page, filter, alerts, purged>> /\ \A u \in Slots \ {t} : tasks'[u] = tasks[u]
          /\ tasks'[t] = [kind |-> tasks[t].kind, asked |-> tasks[t].asked,
                          at |-> tasks[t].at + 1, reply |-> NoReply]
      BY <1>3, <1>j, ContinueEffect
    <2>2. /\ tasks'[t].kind = tasks[t].kind /\ tasks'[t].asked = tasks[t].asked
          /\ tasks'[t].reply = NoReply
      BY <2>1
    <2>3. CASE page = "overview"
      BY <1>2, <2>1, <2>2, <2>3
    <2>4. CASE page # "overview"
      BY <2>1, <2>4 DEF OverviewInv
    <2> QED BY <2>3, <2>4
  <1>4. ASSUME NEW t \in Slots, Finish(t) \/ Throw(t) PROVE OverviewInv'
    <2>1. /\ tasks[t] # Idle /\ tasks[t].reply # NoReply
          /\ (tasks[t].reply # Failed /\ Draw(t)) \/ UNCHANGED tables
          /\ UNCHANGED <<page, filter, alerts, purged>> /\ \A u \in Slots \ {t} : tasks'[u] = tasks[u]
          /\ tasks'[t] = Idle \/ tasks[t].kind \in {"block", "unblock"}
      BY <1>4, <1>j, EndEffect
    <2> SUFFICES ASSUME page = "overview" PROVE OverviewInv'
      BY <2>1 DEF OverviewInv
    <2>2. tasks'[t] = Idle
      BY <2>1 DEF OverviewInv
    <2>3. CASE tasks[t].reply # Failed /\ Draw(t)
      BY <1>2, <2>1, <2>2, <2>3
    <2>4. CASE UNCHANGED tables
      <3>1. UNCHANGED <<rendered, shown, stats, first, marked>>
        BY <2>4 DEF tables
      <3> QED BY <1>j, <2>1, <2>2, <3>1, OverviewFrame
    <2> QED BY <2>1, <2>3, <2>4
  \* A call that is started has no answer yet.
  <1>5. ASSUME UNCHANGED <<page, filter, tables, alerts, purged>>, StartPoll, Free # {}
        PROVE  OverviewInv'
    <2>1. /\ NextFree \in Slots /\ DOMAIN tasks = Slots
          /\ tasks' = [tasks EXCEPT ![NextFree] = Call("poll", filter)]
      BY <1>5, <1>j, NextIsFree DEF StartPoll, JobsInv, Asked
    <2>2. /\ tasks'[NextFree].kind = "poll" /\ tasks'[NextFree].asked = filter
          /\ tasks'[NextFree].reply = NoReply
          /\ \A u \in Slots \ {NextFree} : tasks'[u] = tasks[u]
      BY <2>1 DEF Call
    <2>3. page = "overview" => filter = All
      BY DEF OverviewInv
    <2> QED BY <1>j, <1>5, <2>1, <2>2, <2>3, OverviewFrame DEF tables
  <1>6. CASE Tick
    BY <1>5, <1>6 DEF Tick, window, database
  <1>7. CASE Show
    <2>1. UNCHANGED <<page, filter, tables, alerts, purged>>
      BY <1>7 DEF Show, database
    <2>2. UNCHANGED tasks \/ (Free # {} /\ StartPoll)
      BY <1>7 DEF Show
    <2> QED BY <1>0, <1>5, <2>1, <2>2
  <1>8. CASE ChangeFilter \/ Click
    <2>1. page' = "alerts"
      BY <1>8 DEF ChangeFilter, Click, window
    <2> QED BY <2>1 DEF OverviewInv
  <1>9. CASE OpenLink
    <2>1. /\ UNCHANGED <<alerts, purged>> /\ filter' = All /\ shown' = NoTable
          /\ stats' = NothingDrawn /\ tasks' = Unloaded /\ rendered' = FALSE
          /\ marked' = [i \in Ids |-> 0]
      BY <1>9 DEF OpenLink, database
    <2>2. shown'.asof = 0 /\ stats'.asof = 0
      BY <2>1 DEF NoTable, NothingDrawn
    <2>3. \A u \in Slots : \/ tasks'[u] = Idle
                           \/ /\ tasks'[u].kind = "poll" /\ tasks'[u].asked = All
                              /\ tasks'[u].reply \in {NoReply, Failed}
      BY <2>1 DEF Unloaded, Call
    <2>4. /\ 0 \in 0..Len(alerts') /\ 0 \in 0..purged'
          /\ shown'.asof \in 0..Version' /\ stats'.asof \in 0..Version'
      BY <1>j, <2>1, <2>2 DEF Version
    <2>5. (rendered' => first' = Cut(0, 0)) /\ \A i \in Ids : marked'[i] > 0 => i > 0
      BY <2>1
    <2> QED BY <2>1, <2>3, <2>4, <2>5, OverviewQuiet
  <1>10. CASE InsertAlert
    <2>1. /\ UNCHANGED <<purged, page, filter, rendered, shown, stats, first, marked, tasks>>
          /\ \E a \in Arriving : alerts' = Append(alerts, a)
      BY <1>10 DEF InsertAlert, window, tables
    <2>2. Len(alerts') \in Nat /\ Len(alerts) <= Len(alerts')
      BY <2>1, <1>j DEF RowsInv
    <2>3. 1 \in Slots /\ purged' \in Nat /\ purged <= purged'
      BY <1>j, <2>1, PageAssumption DEF Slots
    <2> QED BY <2>1, <2>2, <2>3, OverviewFrame
  <1>11. CASE PurgeAlerts
    <2>1. /\ UNCHANGED <<alerts, page, filter, rendered, shown, stats, first, marked, tasks>>
          /\ \E n \in Stored : purged' = n
      BY <1>11 DEF PurgeAlerts, window, tables
    <2>2. purged' \in Nat /\ purged <= purged' /\ Len(alerts') \in Nat /\ Len(alerts) <= Len(alerts')
      BY <1>j, <2>1 DEF Stored
    <2>3. 1 \in Slots
      BY PageAssumption DEF Slots
    <2> QED BY <2>1, <2>2, <2>3, OverviewFrame
  <1>12. CASE Hide \/ Stop \/ Restart \/ BlockElsewhere \/ UNCHANGED pageVars
    <2>1. UNCHANGED <<page, filter, tables, alerts, purged, tasks>>
      BY <1>12 DEF Hide, Stop, Restart, BlockElsewhere, pageVars, window, database
    <2> QED BY <1>0, <2>1
  <1> QED BY <1>1, <1>3, <1>4, <1>6, <1>7, <1>8, <1>9, <1>10, <1>11, <1>12, PageSteps

LEMMA OverviewStart == PageInit => OverviewInv
  <1> SUFFICES ASSUME PageInit PROVE OverviewInv
    OBVIOUS
  <1>1. /\ filter = All /\ shown = NoTable /\ stats = NothingDrawn /\ tasks = Unloaded
        /\ purged = 0 /\ rendered = FALSE /\ marked = [i \in Ids |-> 0]
    BY DEF PageInit
  <1>2. Len(alerts) \in Nat
    BY PageStart DEF PageInv, RowsInv
  <1>3. shown.asof \in 0..Version /\ stats.asof \in 0..Version /\ 0 \in 0..purged /\ 0 \in 0..Len(alerts)
    BY <1>1, <1>2 DEF NoTable, NothingDrawn, Version
  <1>4. \A t \in Slots : \/ tasks[t] = Idle
                         \/ /\ tasks[t].kind = "poll" /\ tasks[t].asked = All
                            /\ tasks[t].reply = NoReply
    BY <1>1 DEF Unloaded, Call
  <1>5. /\ rendered => first = Cut(0, 0) /\ \A i \in Ids : marked[i] > 0 => i > 0
        /\ \A t \in Slots : Recent(t, 0, 0)
    BY <1>1, <1>4 DEF Recent
  <1> QED BY <1>1, <1>3, <1>4, <1>5 DEF OverviewInv

\* However the refreshes of the page overlap, whatever the filter was when each of them
\* asked, in whatever order their answers are drawn and whatever the purge deletes, no
\* alert is announced as new twice, none that was in the page's first table is, and on
\* the overview none that is older than those.
THEOREM AnnouncedAtMostOnce == PageSpec => []AnnouncedOnce
  <1>1. PageInit => AnnounceInv
    BY DEF PageInit, AnnounceInv
  <1>2. PageInv /\ AnnounceInv /\ OverviewInv => AnnouncedOnce
    <2> SUFFICES ASSUME PageInv, AnnounceInv, OverviewInv, NEW i \in Ids
                 PROVE  /\ marked[i] + (IF i \in first THEN 1 ELSE 0) <= 1
                        /\ page = "overview" /\ marked[i] > 0 => \A j \in first : i > j
      BY DEF AnnouncedOnce
    <2>1. marked[i] \in {0, 1} /\ (marked[i] = 1 => i \in seen \ first)
      BY DEF PageInv, RowsInv, AnnounceInv
    <2>2. ASSUME page = "overview", marked[i] > 0, NEW j \in first PROVE i > j
      <3>1. PICK p \in 0..purged, n \in 0..Len(alerts) :
              /\ rendered => first = Cut(p, n)
              /\ \A k \in Ids : marked[k] > 0 => k > n
              /\ \A t \in Slots : Recent(t, p, n)
        BY <2>2 DEF OverviewInv
      <3>2. first = Cut(p, n)
        BY <2>1, <2>2, <3>1 DEF AnnounceInv
      <3>3. p \in Nat /\ n \in Nat /\ i \in Nat
        BY <3>1 DEF PageInv, RowsInv, Ids
      <3>4. j \in Nat /\ j <= n
        BY <2>2, <3>2, <3>3, CutIsUpTo
      <3> QED BY <2>2, <3>1, <3>3, <3>4
    <2> QED BY <2>1, <2>2
  <1> QED BY <1>1, <1>2, PageStart, PageStays, AnnounceNext, OverviewStart, OverviewNext, PTL
          DEF PageSpec

\* A step that leaves the tables alone, or a new page, does not draw; one that draws advances.
LEMMA OverviewAdvances ==
  PageInv /\ OverviewInv /\ [PageNext]_pageVars =>
     (page = "overview" /\ rendered' => shown'.asof >= shown.asof /\ stats'.asof >= stats.asof)
  <1> SUFFICES ASSUME PageInv, OverviewInv, [PageNext]_pageVars, page = "overview", rendered'
               PROVE  shown'.asof >= shown.asof /\ stats'.asof >= stats.asof
    OBVIOUS
  <1>j. JobsInv /\ RowsInv /\ FlagsInv /\ Version \in Nat
    BY DEF PageInv, RowsInv, Version
  <1>s. shown.asof \in 0..Version /\ stats.asof \in 0..Version
    BY DEF OverviewInv
  <1>0. ASSUME UNCHANGED <<shown, stats>>
        PROVE  shown'.asof >= shown.asof /\ stats'.asof >= stats.asof
    BY <1>0, <1>j, <1>s
  <1>1. ASSUME NEW t \in Slots, Answered(t)
        PROVE  shown'.asof >= shown.asof /\ stats'.asof >= stats.asof
    BY <1>0, <1>1, <1>j, AnsweredEffect
  <1>2. ASSUME NEW t \in Slots, tasks[t] # Idle, tasks[t].reply \notin {NoReply, Failed}, Draw(t)
        PROVE  shown'.asof >= shown.asof /\ stats'.asof >= stats.asof
    <2>1. shown'.asof \in shown.asof..Version /\ stats'.asof \in stats.asof..Version
      BY <1>2, DrawAdvances
    <2> QED BY <1>j, <1>s, <2>1
  <1>3. ASSUME NEW t \in Slots, Continue(t)
        PROVE  shown'.asof >= shown.asof /\ stats'.asof >= stats.asof
    BY <1>2, <1>3, <1>j, ContinueEffect
  <1>4. ASSUME NEW t \in Slots, Finish(t) \/ Throw(t)
        PROVE  shown'.asof >= shown.asof /\ stats'.asof >= stats.asof
    <2>1. /\ tasks[t] # Idle /\ tasks[t].reply # NoReply
          /\ (tasks[t].reply # Failed /\ Draw(t)) \/ UNCHANGED tables
      BY <1>4, <1>j, EndEffect
    <2>2. UNCHANGED tables => UNCHANGED <<shown, stats>>
      BY DEF tables
    <2> QED BY <1>0, <1>2, <2>1, <2>2
  <1>5. ~OpenLink
    BY DEF OpenLink
  <1>6. CASE Tick \/ Hide \/ Show \/ ChangeFilter \/ Click \/ Stop \/ Restart \/ InsertAlert
             \/ PurgeAlerts \/ BlockElsewhere \/ UNCHANGED pageVars
    <2>1. UNCHANGED tables
      BY <1>6 DEF Tick, Hide, Show, ChangeFilter, Click, Stop, Restart, InsertAlert,
                  PurgeAlerts, BlockElsewhere, pageVars
    <2> QED BY <1>0, <2>1 DEF tables
  <1> QED BY <1>1, <1>3, <1>4, <1>5, <1>6, PageSteps

\* On the overview no answer that is older than what is on the screen is drawn over it,
\* for a refresh that is slow is never joined by a second one and nothing but refreshes
\* asks there; how late an answer is delivered, and what was added or deleted meanwhile,
\* does not matter.
THEOREM OverviewNeverGoesBack == PageSpec => NeverGoesBack
  <1>1. PageInit => AnnounceInv
    BY DEF PageInit, AnnounceInv
  <1>2. PageInv /\ OverviewInv /\ [PageNext]_pageVars =>
           [page = "overview" /\ rendered' =>
              shown'.asof >= shown.asof /\ stats'.asof >= stats.asof]_pageVars
    BY OverviewAdvances
  <1> QED BY <1>1, <1>2, PageStart, PageStays, AnnounceNext, OverviewStart, OverviewNext, PTL
          DEF PageSpec, NeverGoesBack
=============================================================================
