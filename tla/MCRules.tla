------------------------------- MODULE MCRules -------------------------------
(* Model checking of Rules: records of every kind a rule looks at, and three   *)
(* sets of settings.                                                           *)
EXTENDS Rules, TLC

Security == "Security"
Entry(channel, id, hour, data) ==
    [channel |-> channel, id |-> id, hour |-> hour, computer |-> "pc", data |-> data]

Logons ==
    {Entry(Security, id, hour,
           [TargetUserName |-> "alice", SubjectUserName |-> "SYSTEM",
            IpAddress |-> ip, WorkstationName |-> "host", LogonType |-> type]) :
       id \in {4624, 4625}, hour \in {3, 9, 22, None}, ip \in {None, "-", "bad", "good"},
       type \in {"2", "3"}}

Accounts ==
    {Entry(Security, id, 9, [TargetUserName |-> target, SubjectUserName |-> "alice"]) :
       id \in {4720, 4732, 4740}, target \in {"Administrators", "mallory"}}

Processes ==
    {Entry(Sysmon, 1, 9, [Image |-> image, ParentImage |-> parent,
                          CommandLine |-> words, User |-> "alice"]) :
       image \in {"powershell.exe", "cmd.exe", "notepad.exe"},
       parent \in {None, "winword.exe", "explorer.exe"},
       words \in {{}, {"-enc"}, {"-encodedcommand"}, {"-e"}, {"-encoding"}}}

Connections ==
    {Entry(channel, 3, 9, [Initiated |-> initiated, DestinationIp |-> ip]) :
       channel \in {Sysmon, "System"}, initiated \in {"true", "false"},
       ip \in {None, "bad", "good"}}

Accesses ==
    {Entry(Sysmon, 10, 9, [TargetImage |-> target, GrantedAccess |-> mask]) :
       target \in {None, "lsass.exe", "svchost.exe"}, mask \in {None, 4096, 4112, 2097151}}

ScriptBlocks ==
    {Entry("PowerShell", 4104, 9, [ScriptBlockText |-> words]) :
       words \in SUBSET {"tool", "encoded_flag", "download", "execution", "frombase64string"}}

Installs ==
    {Entry(Security, 4698, 9, [SubjectUserName |-> "alice"]),
     Entry("System", 7045, 9, <<>>), Entry("System", 1, 9, <<>>)}

Blocked ==
    {Entry(Security, 5157, hour, [SourceAddress |-> from, SourcePort |-> 1,
                                  DestAddress |-> to, DestPort |-> 2]) :
       hour \in {9, None}, from \in {None, "here", "loopback", "there", "elsewhere"},
       to \in {None, "here", "loopback", "there", "elsewhere"}}

AllRecords ==
    Logons \cup Accounts \cup Processes \cup Connections \cup Accesses
    \cup ScriptBlocks \cup Installs \cup Blocked

Detections(enabled, start, end) ==
    [enabled |-> enabled, failedLogon |-> 4625, successfulLogon |-> 4624,
     start |-> start, end |-> end]

\* config.yaml; a night shift; and half of the rules switched off.
AllSettings ==
    {Detections(RuleNames, 7, 19), Detections(RuleNames, 22, 6),
     Detections({"brute_force", "encoded_powershell", "threat_intel_match",
                 "credential_access", "persistence"}, 7, 19)}

Feed == {"bad"}
Ours == {"here", "loopback"}
=============================================================================
