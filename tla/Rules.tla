-------------------------------- MODULE Rules --------------------------------
(***************************************************************************)
(* The detection rules and the loop that runs them: normalize_event turns  *)
(* a record of the event log into the row the rules read,                  *)
(* engine.configure builds the list of enabled rules, and evaluate_event   *)
(* gives the row to each in turn, while the desktop app's GUI thread may   *)
(* replace the list.                                                       *)
(*                                                                         *)
(* A field of a record is None when it is missing or empty.  A path stands *)
(* for its base name in lower case, and a command line or a script for the *)
(* set of the words in it that some rule looks for.  What the two counting *)
(* rules do with the activity they count is SlidingWindow's: whether they  *)
(* alert is left open here.                                                *)
(***************************************************************************)
EXTENDS Integers, Sequences, FiniteSets

CONSTANTS
    Records,      \* records: [channel, id, hour, computer, data]
    Settings,     \* contents of the detections section: [enabled, failedLogon,
                  \* successfulLogon, start, end]
    Indicators,   \* the addresses in threat_intel_iocs
    LocalIps,     \* this machine's addresses
    None,         \* no value
    MaxSaves,     \* bound on saves of the settings
    MaxLost       \* bound on the alerts of one record that cannot be stored

ASSUME BoundsAssumption == MaxSaves \in Nat /\ MaxLost \in Nat

Sysmon == "Microsoft-Windows-Sysmon/Operational"

\* An hour and a mask are numbers; of the records with Sysmon's ids only Sysmon's
\* own name a process image; no workstation is called by an address of the feed.
ASSUME RecordsAssumption ==
    \A r \in Records :
        /\ r.hour \in 0..23 \cup {None}
        /\ "GrantedAccess" \in DOMAIN r.data => r.data.GrantedAccess \in Nat \cup {None}
        /\ r.id \in {1, 10} /\ r.channel # Sysmon =>
              {"Image", "TargetImage"} \cap DOMAIN r.data = {}
        /\ "WorkstationName" \in DOMAIN r.data => r.data.WorkstationName \notin Indicators

\* No program is called None.
ASSUME NoneAssumption ==
    None \notin {"cmd.exe", "powershell.exe", "pwsh.exe", "wscript.exe", "cscript.exe",
                 "mshta.exe", "lsass.exe"}

ASSUME SettingsAssumption == \A s \in Settings : {s.start, s.end} \subseteq Int

\* The feed's values are addresses.
ASSUME IndicatorsAssumption == Indicators \cap {None, "-"} = {}

\* engine.configure appends the rules in this order.
RuleOrder ==
    <<"brute_force", "new_admin_account", "afterhours_logon", "encoded_powershell",
      "suspicious_parent_child", "threat_intel_match", "port_scan_detection",
      "powershell_scriptblock", "credential_access", "persistence">>

RuleNames == {RuleOrder[i] : i \in DOMAIN RuleOrder}
Counting == {"brute_force", "port_scan_detection"}

VARIABLES
    settings,   \* those engine.RULES was built from
    loop,       \* those of the list that evaluate_event is running through
    record,     \* the record being evaluated, or None
    next,       \* where in RuleOrder the loop has got to
    alerts,     \* the alerts stored for it: [rule, mitre, severity]
    counted,    \* what the counting rules counted of it: [rule, key, item]
    lost,       \* the rules whose alert for it could not be stored
    saves

evaluation == <<loop, record, next, alerts, counted, lost>>
vars == <<settings, evaluation, saves>>

-----------------------------------------------------------------------------
(* normalize.py *)

\* event_data.get(name)
Get(e, name) == IF name \in DOMAIN e.data THEN e.data[name] ELSE None

\* Python's a or b.
Or(a, b) == IF a = None THEN b ELSE a

\* Mutant: the account that reports the event comes first.
ReporterFirst(r) == Or(Get(r, "SubjectUserName"), Get(r, "TargetUserName"))

UserOf(r) == Or(Get(r, "TargetUserName"), Get(r, "SubjectUserName"))

\* raw_xml keeps the data; Windows' "-" for no address is kept as a source.
Normalize(r) ==
    [id |-> r.id, channel |-> r.channel, hour |-> r.hour, computer |-> r.computer,
     data |-> r.data, user |-> UserOf(r),
     source |-> Or(Get(r, "IpAddress"), Get(r, "WorkstationName"))]

Words(e, name) == IF Get(e, name) = None THEN {} ELSE Get(e, name)

-----------------------------------------------------------------------------
(* The rules: the alerts each raises for an event e under settings s *)

When(condition, mitre, severity) ==
    {a \in {[mitre |-> mitre, severity |-> severity]} : condition}

NewAdminAccount(e) ==
    When(e.id = 4720, "T1136", "medium")
    \cup When(e.id = 4732 /\ Get(e, "TargetUserName") \in {"Administrators"},
              "T1098", "high")

HumanLogon(e, s) ==
    e.id = s.successfulLogon /\ Get(e, "LogonType") \in {"2", "7", "10"}

AfterHoursLogon(e, s) ==
    When(HumanLogon(e, s) /\ ~(s.start <= e.hour /\ e.hour < s.end), "T1078", "low")

\* The options in which one of the texts "-enc", "-encodedcommand", " -e " occurs.
HoldEncodedFlag == {"-enc", "-encodedcommand", "-e", "-encoding"}

EncodedPowerShell(e) ==
    When(/\ e.id = 1
         /\ Get(e, "Image") \in {"powershell.exe", "pwsh.exe"}
         /\ Words(e, "CommandLine") \cap HoldEncodedFlag # {}, "T1059.001", "high")

SuspiciousParentChild(e) ==
    When(/\ e.id = 1
         /\ Get(e, "ParentImage") \in {"winword.exe", "excel.exe", "powerpnt.exe",
                                       "outlook.exe", "mspub.exe"}
         /\ Get(e, "Image") \in {"cmd.exe", "powershell.exe", "pwsh.exe",
                                 "wscript.exe", "cscript.exe", "mshta.exe"},
         "T1059", "high")

ObservedIp(e) ==
    IF e.id \in {4624, 4625} THEN e.source
    ELSE IF e.channel = Sysmon /\ e.id = 3 /\ Get(e, "Initiated") = "true"
         THEN Get(e, "DestinationIp")
         ELSE None

ThreatIntelMatch(e) ==
    When(ObservedIp(e) \in Indicators \ {None, "-"}, "TA0011", "high")

\* _classify: the words stand for OFFENSIVE_TOOL_NAMES, EXPLICIT_ENCODED_FLAGS,
\* DOWNLOAD_METHODS, EXECUTION_METHODS and "frombase64string".
Suspicious(words) ==
    \/ words \cap {"tool", "encoded_flag"} # {}
    \/ "execution" \in words /\ words \cap {"download", "frombase64string"} # {}

PowerShellScriptBlock(e) ==
    When(e.id = 4104 /\ Suspicious(Words(e, "ScriptBlockText")), "T1059.001", "high")

\* A mask that is no hexadecimal number is as good as missing.
CredentialAccess(e) ==
    LET mask == Get(e, "GrantedAccess")
    IN When(/\ e.id = 10
            /\ Get(e, "TargetImage") = "lsass.exe"
            /\ mask # None
            /\ (mask \div 16) % 2 = 1,     \* mask & PROCESS_VM_READ
            "T1003", "high")

Persistence(e) ==
    When(e.id = 4698, "T1053.005", "medium") \cup When(e.id = 7045, "T1543.003", "medium")

Verdict(rule, e, s) ==
    CASE rule = "new_admin_account"       -> NewAdminAccount(e)
      [] rule = "afterhours_logon"        -> AfterHoursLogon(e, s)
      [] rule = "encoded_powershell"      -> EncodedPowerShell(e)
      [] rule = "suspicious_parent_child" -> SuspiciousParentChild(e)
      [] rule = "threat_intel_match"      -> ThreatIntelMatch(e)
      [] rule = "powershell_scriptblock"  -> PowerShellScriptBlock(e)
      [] rule = "credential_access"       -> CredentialAccess(e)
      [] rule = "persistence"             -> Persistence(e)

\* What brute_force counts: the failed logon, for its source.
FailedLogon(e, s) ==
    {c \in {[key |-> Or(Or(e.source, e.computer), "unknown"), item |-> 0]} :
        e.id = s.failedLogon}

\* What port_scan_detection counts: the local port, for the side of the blocked
\* connection that is not this machine, when exactly one side is.
ProbedPort(e) ==
    LET sides == <<[at |-> Get(e, "SourceAddress"), port |-> Get(e, "SourcePort")],
                   [at |-> Get(e, "DestAddress"), port |-> Get(e, "DestPort")]>>
    IN {[key |-> sides[3 - i].at, item |-> sides[i].port] :
          i \in {j \in 1..2 : /\ e.id = 5157
                              /\ sides[1].at # None /\ sides[2].at # None
                              /\ sides[j].at \in LocalIps
                              /\ sides[3 - j].at \notin LocalIps}}

Counts(rule, e, s) ==
    IF rule = "brute_force" THEN FailedLogon(e, s) ELSE ProbedPort(e)

\* parse_ts raises on an event without a time.
Raises(rule, e, s) ==
    /\ e.hour = None
    /\ \/ rule = "afterhours_logon" /\ HumanLogon(e, s)
       \/ rule \in Counting /\ Counts(rule, e, s) # {}

-----------------------------------------------------------------------------
(* engine.py *)

\* The rules configure appends, by their places in RuleOrder.
Listed(s) == {i \in DOMAIN RuleOrder : RuleOrder[i] \in s.enabled}

Init ==
    /\ settings \in Settings /\ loop = settings
    /\ record = None /\ next = 1
    /\ alerts = {} /\ counted = {} /\ lost = {}
    /\ saves = 0

\* configure replaces the list.
Configure(s) ==
    /\ saves < MaxSaves
    /\ saves' = saves + 1
    /\ settings' = s
    /\ UNCHANGED evaluation

EvaluateEvent(r) ==
    /\ record = None
    /\ record' = r
    /\ loop' = settings
    /\ UNCHANGED <<settings, next, alerts, counted, lost, saves>>

\* Mutant: the list is looked up again for each rule.
LatestRules == Listed(settings)

\* The for statement keeps the list it started with.
ActiveRules == Listed(loop)

Ahead == {i \in ActiveRules : i >= next}
Judged == record # None /\ Ahead = {}
Running(i) == record # None /\ i \in Ahead /\ \A j \in Ahead : i <= j

\* Mutant: an exception ends the loop.
RaiseEndsLoop(i) == next' = Len(RuleOrder) + 1

\* An exception is logged, and the next rule runs.
CatchException(i) == next' = i + 1

RuleRaises ==
    /\ \E i \in DOMAIN RuleOrder :
          Running(i) /\ Raises(RuleOrder[i], Normalize(record), loop) /\ CatchException(i)
    /\ UNCHANGED <<settings, loop, record, alerts, counted, lost, saves>>

\* raise_alert stores the alert or raises.
RaiseAlert(i, a) ==
    \/ /\ alerts' = alerts \cup
             {[rule |-> RuleOrder[i], mitre |-> a.mitre, severity |-> a.severity]}
       /\ next' = i + 1
       /\ UNCHANGED lost
    \/ /\ Cardinality(lost) < MaxLost
       /\ lost' = lost \cup {RuleOrder[i]}
       /\ CatchException(i)
       /\ UNCHANGED alerts

RuleDecides ==
    /\ \E i \in DOMAIN RuleOrder :
          LET verdict == Verdict(RuleOrder[i], Normalize(record), loop)
          IN /\ Running(i) /\ RuleOrder[i] \notin Counting
             /\ ~Raises(RuleOrder[i], Normalize(record), loop)
             /\ \/ verdict = {} /\ next' = i + 1 /\ UNCHANGED <<alerts, lost>>
                \/ \E a \in verdict : RaiseAlert(i, a)
    /\ UNCHANGED <<settings, loop, record, counted, saves>>

\* Mutant: a severity that alerts.py does not rank.
UnrankedAlert(rule) == [mitre |-> "T1110", severity |-> "critical"]

CountingAlert(rule) ==
    IF rule = "brute_force" THEN [mitre |-> "T1110", severity |-> "high"]
    ELSE [mitre |-> "T1595", severity |-> "medium"]

RuleCounts ==
    /\ \E i \in DOMAIN RuleOrder :
          LET rule == RuleOrder[i]
              counts == Counts(rule, Normalize(record), loop)
          IN /\ Running(i) /\ rule \in Counting
             /\ ~Raises(rule, Normalize(record), loop)
             /\ counted' = counted \cup {[rule |-> rule, key |-> c.key, item |-> c.item] :
                                            c \in counts}
             /\ \/ next' = i + 1 /\ UNCHANGED <<alerts, lost>>
                \/ counts # {} /\ RaiseAlert(i, CountingAlert(rule))
    /\ UNCHANGED <<settings, loop, record, saves>>

Return ==
    /\ Judged
    /\ record' = None
    /\ next' = 1
    /\ alerts' = {} /\ counted' = {} /\ lost' = {}
    /\ UNCHANGED <<settings, loop, saves>>

Next ==
    \/ \E s \in Settings : Configure(s)
    \/ \E r \in Records : EvaluateEvent(r)
    \/ RuleRaises
    \/ RuleDecides
    \/ RuleCounts
    \/ Return

Spec == Init /\ [][Next]_vars

-----------------------------------------------------------------------------
(* What the documentation promises, stated on the record as it was logged *)

\* Outside the business hours, which may run past midnight.
Outside(hour, s) ==
    IF s.start <= s.end THEN hour < s.start \/ hour >= s.end
    ELSE hour >= s.end /\ hour < s.start

\* The triggers of the README's table of detections, the counting rules' apart.
Documented(r, s) ==
    LET Row(rule, mitre, severity, trigger) ==
            {a \in {[rule |-> rule, mitre |-> mitre, severity |-> severity]} : trigger}
        Has(name, values) == Get(r, name) \in values
    IN Row("new_admin_account", "T1136", "medium", r.id = 4720)
       \cup Row("new_admin_account", "T1098", "high",
                r.id = 4732 /\ Has("TargetUserName", {"Administrators"}))
       \cup Row("afterhours_logon", "T1078", "low",
                /\ r.id = 4624 /\ Has("LogonType", {"2", "7", "10"})
                /\ r.hour # None /\ Outside(r.hour, s))
       \cup Row("encoded_powershell", "T1059.001", "high",
                /\ r.channel = Sysmon /\ r.id = 1
                /\ Has("Image", {"powershell.exe", "pwsh.exe"})
                /\ Words(r, "CommandLine") \cap {"-enc", "-encodedcommand"} # {})
       \cup Row("suspicious_parent_child", "T1059", "high",
                /\ r.channel = Sysmon /\ r.id = 1
                /\ Has("ParentImage", {"winword.exe", "excel.exe", "powerpnt.exe",
                                       "outlook.exe", "mspub.exe"})
                /\ Has("Image", {"cmd.exe", "powershell.exe", "pwsh.exe", "wscript.exe",
                                 "cscript.exe", "mshta.exe"}))
       \cup Row("threat_intel_match", "TA0011", "high",
                \/ r.id \in {4624, 4625} /\ Has("IpAddress", Indicators \ {"-"})
                \/ /\ r.channel = Sysmon /\ r.id = 3 /\ Has("Initiated", {"true"})
                   /\ Has("DestinationIp", Indicators))
       \cup Row("powershell_scriptblock", "T1059.001", "high",
                /\ r.id = 4104
                /\ \/ Words(r, "ScriptBlockText") \cap {"tool", "encoded_flag"} # {}
                   \/ {"download", "execution"} \subseteq Words(r, "ScriptBlockText")
                   \/ {"frombase64string", "execution"} \subseteq Words(r, "ScriptBlockText"))
       \cup Row("credential_access", "T1003", "high",
                /\ r.channel = Sysmon /\ r.id = 10 /\ Has("TargetImage", {"lsass.exe"})
                /\ Get(r, "GrantedAccess") # None
                /\ Get(r, "GrantedAccess") % 32 >= 16)
       \cup Row("persistence", "T1053.005", "medium", r.id = 4698)
       \cup Row("persistence", "T1543.003", "medium", r.id = 7045)

-----------------------------------------------------------------------------
(* Properties *)

\* Every variable stays in its type.
TypeOK ==
    /\ settings \in Settings /\ loop \in Settings
    /\ record \in Records \cup {None}
    /\ next \in 1..(Len(RuleOrder) + 1)
    /\ \A a \in alerts : a.rule \in RuleNames /\ a.severity \in {"low", "medium", "high"}
    /\ \A c \in counted : c.rule \in Counting
    /\ lost \subseteq RuleNames /\ saves \in 0..MaxSaves

\* Whatever other rules do, and although the list may be replaced meanwhile: every
\* alert the documentation promises under the settings with which the evaluation
\* of the record began is stored, unless storing that very alert failed.
NothingMissed ==
    Judged =>
        \A a \in Documented(record, loop) :
            a.rule \in loop.enabled => a \in alerts \/ a.rule \in lost

\* No rule alerts that was switched off when the evaluation began, and none on a
\* record the documentation does not call for, with two exceptions: an option that
\* only begins like -enc, or is -e; and business hours that run past midnight, for
\* which every logon counts as outside.  And port_scan_detection counts nothing that
\* is this machine's doing: of a blocked connection it takes a port of ours and the
\* other side, whichever of the two readings of the fields is the right one.
NothingInvented ==
    /\ \A a \in alerts :
          /\ a.rule \in loop.enabled
          /\ a.rule \notin Counting =>
                \/ a \in Documented(record, loop)
                \/ a.rule = "encoded_powershell"
                   /\ Words(record, "CommandLine") \cap {"-encoding", "-e"} # {}
                \/ a.rule = "afterhours_logon" /\ loop.start > loop.end
    /\ \A c \in counted : c.rule = "port_scan_detection" =>
          \E side \in {<<"SourceAddress", "SourcePort">>, <<"DestAddress", "DestPort">>} :
              /\ Get(record, side[1]) \in LocalIps /\ Get(record, side[2]) = c.item
              /\ c.key \notin LocalIps \cup {None}

\* Who did what the record tells of: the account that logged on, or the one that
\* created, added or installed something.
Doer(r) ==
    IF r.id \in {4624, 4625} THEN Get(r, "TargetUserName")
    ELSE Get(r, "SubjectUserName")

\* The user by which correlation links the alert to others is the one who did it,
\* except for a new account and a new group member, where it is the account or
\* the group that was changed.
ActorIsDoer ==
    alerts # {} =>
        Normalize(record).user = Doer(record) \/ record.id \in {4720, 4732}
=============================================================================
