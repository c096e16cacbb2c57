----------------------------- MODULE RulesProofs -----------------------------
(***************************************************************************)
(* Proofs that the loop of evaluate_event misses and invents nothing, for  *)
(* any set of records and any settings.  What the rules decide is compared *)
(* with the documentation once, rule by rule; the rest follows what the    *)
(* loop has been through.                                                  *)
(***************************************************************************)
EXTENDS Rules, TLAPS

\* The id of a successful logon is the one config.yaml gives; the Settings tab does
\* not offer to change it, and the README's table of detections says 4624.
DefaultLogonId == \A s \in Settings : s.successfulLogon = 4624

-----------------------------------------------------------------------------
(* The list of rules *)

LEMMA RuleOrderDomain == DOMAIN RuleOrder = 1..10 /\ Len(RuleOrder) = 10
BY DEF RuleOrder

LEMMA RuleNamesAre ==
    RuleNames = {"brute_force", "new_admin_account", "afterhours_logon",
                 "encoded_powershell", "suspicious_parent_child", "threat_intel_match",
                 "port_scan_detection", "powershell_scriptblock", "credential_access",
                 "persistence"}
BY DEF RuleNames, RuleOrder

LEMMA InRuleNames == \A i \in DOMAIN RuleOrder : RuleOrder[i] \in RuleNames
BY DEF RuleNames

-----------------------------------------------------------------------------
(* What the rules decide, and what the documentation says *)

\* normalize_event keeps every field of the record.
LEMMA NormalizeKeeps ==
    \A r : /\ Normalize(r).id = r.id /\ Normalize(r).channel = r.channel
           /\ Normalize(r).hour = r.hour /\ Normalize(r).data = r.data
           /\ Normalize(r).source = Or(Get(r, "IpAddress"), Get(r, "WorkstationName"))
           /\ \A name : Get(Normalize(r), name) = Get(r, name)
           /\ \A name : Words(Normalize(r), name) = Words(r, name)
BY DEF Normalize, Get, Words

\* No rule has two alerts for one event.
LEMMA OneVerdict ==
    ASSUME NEW rule \in RuleNames \ Counting, NEW e, NEW s,
           NEW v \in Verdict(rule, e, s), NEW w \in Verdict(rule, e, s)
    PROVE  v = w
<1>1. CASE rule = "new_admin_account"
  BY <1>1 DEF Verdict, NewAdminAccount, When
<1>2. CASE rule = "persistence"
  BY <1>2 DEF Verdict, Persistence, When
<1>3. CASE rule \notin {"new_admin_account", "persistence"}
  BY <1>3, RuleNamesAre
  DEF Verdict, Counting, When, AfterHoursLogon, EncodedPowerShell, SuspiciousParentChild,
      ThreatIntelMatch, PowerShellScriptBlock, CredentialAccess
<1> QED  BY <1>1, <1>2, <1>3

\* The bit of PROCESS_VM_READ, taken in two ways.
LEMMA VmReadBit ==
    \A mask \in Nat : (mask \div 16) % 2 = 1 <=> mask % 32 >= 16
OBVIOUS

\* What the documentation calls suspicious, spelled out.
LEMMA SuspiciousWords ==
    \A words :
        Suspicious(words) <=> \/ words \cap {"tool", "encoded_flag"} # {}
                              \/ {"download", "execution"} \subseteq words
                              \/ {"frombase64string", "execution"} \subseteq words
<1>1. \A words : words \cap {"download", "frombase64string"} # {}
                 <=> "download" \in words \/ "frombase64string" \in words
  OBVIOUS
<1>2. \A words, x, y : {x, y} \subseteq words <=> x \in words /\ y \in words
  OBVIOUS
<1> QED
  BY <1>1, <1>2 DEF Suspicious

\* An alert as the rules give it to raise_alert.
Shape(a) == [mitre |-> a.mitre, severity |-> a.severity]

\* A row of the table of detections.
Row(rule, mitre, severity) == [rule |-> rule, mitre |-> mitre, severity |-> severity]

LEMMA VerdictsAre ==
    \A e, s :
        /\ Verdict("new_admin_account", e, s) = NewAdminAccount(e)
        /\ Verdict("afterhours_logon", e, s) = AfterHoursLogon(e, s)
        /\ Verdict("encoded_powershell", e, s) = EncodedPowerShell(e)
        /\ Verdict("suspicious_parent_child", e, s) = SuspiciousParentChild(e)
        /\ Verdict("threat_intel_match", e, s) = ThreatIntelMatch(e)
        /\ Verdict("powershell_scriptblock", e, s) = PowerShellScriptBlock(e)
        /\ Verdict("credential_access", e, s) = CredentialAccess(e)
        /\ Verdict("persistence", e, s) = Persistence(e)
BY DEF Verdict

\* Every alert the documentation promises is one its rule decides on.
LEMMA DocumentedIsDecided ==
    ASSUME DefaultLogonId, NEW r \in Records, NEW s \in Settings,
           NEW a \in Documented(r, s), NEW e, e = Normalize(r)
    PROVE  /\ a.rule \in RuleNames \ Counting
           /\ Shape(a) \in Verdict(a.rule, e, s)
           /\ ~Raises(a.rule, e, s)
           /\ a = [rule |-> a.rule, mitre |-> a.mitre, severity |-> a.severity]
<1>e. /\ e.id = r.id /\ e.channel = r.channel /\ e.hour = r.hour /\ e.data = r.data
      /\ e.source = Or(Get(r, "IpAddress"), Get(r, "WorkstationName"))
      /\ \A name : Get(e, name) = Get(r, name)
      /\ \A name : Words(e, name) = Words(r, name)
  BY NormalizeKeeps
<1>v. /\ Verdict("new_admin_account", e, s) = NewAdminAccount(e)
      /\ Verdict("afterhours_logon", e, s) = AfterHoursLogon(e, s)
      /\ Verdict("encoded_powershell", e, s) = EncodedPowerShell(e)
      /\ Verdict("suspicious_parent_child", e, s) = SuspiciousParentChild(e)
      /\ Verdict("threat_intel_match", e, s) = ThreatIntelMatch(e)
      /\ Verdict("powershell_scriptblock", e, s) = PowerShellScriptBlock(e)
      /\ Verdict("credential_access", e, s) = CredentialAccess(e)
      /\ Verdict("persistence", e, s) = Persistence(e)
  BY VerdictsAre
<1>q. ASSUME NEW rule \in RuleNames \ Counting, NEW mitre, NEW severity,
             a = Row(rule, mitre, severity),
             [mitre |-> mitre, severity |-> severity] \in Verdict(rule, e, s),
             rule = "afterhours_logon" => e.hour # None
      PROVE  /\ a.rule \in RuleNames \ Counting
             /\ Shape(a) \in Verdict(a.rule, e, s)
             /\ ~Raises(a.rule, e, s)
             /\ a = [rule |-> a.rule, mitre |-> a.mitre, severity |-> a.severity]
  <2>1. a.rule = rule /\ Shape(a) = [mitre |-> mitre, severity |-> severity]
    BY <1>q DEF Row, Shape
  <2>2. a = [rule |-> a.rule, mitre |-> a.mitre, severity |-> a.severity]
    BY <1>q DEF Row
  <2>3. ~Raises(rule, e, s)
    BY <1>q DEF Raises
  <2> QED
    BY <1>q, <2>1, <2>2, <2>3
<1>1. CASE a = Row("new_admin_account", "T1136", "medium") /\ r.id = 4720
  <2>1. [mitre |-> "T1136", severity |-> "medium"] \in NewAdminAccount(e)
    BY <1>1, <1>e DEF NewAdminAccount, When
  <2>2. "new_admin_account" \in RuleNames \ Counting
    BY RuleNamesAre DEF Counting
  <2> QED
    BY <1>1, <1>q, <1>v, <2>1, <2>2
<1>2. CASE /\ a = Row("new_admin_account", "T1098", "high")
           /\ r.id = 4732 /\ Get(r, "TargetUserName") \in {"Administrators"}
  <2>1. [mitre |-> "T1098", severity |-> "high"] \in NewAdminAccount(e)
    BY <1>2, <1>e DEF NewAdminAccount, When
  <2>2. "new_admin_account" \in RuleNames \ Counting
    BY RuleNamesAre DEF Counting
  <2> QED
    BY <1>2, <1>q, <1>v, <2>1, <2>2
<1>3. CASE /\ a = Row("afterhours_logon", "T1078", "low")
           /\ r.id = 4624 /\ Get(r, "LogonType") \in {"2", "7", "10"}
           /\ r.hour # None /\ Outside(r.hour, s)
  <2>1. r.hour \in Int /\ s.start \in Int /\ s.end \in Int
    BY <1>3, RecordsAssumption, SettingsAssumption
  <2>2. HumanLogon(e, s)
    BY <1>3, <1>e DEF HumanLogon, DefaultLogonId
  <2>3. ~(s.start <= e.hour /\ e.hour < s.end)
    BY <1>3, <1>e, <2>1 DEF Outside
  <2>4. [mitre |-> "T1078", severity |-> "low"] \in AfterHoursLogon(e, s)
    BY <1>3, <1>e, <2>2, <2>3 DEF AfterHoursLogon, When
  <2>5. "afterhours_logon" \in RuleNames \ Counting
    BY RuleNamesAre DEF Counting
  <2> QED
    BY <1>3, <1>q, <1>v, <2>4, <2>5, <1>e
<1>4. CASE /\ a = Row("encoded_powershell", "T1059.001", "high")
           /\ r.id = 1 /\ Get(r, "Image") \in {"powershell.exe", "pwsh.exe"}
           /\ Words(r, "CommandLine") \cap {"-enc", "-encodedcommand"} # {}
  <2>1. Words(e, "CommandLine") \cap HoldEncodedFlag # {}
    BY <1>4, <1>e DEF HoldEncodedFlag
  <2>2. [mitre |-> "T1059.001", severity |-> "high"] \in EncodedPowerShell(e)
    BY <1>4, <1>e, <2>1 DEF EncodedPowerShell, When
  <2>3. "encoded_powershell" \in RuleNames \ Counting
    BY RuleNamesAre DEF Counting
  <2> QED
    BY <1>4, <1>q, <1>v, <2>2, <2>3
<1>5. CASE /\ a = Row("suspicious_parent_child", "T1059", "high")
           /\ r.id = 1
           /\ Get(r, "ParentImage") \in {"winword.exe", "excel.exe", "powerpnt.exe",
                                         "outlook.exe", "mspub.exe"}
           /\ Get(r, "Image") \in {"cmd.exe", "powershell.exe", "pwsh.exe", "wscript.exe",
                                   "cscript.exe", "mshta.exe"}
  <2>1. [mitre |-> "T1059", severity |-> "high"] \in SuspiciousParentChild(e)
    BY <1>5, <1>e DEF SuspiciousParentChild, When
  <2>2. "suspicious_parent_child" \in RuleNames \ Counting
    BY RuleNamesAre DEF Counting
  <2> QED
    BY <1>5, <1>q, <1>v, <2>1, <2>2
<1>6. CASE /\ a = Row("threat_intel_match", "TA0011", "high")
           /\ \/ r.id \in {4624, 4625} /\ Get(r, "IpAddress") \in Indicators \ {"-"}
              \/ /\ r.channel = Sysmon /\ r.id = 3 /\ Get(r, "Initiated") \in {"true"}
                 /\ Get(r, "DestinationIp") \in Indicators
  <2>1. ObservedIp(e) \in Indicators \ {None, "-"}
    BY <1>6, <1>e, IndicatorsAssumption DEF ObservedIp, Or
  <2>2. [mitre |-> "TA0011", severity |-> "high"] \in ThreatIntelMatch(e)
    BY <1>6, <1>e, <2>1 DEF ThreatIntelMatch, When
  <2>3. "threat_intel_match" \in RuleNames \ Counting
    BY RuleNamesAre DEF Counting
  <2> QED
    BY <1>6, <1>q, <1>v, <2>2, <2>3
<1>7. CASE /\ a = Row("powershell_scriptblock", "T1059.001", "high")
           /\ r.id = 4104
           /\ \/ Words(r, "ScriptBlockText") \cap {"tool", "encoded_flag"} # {}
              \/ {"download", "execution"} \subseteq Words(r, "ScriptBlockText")
              \/ {"frombase64string", "execution"} \subseteq Words(r, "ScriptBlockText")
  <2>1. Suspicious(Words(e, "ScriptBlockText"))
    BY <1>7, <1>e, SuspiciousWords
  <2>2. [mitre |-> "T1059.001", severity |-> "high"] \in PowerShellScriptBlock(e)
    BY <1>7, <1>e, <2>1 DEF PowerShellScriptBlock, When
  <2>3. "powershell_scriptblock" \in RuleNames \ Counting
    BY RuleNamesAre DEF Counting
  <2> QED
    BY <1>7, <1>q, <1>v, <2>2, <2>3
<1>8. CASE /\ a = Row("credential_access", "T1003", "high")
           /\ r.id = 10 /\ Get(r, "TargetImage") \in {"lsass.exe"}
           /\ Get(r, "GrantedAccess") # None /\ Get(r, "GrantedAccess") % 32 >= 16
  <2>1. Get(r, "GrantedAccess") \in Nat
    BY <1>8, RecordsAssumption DEF Get
  <2>2. (Get(e, "GrantedAccess") \div 16) % 2 = 1
    BY <1>8, <1>e, <2>1, VmReadBit
  <2>3. [mitre |-> "T1003", severity |-> "high"] \in CredentialAccess(e)
    BY <1>8, <1>e, <2>2 DEF CredentialAccess, When
  <2>4. "credential_access" \in RuleNames \ Counting
    BY RuleNamesAre DEF Counting
  <2> QED
    BY <1>8, <1>q, <1>v, <2>3, <2>4
<1>9. CASE a = Row("persistence", "T1053.005", "medium") /\ r.id = 4698
  <2>1. [mitre |-> "T1053.005", severity |-> "medium"] \in Persistence(e)
    BY <1>9, <1>e DEF Persistence, When
  <2>2. "persistence" \in RuleNames \ Counting
    BY RuleNamesAre DEF Counting
  <2> QED
    BY <1>9, <1>q, <1>v, <2>1, <2>2
<1>10. CASE a = Row("persistence", "T1543.003", "medium") /\ r.id = 7045
  <2>1. [mitre |-> "T1543.003", severity |-> "medium"] \in Persistence(e)
    BY <1>10, <1>e DEF Persistence, When
  <2>2. "persistence" \in RuleNames \ Counting
    BY RuleNamesAre DEF Counting
  <2> QED
    BY <1>10, <1>q, <1>v, <2>1, <2>2
<1> QED
  BY <1>1, <1>2, <1>3, <1>4, <1>5, <1>6, <1>7, <1>8, <1>9, <1>10 DEF Documented, Row

\* Every alert a rule decides on is one the documentation promises, but for the two
\* exceptions NothingInvented names.
LEMMA DecidedIsDocumented ==
    ASSUME DefaultLogonId, NEW r \in Records, NEW s \in Settings, NEW e, e = Normalize(r),
           NEW rule \in RuleNames \ Counting, ~Raises(rule, e, s),
           NEW v \in Verdict(rule, e, s)
    PROVE  \/ Row(rule, v.mitre, v.severity) \in Documented(r, s)
           \/ rule = "encoded_powershell"
              /\ Words(r, "CommandLine") \cap {"-encoding", "-e"} # {}
           \/ rule = "afterhours_logon" /\ s.start > s.end
<1>e. /\ e.id = r.id /\ e.channel = r.channel /\ e.hour = r.hour /\ e.data = r.data
      /\ e.source = Or(Get(r, "IpAddress"), Get(r, "WorkstationName"))
      /\ \A name : Get(e, name) = Get(r, name)
      /\ \A name : Words(e, name) = Words(r, name)
  BY NormalizeKeeps
<1>s. /\ r.id \in {1, 10} /\ Get(r, "Image") # None => r.channel = Sysmon
      /\ r.id \in {1, 10} /\ Get(r, "TargetImage") # None => r.channel = Sysmon
  BY RecordsAssumption DEF Get
<1>1. CASE rule = "new_admin_account"
  <2>1. CASE r.id = 4720 /\ v = [mitre |-> "T1136", severity |-> "medium"]
    BY <1>1, <2>1 DEF Documented, Row
  <2>2. CASE /\ r.id = 4732 /\ Get(r, "TargetUserName") \in {"Administrators"}
             /\ v = [mitre |-> "T1098", severity |-> "high"]
    BY <1>1, <2>2 DEF Documented, Row
  <2> QED
    BY <1>1, <1>e, <2>1, <2>2, VerdictsAre DEF NewAdminAccount, When
<1>2. CASE rule = "afterhours_logon"
  <2>1. /\ v = [mitre |-> "T1078", severity |-> "low"]
        /\ HumanLogon(e, s) /\ ~(s.start <= e.hour /\ e.hour < s.end)
    BY <1>2, VerdictsAre DEF AfterHoursLogon, When
  <2>2. r.id = 4624 /\ Get(r, "LogonType") \in {"2", "7", "10"} /\ r.hour # None
    BY <1>2, <1>e, <2>1 DEF HumanLogon, Raises, DefaultLogonId
  <2>3. r.hour \in Int /\ s.start \in Int /\ s.end \in Int
    BY <2>2, RecordsAssumption, SettingsAssumption
  <2>4. s.start <= s.end => Outside(r.hour, s)
    BY <1>e, <2>1, <2>3 DEF Outside
  <2>5. CASE Outside(r.hour, s)
    BY <1>2, <2>1, <2>2, <2>5 DEF Documented, Row
  <2> QED
    BY <1>2, <2>3, <2>4, <2>5
<1>3. CASE rule = "encoded_powershell"
  <2>1. /\ v = [mitre |-> "T1059.001", severity |-> "high"]
        /\ r.id = 1 /\ Get(r, "Image") \in {"powershell.exe", "pwsh.exe"}
        /\ Words(r, "CommandLine") \cap HoldEncodedFlag # {}
    BY <1>3, <1>e, VerdictsAre DEF EncodedPowerShell, When
  <2>2. r.channel = Sysmon
    BY <1>s, <2>1, NoneAssumption
  <2>3. CASE Words(r, "CommandLine") \cap {"-enc", "-encodedcommand"} # {}
    BY <1>3, <2>1, <2>2, <2>3 DEF Documented, Row
  <2> QED
    BY <1>3, <2>1, <2>3 DEF HoldEncodedFlag
<1>4. CASE rule = "suspicious_parent_child"
  <2>1. /\ v = [mitre |-> "T1059", severity |-> "high"]
        /\ r.id = 1
        /\ Get(r, "ParentImage") \in {"winword.exe", "excel.exe", "powerpnt.exe",
                                      "outlook.exe", "mspub.exe"}
        /\ Get(r, "Image") \in {"cmd.exe", "powershell.exe", "pwsh.exe", "wscript.exe",
                                "cscript.exe", "mshta.exe"}
    BY <1>4, <1>e, VerdictsAre DEF SuspiciousParentChild, When
  <2>2. r.channel = Sysmon
    BY <1>s, <2>1, NoneAssumption
  <2> QED
    BY <1>4, <2>1, <2>2 DEF Documented, Row
<1>5. CASE rule = "threat_intel_match"
  <2>1. /\ v = [mitre |-> "TA0011", severity |-> "high"]
        /\ ObservedIp(e) \in Indicators \ {None, "-"}
    BY <1>5, VerdictsAre DEF ThreatIntelMatch, When
  <2>2. Get(r, "WorkstationName") \in Indicators => Get(r, "WorkstationName") = None
    BY RecordsAssumption DEF Get
  <2>3. \/ r.id \in {4624, 4625} /\ Get(r, "IpAddress") \in Indicators \ {"-"}
        \/ /\ r.channel = Sysmon /\ r.id = 3 /\ Get(r, "Initiated") \in {"true"}
           /\ Get(r, "DestinationIp") \in Indicators
    BY <1>e, <2>1, <2>2 DEF ObservedIp, Or
  <2> QED
    BY <1>5, <2>1, <2>3 DEF Documented, Row
<1>6. CASE rule = "powershell_scriptblock"
  <2>1. /\ v = [mitre |-> "T1059.001", severity |-> "high"]
        /\ r.id = 4104 /\ Suspicious(Words(r, "ScriptBlockText"))
    BY <1>6, <1>e, VerdictsAre DEF PowerShellScriptBlock, When
  <2>2. \/ Words(r, "ScriptBlockText") \cap {"tool", "encoded_flag"} # {}
        \/ {"download", "execution"} \subseteq Words(r, "ScriptBlockText")
        \/ {"frombase64string", "execution"} \subseteq Words(r, "ScriptBlockText")
    BY <2>1, SuspiciousWords
  <2> QED
    BY <1>6, <2>1, <2>2 DEF Documented, Row
<1>7. CASE rule = "credential_access"
  <2>1. /\ v = [mitre |-> "T1003", severity |-> "high"]
        /\ r.id = 10 /\ Get(r, "TargetImage") \in {"lsass.exe"}
        /\ Get(r, "GrantedAccess") # None /\ (Get(r, "GrantedAccess") \div 16) % 2 = 1
    BY <1>7, <1>e, VerdictsAre DEF CredentialAccess, When
  <2>2. Get(r, "GrantedAccess") \in Nat
    BY <2>1, RecordsAssumption DEF Get
  <2>3. Get(r, "GrantedAccess") % 32 >= 16
    BY <2>1, <2>2, VmReadBit
  <2>4. r.channel = Sysmon
    BY <1>s, <2>1, NoneAssumption
  <2> QED
    BY <1>7, <2>1, <2>3, <2>4 DEF Documented, Row
<1>8. CASE rule = "persistence"
  <2>1. CASE r.id = 4698 /\ v = [mitre |-> "T1053.005", severity |-> "medium"]
    BY <1>8, <2>1 DEF Documented, Row
  <2>2. CASE r.id = 7045 /\ v = [mitre |-> "T1543.003", severity |-> "medium"]
    BY <1>8, <2>2 DEF Documented, Row
  <2> QED
    BY <1>8, <1>e, <2>1, <2>2, VerdictsAre DEF Persistence, When
<1> QED
  BY <1>1, <1>2, <1>3, <1>4, <1>5, <1>6, <1>7, <1>8, RuleNamesAre DEF Counting

-----------------------------------------------------------------------------
(* Types *)

LEMMA VerdictSeverity ==
    ASSUME NEW rule \in RuleNames \ Counting, NEW e, NEW s, NEW v \in Verdict(rule, e, s)
    PROVE  v.severity \in {"low", "medium", "high"}
BY RuleNamesAre, VerdictsAre
DEF Counting, When, NewAdminAccount, AfterHoursLogon, EncodedPowerShell,
    SuspiciousParentChild, ThreatIntelMatch, PowerShellScriptBlock, CredentialAccess,
    Persistence

\* The steps of Next, laid flat.
LEMMA Steps ==
    [Next]_vars =>
        \/ \E s \in Settings : Configure(s)
        \/ \E r \in Records : EvaluateEvent(r)
        \/ RuleRaises \/ RuleDecides \/ RuleCounts \/ Return
        \/ UNCHANGED vars
BY DEF Next

LEMMA TypeInit == Init => TypeOK
BY RuleOrderDomain, BoundsAssumption DEF Init, TypeOK

\* A rule's turn moves the loop on and stores or loses an alert of its own.
LEMMA RaiseAlertTypes ==
    ASSUME TypeOK, NEW i \in DOMAIN RuleOrder, NEW a,
           a.severity \in {"low", "medium", "high"}, RaiseAlert(i, a)
    PROVE  /\ next' \in 1..(Len(RuleOrder) + 1)
           /\ \A b \in alerts' : b.rule \in RuleNames /\ b.severity \in {"low", "medium", "high"}
           /\ lost' \subseteq RuleNames
<1>1. next' = i + 1 /\ i \in 1..10
  BY RuleOrderDomain DEF RaiseAlert, CatchException
<1>2. next' \in 1..(Len(RuleOrder) + 1)
  BY <1>1, RuleOrderDomain
<1>3. \A b \in alerts' : b.rule \in RuleNames /\ b.severity \in {"low", "medium", "high"}
  BY InRuleNames DEF RaiseAlert, TypeOK
<1>4. lost' \subseteq RuleNames
  BY InRuleNames DEF RaiseAlert, TypeOK
<1> QED  BY <1>2, <1>3, <1>4

LEMMA TypeNext == TypeOK /\ [Next]_vars => TypeOK'
<1> SUFFICES ASSUME TypeOK, [Next]_vars PROVE TypeOK'
  OBVIOUS
<1>1. CASE \E s \in Settings : Configure(s)
  BY <1>1, BoundsAssumption DEF Configure, evaluation, TypeOK
<1>2. CASE \E r \in Records : EvaluateEvent(r)
  BY <1>2 DEF EvaluateEvent, TypeOK
<1>0. ASSUME UNCHANGED <<settings, loop, record, saves>>,
             next' \in 1..(Len(RuleOrder) + 1),
             \A a \in alerts' : a.rule \in RuleNames /\ a.severity \in {"low", "medium", "high"},
             \A c \in counted' : c.rule \in Counting,
             lost' \subseteq RuleNames
      PROVE  TypeOK'
  BY <1>0 DEF TypeOK
<1>3. CASE RuleRaises
  <2>1. PICK i \in DOMAIN RuleOrder : CatchException(i)
    BY <1>3 DEF RuleRaises
  <2>2. next' \in 1..(Len(RuleOrder) + 1)
    BY <2>1, RuleOrderDomain DEF CatchException
  <2> QED
    BY <1>0, <1>3, <2>2 DEF RuleRaises, TypeOK
<1>4. CASE RuleDecides
  <2>1. PICK i \in DOMAIN RuleOrder :
            /\ RuleOrder[i] \notin Counting
            /\ \/ next' = i + 1 /\ UNCHANGED <<alerts, lost>>
               \/ \E a \in Verdict(RuleOrder[i], Normalize(record), loop) : RaiseAlert(i, a)
    BY <1>4 DEF RuleDecides
  <2>2. UNCHANGED <<settings, loop, record, counted, saves>>
    BY <1>4 DEF RuleDecides
  <2>3. CASE next' = i + 1 /\ UNCHANGED <<alerts, lost>>
    <3>1. next' \in 1..(Len(RuleOrder) + 1)
      BY <2>3, RuleOrderDomain
    <3> QED
      BY <1>0, <2>2, <2>3, <3>1 DEF TypeOK
  <2>4. CASE \E a \in Verdict(RuleOrder[i], Normalize(record), loop) : RaiseAlert(i, a)
    <3>1. PICK a \in Verdict(RuleOrder[i], Normalize(record), loop) : RaiseAlert(i, a)
      BY <2>4
    <3>2. a.severity \in {"low", "medium", "high"}
      BY <2>1, <3>1, InRuleNames, VerdictSeverity
    <3> QED
      BY <1>0, <2>2, <3>1, <3>2, RaiseAlertTypes DEF TypeOK
  <2> QED
    BY <2>1, <2>3, <2>4
<1>5. CASE RuleCounts
  <2>1. PICK i \in DOMAIN RuleOrder :
            /\ RuleOrder[i] \in Counting
            /\ \A c \in counted' : c \in counted \/ c.rule = RuleOrder[i]
            /\ \/ next' = i + 1 /\ UNCHANGED <<alerts, lost>>
               \/ RaiseAlert(i, CountingAlert(RuleOrder[i]))
    BY <1>5 DEF RuleCounts
  <2>2. UNCHANGED <<settings, loop, record, saves>>
    BY <1>5 DEF RuleCounts
  <2>3. \A c \in counted' : c.rule \in Counting
    BY <2>1 DEF TypeOK
  <2>4. CASE next' = i + 1 /\ UNCHANGED <<alerts, lost>>
    <3>1. next' \in 1..(Len(RuleOrder) + 1)
      BY <2>4, RuleOrderDomain
    <3> QED
      BY <1>0, <2>2, <2>3, <2>4, <3>1 DEF TypeOK
  <2>5. CASE RaiseAlert(i, CountingAlert(RuleOrder[i]))
    <3>1. CountingAlert(RuleOrder[i]).severity \in {"low", "medium", "high"}
      BY DEF CountingAlert
    <3> QED
      BY <1>0, <2>2, <2>3, <2>5, <3>1, RaiseAlertTypes
  <2> QED
    BY <2>1, <2>4, <2>5
<1>6. CASE Return
  BY <1>6, RuleOrderDomain DEF Return, TypeOK
<1>7. CASE UNCHANGED vars
  BY <1>7 DEF vars, evaluation, TypeOK
<1> QED
  BY <1>1, <1>2, <1>3, <1>4, <1>5, <1>6, <1>7, Steps

\* Every variable keeps its type, whatever the records and the settings: the loop
\* stays within the ten rules, and what is stored carries a severity alerts.py ranks.
THEOREM TypeCorrect == Spec => []TypeOK
BY TypeInit, TypeNext, PTL DEF Spec

-----------------------------------------------------------------------------
(* Nothing is missed *)

\* Between two records nothing is left of the one before.
IdleInv == record = None => alerts = {} /\ counted = {} /\ lost = {} /\ next = 1

\* What the rules the loop has been through were to alert on is stored or was lost.
PassedInv ==
    record # None =>
        \A i \in ActiveRules : i < next =>
            \A a \in Documented(record, loop) :
                a.rule = RuleOrder[i] => a \in alerts \/ a.rule \in lost

MissInv == TypeOK /\ IdleInv /\ PassedInv

\* After the turn of rule i the loop has been through i and what it had been through.
LEMMA Turn ==
    ASSUME TypeOK, NEW i \in DOMAIN RuleOrder, Running(i)
    PROVE  /\ record \in Records /\ record # None /\ i \in ActiveRules
           /\ RuleOrder[i] \in loop.enabled
           /\ \A j \in ActiveRules : j < i + 1 => j < next \/ j = i
<1>1. DOMAIN RuleOrder \subseteq Nat /\ next \in Nat
  BY RuleOrderDomain DEF TypeOK
<1>2. record \in Records /\ record # None /\ i \in ActiveRules /\ RuleOrder[i] \in loop.enabled
  BY DEF Running, Ahead, ActiveRules, Listed, TypeOK
<1>3. \A j \in ActiveRules : j < i + 1 => j < next \/ j = i
  BY <1>1 DEF Running, Ahead, ActiveRules, Listed
<1> QED  BY <1>2, <1>3

LEMMA MissInit == Init => MissInv
BY TypeInit DEF Init, MissInv, IdleInv, PassedInv

LEMMA IdleNext == TypeOK /\ IdleInv /\ [Next]_vars => IdleInv'
<1> SUFFICES ASSUME TypeOK, IdleInv, [Next]_vars PROVE IdleInv'
  OBVIOUS
<1>1. CASE \E s \in Settings : Configure(s)
  BY <1>1 DEF Configure, evaluation, IdleInv
<1>2. CASE \E r \in Records : EvaluateEvent(r)
  BY <1>2 DEF EvaluateEvent, IdleInv
<1>3. CASE RuleRaises
  BY <1>3 DEF RuleRaises, Running, IdleInv
<1>4. CASE RuleDecides
  BY <1>4 DEF RuleDecides, Running, IdleInv
<1>5. CASE RuleCounts
  BY <1>5 DEF RuleCounts, Running, IdleInv
<1>6. CASE Return
  BY <1>6 DEF Return, IdleInv
<1>7. CASE UNCHANGED vars
  BY <1>7 DEF vars, evaluation, IdleInv
<1> QED
  BY <1>1, <1>2, <1>3, <1>4, <1>5, <1>6, <1>7, Steps

LEMMA PassedNext == DefaultLogonId /\ MissInv /\ [Next]_vars => PassedInv'
<1> SUFFICES ASSUME DefaultLogonId, MissInv, [Next]_vars PROVE PassedInv'
  OBVIOUS
<1>t. TypeOK /\ IdleInv /\ PassedInv
  BY DEF MissInv
\* It is enough to look at what the rule whose turn it is was to alert on.
<1>0. ASSUME NEW i \in DOMAIN RuleOrder, Running(i), next' = i + 1,
             UNCHANGED <<loop, record>>, alerts \subseteq alerts', lost \subseteq lost',
             \A a \in Documented(record, loop) :
                a.rule = RuleOrder[i] => a \in alerts' \/ a.rule \in lost'
      PROVE  PassedInv'
  <2>1. record # None /\ \A j \in ActiveRules : j < i + 1 => j < next \/ j = i
    BY <1>0, <1>t, Turn
  <2> SUFFICES ASSUME NEW j \in ActiveRules, j < i + 1,
                      NEW a \in Documented(record, loop), a.rule = RuleOrder[j]
               PROVE  a \in alerts' \/ a.rule \in lost'
    BY <1>0 DEF PassedInv, ActiveRules
  <2>2. CASE j < next
    BY <1>0, <1>t, <2>1, <2>2 DEF PassedInv
  <2>3. CASE j = i
    BY <1>0, <2>3
  <2> QED
    BY <2>1, <2>2, <2>3
<1>1. CASE \E s \in Settings : Configure(s)
  BY <1>1, <1>t DEF Configure, evaluation, PassedInv, ActiveRules
<1>2. CASE \E r \in Records : EvaluateEvent(r)
  <2>1. next' = 1
    BY <1>2, <1>t DEF EvaluateEvent, IdleInv
  <2>2. \A i \in ActiveRules' : ~(i < next')
    BY <2>1, RuleOrderDomain DEF ActiveRules, Listed
  <2> QED
    BY <2>2 DEF PassedInv
<1>3. CASE RuleRaises
  <2>1. PICK i \in DOMAIN RuleOrder :
            /\ Running(i) /\ Raises(RuleOrder[i], Normalize(record), loop)
            /\ CatchException(i)
    BY <1>3 DEF RuleRaises
  <2>2. record \in Records /\ loop \in Settings
    BY <1>t, <2>1, Turn DEF TypeOK
  <2>3. \A a \in Documented(record, loop) : a.rule # RuleOrder[i]
    BY <2>1, <2>2, DocumentedIsDecided
  <2> QED
    BY <1>0, <1>3, <2>1, <2>3 DEF RuleRaises, CatchException
<1>4. CASE RuleDecides
  <2> DEFINE verdict(i) == Verdict(RuleOrder[i], Normalize(record), loop)
  <2>1. PICK i \in DOMAIN RuleOrder :
            /\ Running(i) /\ RuleOrder[i] \notin Counting
            /\ \/ verdict(i) = {} /\ next' = i + 1 /\ UNCHANGED <<alerts, lost>>
               \/ \E v \in verdict(i) : RaiseAlert(i, v)
    BY <1>4 DEF RuleDecides
  <2>2. record \in Records /\ loop \in Settings
    BY <1>t, <2>1, Turn DEF TypeOK
  <2>3. UNCHANGED <<loop, record>>
    BY <1>4 DEF RuleDecides
  <2>4. \A a \in Documented(record, loop) : a.rule = RuleOrder[i] =>
            /\ Shape(a) \in verdict(i)
            /\ a = [rule |-> a.rule, mitre |-> a.mitre, severity |-> a.severity]
    BY <2>2, DocumentedIsDecided
  <2>5. CASE verdict(i) = {} /\ next' = i + 1 /\ UNCHANGED <<alerts, lost>>
    BY <1>0, <2>1, <2>3, <2>4, <2>5
  <2>6. CASE \E v \in verdict(i) : RaiseAlert(i, v)
    <3>1. PICK v \in verdict(i) : RaiseAlert(i, v)
      BY <2>6
    <3>2. ASSUME NEW a \in Documented(record, loop), a.rule = RuleOrder[i]
          PROVE  a \in alerts' \/ a.rule \in lost'
      <4>1. v = Shape(a)
        BY <2>1, <2>4, <3>1, <3>2, InRuleNames, OneVerdict
      <4>2. v.mitre = a.mitre /\ v.severity = a.severity
        BY <4>1 DEF Shape
      <4>3. a = [rule |-> RuleOrder[i], mitre |-> v.mitre, severity |-> v.severity]
        BY <2>4, <3>2, <4>2
      <4> QED
        BY <3>1, <3>2, <4>3 DEF RaiseAlert
    <3>3. next' = i + 1 /\ alerts \subseteq alerts' /\ lost \subseteq lost'
      BY <3>1 DEF RaiseAlert, CatchException
    <3> QED
      BY <1>0, <2>1, <2>3, <3>2, <3>3
  <2> QED
    BY <2>1, <2>5, <2>6
<1>5. CASE RuleCounts
  <2>1. PICK i \in DOMAIN RuleOrder :
            /\ Running(i) /\ RuleOrder[i] \in Counting
            /\ \/ next' = i + 1 /\ UNCHANGED <<alerts, lost>>
               \/ RaiseAlert(i, CountingAlert(RuleOrder[i]))
    BY <1>5 DEF RuleCounts
  <2>2. UNCHANGED <<loop, record>>
    BY <1>5 DEF RuleCounts
  <2>3. record \in Records /\ loop \in Settings
    BY <1>t, <2>1, Turn DEF TypeOK
  <2>4. \A a \in Documented(record, loop) : a.rule # RuleOrder[i]
    BY <2>1, <2>3, DocumentedIsDecided
  <2>5. next' = i + 1 /\ alerts \subseteq alerts' /\ lost \subseteq lost'
    BY <2>1 DEF RaiseAlert, CatchException
  <2> QED
    BY <1>0, <2>1, <2>2, <2>4, <2>5
<1>6. CASE Return
  BY <1>6 DEF Return, PassedInv
<1>7. CASE UNCHANGED vars
  BY <1>7, <1>t DEF vars, evaluation, PassedInv, ActiveRules
<1> QED
  BY <1>1, <1>2, <1>3, <1>4, <1>5, <1>6, <1>7, Steps

LEMMA MissMeans == MissInv => NothingMissed
<1> SUFFICES ASSUME MissInv, Judged, NEW a \in Documented(record, loop),
                    a.rule \in loop.enabled, a.rule \in RuleNames
             PROVE  a \in alerts \/ a.rule \in lost
  <2>1. \A r, s : \A a \in Documented(r, s) : a.rule \in RuleNames
    BY RuleNamesAre DEF Documented
  <2> QED
    BY <2>1 DEF NothingMissed
<1>1. PICK i \in DOMAIN RuleOrder : RuleOrder[i] = a.rule
  BY DEF RuleNames
<1>2. i \in ActiveRules
  BY <1>1 DEF ActiveRules, Listed
<1>3. i < next
  BY <1>2, RuleOrderDomain DEF Judged, Ahead, MissInv, TypeOK
<1> QED
  BY <1>1, <1>2, <1>3 DEF Judged, MissInv, PassedInv

\* Whatever records come and whatever is saved meanwhile, each rule the evaluation
\* began with gets its turn, so that every alert the documentation promises is stored
\* unless storing that one failed (evaluate_event).
THEOREM NoneMissed ==
    ASSUME DefaultLogonId
    PROVE  Spec => []NothingMissed
<1>1. MissInv /\ [Next]_vars => MissInv'
  BY TypeNext, IdleNext, PassedNext DEF MissInv
<1> QED
  BY <1>1, MissInit, MissMeans, PTL DEF Spec

-----------------------------------------------------------------------------
(* Nothing is invented *)

\* The alert a of a rule is one NothingInvented allows.
CalledFor(a) ==
    /\ a.rule \in loop.enabled
    /\ a.rule \notin Counting =>
          \/ a \in Documented(record, loop)
          \/ a.rule = "encoded_powershell"
             /\ Words(record, "CommandLine") \cap {"-encoding", "-e"} # {}
          \/ a.rule = "afterhours_logon" /\ loop.start > loop.end

\* What is counted is a port of this machine, for somebody else.
FromOutside(c) ==
    c.rule = "port_scan_detection" =>
        \E side \in {<<"SourceAddress", "SourcePort">>, <<"DestAddress", "DestPort">>} :
            /\ Get(record, side[1]) \in LocalIps /\ Get(record, side[2]) = c.item
            /\ c.key \notin LocalIps \cup {None}

InventInv ==
    /\ TypeOK /\ IdleInv
    /\ \A a \in alerts : CalledFor(a)
    /\ \A c \in counted : FromOutside(c)

LEMMA InventMeans == InventInv <=> TypeOK /\ IdleInv /\ NothingInvented
BY DEF InventInv, NothingInvented, CalledFor, FromOutside

LEMMA InventInit == Init => InventInv
BY TypeInit DEF Init, InventInv, IdleInv

\* port_scan_detection takes the port at one end and the address at the other.
LEMMA ProbedFromOutside ==
    ASSUME NEW r, NEW e, e = Normalize(r), NEW c \in ProbedPort(e)
    PROVE  \E side \in {<<"SourceAddress", "SourcePort">>, <<"DestAddress", "DestPort">>} :
              /\ Get(r, side[1]) \in LocalIps /\ Get(r, side[2]) = c.item
              /\ c.key \notin LocalIps \cup {None}
<1>1. \A name : Get(e, name) = Get(r, name)
  BY NormalizeKeeps
<1>2. \/ /\ Get(e, "SourceAddress") \in LocalIps
         /\ Get(e, "DestAddress") \notin LocalIps \cup {None}
         /\ c.key = Get(e, "DestAddress") /\ c.item = Get(e, "SourcePort")
      \/ /\ Get(e, "DestAddress") \in LocalIps
         /\ Get(e, "SourceAddress") \notin LocalIps \cup {None}
         /\ c.key = Get(e, "SourceAddress") /\ c.item = Get(e, "DestPort")
  BY DEF ProbedPort
<1> QED
  BY <1>1, <1>2

LEMMA InventNext == DefaultLogonId /\ InventInv /\ [Next]_vars => InventInv'
<1> SUFFICES ASSUME DefaultLogonId, InventInv, [Next]_vars PROVE InventInv'
  OBVIOUS
<1>t. TypeOK /\ IdleInv /\ TypeOK' /\ IdleInv'
  BY TypeNext, IdleNext DEF InventInv
\* It is enough to look at what the rule whose turn it is adds.
<1>0. ASSUME UNCHANGED <<loop, record>>,
             \A a \in alerts' : a \in alerts \/ CalledFor(a),
             \A c \in counted' : c \in counted \/ FromOutside(c)
      PROVE  InventInv'
  BY <1>0, <1>t DEF InventInv, CalledFor, FromOutside
<1>1. CASE \E s \in Settings : Configure(s)
  BY <1>0, <1>1 DEF Configure, evaluation
<1>2. CASE \E r \in Records : EvaluateEvent(r)
  <2>1. alerts' = {} /\ counted' = {}
    BY <1>2, <1>t DEF EvaluateEvent, IdleInv
  <2> QED
    BY <1>t, <2>1 DEF InventInv
<1>3. CASE RuleRaises
  BY <1>0, <1>3 DEF RuleRaises
<1>4. CASE RuleDecides
  <2>1. PICK i \in DOMAIN RuleOrder :
            /\ Running(i) /\ RuleOrder[i] \notin Counting
            /\ ~Raises(RuleOrder[i], Normalize(record), loop)
            /\ \/ alerts' = alerts
               \/ \E v \in Verdict(RuleOrder[i], Normalize(record), loop) : RaiseAlert(i, v)
    BY <1>4 DEF RuleDecides
  <2>2. record \in Records /\ loop \in Settings /\ RuleOrder[i] \in loop.enabled
    BY <1>t, <2>1, Turn DEF TypeOK
  <2>3. ASSUME NEW v \in Verdict(RuleOrder[i], Normalize(record), loop), RaiseAlert(i, v)
        PROVE  \A a \in alerts' : a \in alerts \/ CalledFor(a)
    <3>1. \A a \in alerts' : a \in alerts \/ a = Row(RuleOrder[i], v.mitre, v.severity)
      BY <2>3 DEF RaiseAlert, Row
    <3>2. \/ Row(RuleOrder[i], v.mitre, v.severity) \in Documented(record, loop)
          \/ RuleOrder[i] = "encoded_powershell"
             /\ Words(record, "CommandLine") \cap {"-encoding", "-e"} # {}
          \/ RuleOrder[i] = "afterhours_logon" /\ loop.start > loop.end
      BY <2>1, <2>2, InRuleNames, DecidedIsDocumented
    <3>3. Row(RuleOrder[i], v.mitre, v.severity).rule = RuleOrder[i]
      BY DEF Row
    <3> QED
      BY <2>2, <3>1, <3>2, <3>3 DEF CalledFor
  <2> QED
    BY <1>0, <1>4, <2>1, <2>3 DEF RuleDecides
<1>5. CASE RuleCounts
  <2>1. PICK i \in DOMAIN RuleOrder :
            /\ Running(i) /\ RuleOrder[i] \in Counting
            /\ counted' = counted \cup
                  {[rule |-> RuleOrder[i], key |-> c.key, item |-> c.item] :
                      c \in Counts(RuleOrder[i], Normalize(record), loop)}
            /\ \/ alerts' = alerts
               \/ RaiseAlert(i, CountingAlert(RuleOrder[i]))
    BY <1>5 DEF RuleCounts
  <2>2. RuleOrder[i] \in loop.enabled
    BY <1>t, <2>1, Turn
  <2>3. \A a \in alerts' : a \in alerts \/ CalledFor(a)
    BY <2>1, <2>2 DEF RaiseAlert, CalledFor
  <2>4. ASSUME NEW c \in Counts(RuleOrder[i], Normalize(record), loop),
               RuleOrder[i] = "port_scan_detection"
        PROVE  FromOutside([rule |-> RuleOrder[i], key |-> c.key, item |-> c.item])
    <3>1. c \in ProbedPort(Normalize(record))
      BY <2>4 DEF Counts
    <3> QED
      BY <3>1, ProbedFromOutside DEF FromOutside
  <2>5. \A c \in counted' : c \in counted \/ FromOutside(c)
    BY <2>1, <2>4 DEF FromOutside
  <2> QED
    BY <1>0, <1>5, <2>3, <2>5 DEF RuleCounts
<1>6. CASE Return
  <2>1. alerts' = {} /\ counted' = {}
    BY <1>6 DEF Return
  <2> QED
    BY <1>t, <2>1 DEF InventInv
<1>7. CASE UNCHANGED vars
  BY <1>0, <1>7 DEF vars, evaluation
<1> QED
  BY <1>1, <1>2, <1>3, <1>4, <1>5, <1>6, <1>7, Steps

\* No rule alerts that was off when the evaluation began or on what the documentation
\* does not call for, but for the two exceptions the property names, and nothing this
\* machine does counts as a port scan, whichever of the two readings of the fields of
\* event 5157 is right.
THEOREM NoneInvented ==
    ASSUME DefaultLogonId
    PROVE  Spec => []NothingInvented
BY InventInit, InventNext, InventMeans, PTL DEF Spec

-----------------------------------------------------------------------------
(* Who is linked *)

\* The other id config.yaml gives and the Settings tab does not offer to change.
DefaultFailedId == \A s \in Settings : s.failedLogon = 4625

\* The events on which some rule alerts, apart from new accounts and group members.
LogonIds == {4624, 4625}
OtherIds == {1, 3, 10, 4104, 4698, 5157, 7045}

\* What Windows and Sysmon put into those events: a logon names the account that logs
\* on as its target, and none of the others has a target.
TargetsAsLogged ==
    \A r \in Records :
        /\ r.id \in LogonIds => Get(r, "TargetUserName") # None
        /\ r.id \in OtherIds => Get(r, "TargetUserName") = None

\* An alert is about one of these events.
AlertedInv == alerts # {} => record.id \in LogonIds \cup OtherIds \cup {4720, 4732}

DoerInv == TypeOK /\ IdleInv /\ AlertedInv

LEMMA DecidedIds ==
    ASSUME DefaultLogonId, NEW s \in Settings, NEW e, NEW rule \in RuleNames \ Counting,
           Verdict(rule, e, s) # {}
    PROVE  e.id \in LogonIds \cup OtherIds \cup {4720, 4732}
<1>1. ObservedIp(e) # None => e.id \in {3, 4624, 4625}
  BY DEF ObservedIp
<1>2. HumanLogon(e, s) => e.id = 4624
  BY DEF HumanLogon, DefaultLogonId
<1> QED
  BY <1>1, <1>2, RuleNamesAre, VerdictsAre
  DEF Counting, When, NewAdminAccount, AfterHoursLogon, EncodedPowerShell,
      SuspiciousParentChild, ThreatIntelMatch, PowerShellScriptBlock, CredentialAccess,
      Persistence, LogonIds, OtherIds

LEMMA CountedIds ==
    ASSUME DefaultFailedId, NEW s \in Settings, NEW e, NEW rule, Counts(rule, e, s) # {}
    PROVE  e.id \in LogonIds \cup OtherIds
BY DEF Counts, FailedLogon, ProbedPort, DefaultFailedId, LogonIds, OtherIds

LEMMA AlertedNext ==
    DefaultLogonId /\ DefaultFailedId /\ DoerInv /\ [Next]_vars => AlertedInv'
<1> SUFFICES ASSUME DefaultLogonId, DefaultFailedId, DoerInv, [Next]_vars
             PROVE  AlertedInv'
  OBVIOUS
<1>t. TypeOK /\ IdleInv /\ AlertedInv
  BY DEF DoerInv
<1>e. Normalize(record).id = record.id
  BY NormalizeKeeps
<1>1. CASE \E s \in Settings : Configure(s)
  BY <1>1, <1>t DEF Configure, evaluation, AlertedInv
<1>2. CASE \E r \in Records : EvaluateEvent(r)
  BY <1>2, <1>t DEF EvaluateEvent, IdleInv, AlertedInv
<1>3. CASE RuleRaises
  BY <1>3, <1>t DEF RuleRaises, AlertedInv
<1>4. CASE RuleDecides
  <2>1. PICK i \in DOMAIN RuleOrder :
            /\ Running(i) /\ RuleOrder[i] \notin Counting
            /\ alerts' = alerts \/ Verdict(RuleOrder[i], Normalize(record), loop) # {}
    BY <1>4 DEF RuleDecides
  <2>2. loop \in Settings /\ record' = record
    BY <1>4, <1>t DEF TypeOK, RuleDecides
  <2>3. CASE Verdict(RuleOrder[i], Normalize(record), loop) # {}
    BY <1>e, <2>1, <2>2, <2>3, InRuleNames, DecidedIds DEF AlertedInv
  <2> QED
    BY <1>t, <2>1, <2>2, <2>3 DEF AlertedInv
<1>5. CASE RuleCounts
  <2>1. PICK i \in DOMAIN RuleOrder :
            alerts' = alerts \/ Counts(RuleOrder[i], Normalize(record), loop) # {}
    BY <1>5 DEF RuleCounts
  <2>2. loop \in Settings /\ record' = record
    BY <1>5, <1>t DEF TypeOK, RuleCounts
  <2>3. CASE Counts(RuleOrder[i], Normalize(record), loop) # {}
    BY <1>e, <2>2, <2>3, CountedIds DEF AlertedInv
  <2> QED
    BY <1>t, <2>1, <2>2, <2>3 DEF AlertedInv
<1>6. CASE Return
  BY <1>6 DEF Return, AlertedInv
<1>7. CASE UNCHANGED vars
  BY <1>7, <1>t DEF vars, evaluation, AlertedInv
<1> QED
  BY <1>1, <1>2, <1>3, <1>4, <1>5, <1>6, <1>7, Steps

LEMMA DoerMeans == TargetsAsLogged /\ DoerInv => ActorIsDoer
<1> SUFFICES ASSUME TargetsAsLogged, DoerInv, alerts # {}, record.id \notin {4720, 4732}
             PROVE  Normalize(record).user = Doer(record)
  BY DEF ActorIsDoer
<1>1. record \in Records /\ record.id \in LogonIds \cup OtherIds
  BY DEF DoerInv, TypeOK, IdleInv, AlertedInv
<1>2. Normalize(record).user = UserOf(record)
  BY DEF Normalize
<1>3. LogonIds \cap OtherIds = {}
  BY DEF LogonIds, OtherIds
<1> QED
  BY <1>1, <1>2, <1>3 DEF UserOf, Doer, Or, TargetsAsLogged, LogonIds

\* Where Windows names a target for logons only, an alert is linked to others by the
\* account that acted, except for new accounts and group members (normalize_event).
THEOREM LinkedByDoer ==
    ASSUME DefaultLogonId, DefaultFailedId, TargetsAsLogged
    PROVE  Spec => []ActorIsDoer
<1>1. Init => DoerInv
  BY TypeInit DEF Init, DoerInv, IdleInv, AlertedInv
<1>2. DoerInv /\ [Next]_vars => DoerInv'
  BY TypeNext, IdleNext, AlertedNext DEF DoerInv
<1> QED
  BY <1>1, <1>2, DoerMeans, PTL DEF Spec
=============================================================================
