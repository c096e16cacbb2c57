------------------------------ MODULE Response -------------------------------
(***************************************************************************)
(* Blocking and unblocking an address (siem/response.py with the           *)
(* blocked_ips part of siem/storage.py), as called by the two UIs, which   *)
(* are processes of their own: the desktop app and the dashboard, whose    *)
(* server handles each request in a thread.                                *)
(*                                                                         *)
(* A call changes two stores that share no transaction: the Windows        *)
(* Firewall, through one netsh process per step, and the table.  One       *)
(* action per netsh run and per statement; calls interleave, and a call    *)
(* can fail or its process end at each of them.                            *)
(***************************************************************************)
EXTENDS Naturals, FiniteSets

CONSTANTS
    Clients,    \* the threads of the UIs that can be inside a call
    IPs,        \* the addresses requested
    Public,     \* those is_blockable_ip accepts
    Requests,   \* the calls users make: "block", "unblock"
    Faults,     \* the failures that happen, see below
    MaxFaults   \* bound on the number of failures

Directions == {"in", "out"}
FaultKinds ==
    {"refused",   \* netsh cannot be run or returns an error, with no effect
     "timeout",   \* netsh is killed after 15 s, its effect done or not
     "storage",   \* the statement on blocked_ips raises: database locked
     "crash"}     \* the process of the client ends

ASSUME PublicAssumption == Public \subseteq IPs /\ IPs # {}
ASSUME RequestsAssumption == Requests \subseteq {"block", "unblock"}
ASSUME FaultsAssumption == Faults \subseteq FaultKinds /\ MaxFaults \in Nat

VARIABLES
    firewall,   \* firewall[ip]: the directions a rule of this app blocks
    blocked,    \* the blocked_ips table
    pc,         \* pc[c]: where client c is in block_ip or unblock_ip
    target,     \* target[c]: the argument of that call
    answer,     \* answer[c]: what the last call of c returned, "none" inside one
    faultCount, \* failures so far
    \* history
    broken,     \* broken[ip]: what has gone wrong so far in calls for ip: kinds of
                \* failures, "overlap"
    alone,      \* alone[c]: no other call for the address has overlapped the one c is in
    unblocked   \* the addresses an unblock_ip has run netsh for

history == <<broken, alone, unblocked>>
vars == <<firewall, blocked, pc, target, answer, faultCount, history>>

Answers ==
    {"none", "blocked", "already blocked", "not blockable", "unblocked",
     "not blocked", "netsh failed", "exception"}

\* The target of a client outside a call, which nothing looks at.
NoCall == CHOOSE ip \in IPs : TRUE

Init ==
    /\ firewall = [ip \in IPs |-> {}]
    /\ blocked = {}
    /\ pc = [c \in Clients |-> "idle"]
    /\ target = [c \in Clients |-> NoCall]
    /\ answer = [c \in Clients |-> "none"]
    /\ faultCount = 0
    /\ broken = [ip \in IPs |-> {}] /\ alone = [c \in Clients |-> TRUE]
    /\ unblocked = {}

Goto(c, place) == pc' = [pc EXCEPT ![c] = place]

\* The call of client c returns a.
Return(c, a) ==
    /\ Goto(c, "idle")
    /\ answer' = [answer EXCEPT ![c] = a]
    /\ alone' = [alone EXCEPT ![c] = TRUE]
    /\ target' = [target EXCEPT ![c] = NoCall]

Fault(c, kind) ==
    /\ kind \in Faults /\ faultCount < MaxFaults
    /\ faultCount' = faultCount + 1
    /\ broken' = [broken EXCEPT ![target[c]] = @ \cup {kind}]

InCallFor(ip) == {d \in Clients : pc[d] # "idle" /\ target[d] = ip}

\* Client c is past the checks of a call for ip, while others are in theirs or not.
Enter(c, ip, place) ==
    /\ Goto(c, place)
    /\ target' = [target EXCEPT ![c] = ip]
    /\ answer' = [answer EXCEPT ![c] = "none"]
    /\ alone' = [d \in Clients |-> IF d = c THEN InCallFor(ip) = {}
                                   ELSE alone[d] /\ d \notin InCallFor(ip)]
    /\ broken' = IF InCallFor(ip) = {} THEN broken
                 ELSE [broken EXCEPT ![ip] = @ \cup {"overlap"}]

\* The checks answer a.
Refuse(c, a) == Return(c, a) /\ UNCHANGED broken

-----------------------------------------------------------------------------
(* block_ip *)

\* Mutant: every address is accepted.
AnyBlockable(ip) == TRUE

is_blockable_ip(ip) == ip \in Public

\* The checks before the first netsh run.
BlockIP(c, ip) ==
    /\ pc[c] = "idle" /\ "block" \in Requests
    /\ \/ ~is_blockable_ip(ip) /\ Refuse(c, "not blockable")
       \/ is_blockable_ip(ip) /\ ip \in blocked /\ Refuse(c, "already blocked")
       \/ is_blockable_ip(ip) /\ ip \notin blocked /\ Enter(c, ip, "add in")
    /\ UNCHANGED <<firewall, blocked, faultCount, unblocked>>

\* Mutant: the outbound rule is added when there is no inbound rule.
AddOneDirection(c, dir, next) ==
    /\ firewall' = [firewall EXCEPT ![target[c]] = IF @ = {} THEN {dir} ELSE @]
    /\ Goto(c, next)

\* netsh adds the rule for one direction of the loop.
AddRule(c, dir, next) ==
    /\ firewall' = [firewall EXCEPT ![target[c]] = @ \cup {dir}]
    /\ Goto(c, next)

AddInbound(c) ==
    /\ pc[c] = "add in"
    /\ AddRule(c, "in", "add out")
    /\ UNCHANGED <<blocked, target, answer, faultCount, history>>

AddOutbound(c) ==
    /\ pc[c] = "add out"
    /\ AddRule(c, "out", "add row")
    /\ UNCHANGED <<blocked, target, answer, faultCount, history>>

\* The loop returns at the first failure and leaves the rules it has added.
AddFails(c, dir) ==
    /\ pc[c] = IF dir = "in" THEN "add in" ELSE "add out"
    /\ \/ Fault(c, "refused") /\ UNCHANGED firewall
       \/ Fault(c, "timeout") /\ UNCHANGED firewall
       \/ /\ Fault(c, "timeout")
          /\ firewall' = [firewall EXCEPT ![target[c]] = @ \cup {dir}]
    /\ Return(c, "netsh failed")
    /\ UNCHANGED <<blocked, unblocked>>

\* add_blocked_ip, an upsert.
AddBlockedIP(c) ==
    /\ pc[c] = "add row"
    /\ blocked' = blocked \cup {target[c]}
    /\ Return(c, "blocked")
    /\ UNCHANGED <<firewall, faultCount, broken, unblocked>>

-----------------------------------------------------------------------------
(* unblock_ip *)

UnblockIP(c, ip) ==
    /\ pc[c] = "idle" /\ "unblock" \in Requests
    /\ \/ ip \notin blocked /\ Refuse(c, "not blocked")
       \/ ip \in blocked /\ Enter(c, ip, "delete")
    /\ UNCHANGED <<firewall, blocked, faultCount, unblocked>>

\* Mutant: only the inbound rules are deleted.
DeleteInbound(c) ==
    /\ pc[c] = "delete" /\ firewall[target[c]] # {}
    /\ firewall' = [firewall EXCEPT ![target[c]] = @ \ {"in"}]
    /\ Goto(c, "remove row")
    /\ unblocked' = unblocked \cup {target[c]}
    /\ UNCHANGED <<blocked, target, answer, faultCount, broken, alone>>

\* One netsh run deletes every rule of that name.
DeleteRules(c) ==
    /\ pc[c] = "delete" /\ firewall[target[c]] # {}
    /\ firewall' = [firewall EXCEPT ![target[c]] = {}]
    /\ Goto(c, "remove row")
    /\ unblocked' = unblocked \cup {target[c]}
    /\ UNCHANGED <<blocked, target, answer, faultCount, broken, alone>>

\* netsh finds no rule of that name and returns an error.
NoRulesMatch(c) ==
    /\ pc[c] = "delete" /\ firewall[target[c]] = {}
    /\ Return(c, "netsh failed")
    /\ UNCHANGED <<firewall, blocked, faultCount, broken, unblocked>>

DeleteFails(c) ==
    /\ pc[c] = "delete"
    /\ \/ Fault(c, "refused") /\ UNCHANGED firewall
       \/ Fault(c, "timeout") /\ UNCHANGED firewall
       \/ /\ Fault(c, "timeout")
          /\ firewall' = [firewall EXCEPT ![target[c]] = {}]
    /\ unblocked' = unblocked \cup {target[c]}
    /\ Return(c, "netsh failed")
    /\ UNCHANGED blocked

\* Mutant: the row stays.
KeepBlockedIP(c) ==
    /\ pc[c] = "remove row"
    /\ Return(c, "unblocked")
    /\ UNCHANGED <<firewall, blocked, faultCount, broken, unblocked>>

RemoveBlockedIP(c) ==
    /\ pc[c] = "remove row"
    /\ blocked' = blocked \ {target[c]}
    /\ Return(c, "unblocked")
    /\ UNCHANGED <<firewall, faultCount, broken, unblocked>>

-----------------------------------------------------------------------------
(* Failures outside netsh *)

StorageFails(c) ==
    /\ pc[c] \in {"add row", "remove row"}
    /\ Fault(c, "storage")
    /\ Return(c, "exception")
    /\ UNCHANGED <<firewall, blocked, unblocked>>

Crash(c) ==
    /\ pc[c] # "idle"
    /\ Fault(c, "crash")
    /\ Return(c, "none")
    /\ UNCHANGED <<firewall, blocked, unblocked>>

-----------------------------------------------------------------------------
Call(c) == \E ip \in IPs : BlockIP(c, ip) \/ UnblockIP(c, ip)

\* The step that takes the call of c on when nothing fails.
Proceed(c) ==
    \/ AddInbound(c) \/ AddOutbound(c) \/ AddBlockedIP(c)
    \/ DeleteRules(c) \/ NoRulesMatch(c) \/ RemoveBlockedIP(c)

Failure(c) ==
    \/ \E dir \in Directions : AddFails(c, dir)
    \/ DeleteFails(c) \/ StorageFails(c) \/ Crash(c)

Next == \E c \in Clients : Call(c) \/ Proceed(c) \/ Failure(c)

Spec == Init /\ [][Next]_vars

\* A call runs to its end, and the user who sees an address in the Blocked IPs
\* list asks for it to be unblocked whenever the UI is idle.
Fairness ==
    \A c \in Clients :
        /\ WF_vars(Proceed(c))
        /\ \A ip \in Public : SF_vars(ip \in blocked /\ UnblockIP(c, ip))

FairSpec == Spec /\ Fairness

-----------------------------------------------------------------------------
(* Properties *)

\* Every variable stays in its type.
TypeOK ==
    /\ firewall \in [IPs -> SUBSET Directions]
    /\ blocked \subseteq Public
    /\ pc \in [Clients -> {"idle", "add in", "add out", "add row",
                           "delete", "remove row"}]
    /\ target \in [Clients -> IPs]
    /\ answer \in [Clients -> Answers]
    /\ faultCount \in 0..MaxFaults
    /\ broken \in [IPs -> SUBSET (Faults \cup {"overlap"})] /\ alone \in [Clients -> BOOLEAN]
    /\ unblocked \subseteq IPs

\* An address listed as blocked is blocked in both directions, whatever calls
\* are half done and however they fail, unless an unblock_ip has been at its
\* rules (README, "Response actions": block_ip adds both rules, then the row).
ListedIsBlocked == \A ip \in blocked \ unblocked : firewall[ip] = Directions

\* As long as the calls for an address came one at a time and none failed, the
\* table and the firewall agree on it between them, whatever calls for other
\* addresses do meanwhile: it has rules, in both directions, if and only if it is
\* listed (README: the blocked addresses "are tracked in the blocked_ips table and
\* listed in both UIs").
TableMatchesFirewall ==
    \A ip \in IPs :
        InCallFor(ip) = {} /\ broken[ip] = {} =>
            firewall[ip] = IF ip \in blocked THEN Directions ELSE {}

\* A call that no other call for its address has overlapped, and that has gone
\* through and answers success, has done all it says, whatever earlier calls left
\* behind when they failed or overlapped (the (True, ...) results of block_ip and
\* unblock_ip).
SuccessIsReal ==
    [][ \A c \in Clients : pc[c] # "idle" /\ pc'[c] = "idle" /\ alone[c] =>
            /\ answer'[c] = "blocked" =>
                    firewall'[target[c]] = Directions /\ target[c] \in blocked'
            /\ answer'[c] = "unblocked" =>
                    firewall'[target[c]] = {} /\ target[c] \notin blocked'
      ]_vars

\* A user who keeps asking for a listed address to be unblocked succeeds, as
\* long as calls for it came one at a time and netsh only refused now and then.
UnblockSucceeds ==
    \A ip \in Public :
        ip \in blocked ~> ip \notin blocked \/ ~(broken[ip] \subseteq {"refused"})
=============================================================================
