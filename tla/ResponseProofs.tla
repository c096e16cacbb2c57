--------------------------- MODULE ResponseProofs ----------------------------
(***************************************************************************)
(* Theorems about Response, for any clients and addresses and any number   *)
(* of failures.                                                            *)
(***************************************************************************)
EXTENDS Response, TLAPS

InCall(c) == pc[c] # "idle"

\* The addresses being blocked passed is_blockable_ip.
TargetsPublic ==
    \A c \in Clients : pc[c] \in {"add in", "add out", "add row"} => target[c] \in Public

TypeInv == TypeOK /\ TargetsPublic

\* Every place a call can be at, with its steps from there.
LEMMA Places ==
  ASSUME NEW c \in Clients, Call(c) \/ Proceed(c) \/ Failure(c)
  PROVE  \/ \E ip \in IPs : BlockIP(c, ip) \/ UnblockIP(c, ip)
         \/ AddInbound(c) \/ AddOutbound(c) \/ AddBlockedIP(c)
         \/ DeleteRules(c) \/ NoRulesMatch(c) \/ RemoveBlockedIP(c)
         \/ \E dir \in Directions : AddFails(c, dir)
         \/ DeleteFails(c) \/ StorageFails(c) \/ Crash(c)
  BY DEF Call, Proceed, Failure

\* A failure adds its kind to the history and stays within the bound.
LEMMA FaultType ==
  ASSUME TypeOK, NEW c \in Clients, NEW kind, Fault(c, kind)
  PROVE  /\ faultCount' \in 0..MaxFaults
         /\ broken' \in [IPs -> SUBSET (Faults \cup {"overlap"})]
         /\ \A ip \in IPs : broken[ip] \subseteq broken'[ip]
         /\ kind \in broken'[target[c]]
  <1>1. MaxFaults \in Nat /\ faultCount \in 0..MaxFaults /\ faultCount < MaxFaults
    BY FaultsAssumption DEF Fault, TypeOK
  <1>2. /\ faultCount' = faultCount + 1 /\ kind \in Faults
        /\ broken' = [broken EXCEPT ![target[c]] = @ \cup {kind}]
    BY DEF Fault
  <1>3. target[c] \in IPs /\ broken \in [IPs -> SUBSET (Faults \cup {"overlap"})]
    BY DEF TypeOK
  <1> QED BY <1>1, <1>2, <1>3

\* A rule added, or all of them deleted, leaves the firewall in its type.
LEMMA FirewallType ==
  ASSUME TypeOK, NEW ip \in IPs, NEW dirs \in SUBSET Directions,
         \/ firewall' = firewall
         \/ firewall' = [firewall EXCEPT ![ip] = @ \cup dirs]
         \/ firewall' = [firewall EXCEPT ![ip] = {}]
  PROVE  firewall' \in [IPs -> SUBSET Directions]
  <1>1. firewall \in [IPs -> SUBSET Directions]
    BY DEF TypeOK
  <1>2. firewall[ip] \cup dirs \in SUBSET Directions
    BY <1>1
  <1> QED BY <1>1, <1>2

\* Entering a call leaves the history in its type.
LEMMA EnterType ==
  ASSUME TypeOK, NEW c \in Clients, NEW ip \in IPs, NEW place, Enter(c, ip, place)
  PROVE  /\ target' \in [Clients -> IPs] /\ target'[c] = ip
         /\ \A d \in Clients \ {c} : target'[d] = target[d]
         /\ pc' = [pc EXCEPT ![c] = place] /\ answer' = [answer EXCEPT ![c] = "none"]
         /\ alone' \in [Clients -> BOOLEAN]
         /\ broken' \in [IPs -> SUBSET (Faults \cup {"overlap"})]
         /\ \A i \in IPs : broken[i] \subseteq broken'[i]
  <1>1. /\ target \in [Clients -> IPs] /\ alone \in [Clients -> BOOLEAN]
        /\ broken \in [IPs -> SUBSET (Faults \cup {"overlap"})]
    BY DEF TypeOK
  <1>2. alone' \in [Clients -> BOOLEAN]
    <2>1. \A d \in Clients : (IF d = c THEN InCallFor(ip) = {}
                                ELSE alone[d] /\ d \notin InCallFor(ip)) \in BOOLEAN
      OBVIOUS
    <2> QED BY <2>1, Zenon DEF Enter
  <1>3. broken' = broken \/ broken' = [broken EXCEPT ![ip] = @ \cup {"overlap"}]
    BY DEF Enter
  <1>4. /\ broken' \in [IPs -> SUBSET (Faults \cup {"overlap"})]
        /\ \A i \in IPs : broken[i] \subseteq broken'[i]
    BY <1>1, <1>3
  <1>5. /\ target' = [target EXCEPT ![c] = ip]
        /\ pc' = [pc EXCEPT ![c] = place] /\ answer' = [answer EXCEPT ![c] = "none"]
    BY DEF Enter, Goto
  <1> QED BY <1>1, <1>2, <1>4, <1>5

\* Returning takes a client out of its call and leaves the others in theirs.
LEMMA ReturnType ==
  ASSUME TypeInv, NEW c \in Clients, NEW a \in Answers, Return(c, a)
  PROVE  /\ pc' \in [Clients -> {"idle", "add in", "add out", "add row", "delete", "remove row"}]
         /\ target' \in [Clients -> IPs] /\ answer' \in [Clients -> Answers]
         /\ alone' \in [Clients -> BOOLEAN] /\ TargetsPublic'
  <1>1. NoCall \in IPs
    BY PublicAssumption DEF NoCall
  <1>2. TypeOK /\ TargetsPublic
    BY DEF TypeInv
  <1>3. alone' \in [Clients -> BOOLEAN]
    BY <1>2, Zenon DEF Return, TypeOK
  <1>4. /\ pc' \in [Clients -> {"idle", "add in", "add out", "add row", "delete", "remove row"}]
        /\ target' \in [Clients -> IPs] /\ answer' \in [Clients -> Answers]
    BY <1>1, <1>2 DEF Return, Goto, TypeOK
  <1>5. TargetsPublic'
    BY <1>2 DEF Return, Goto, TypeOK, TargetsPublic
  <1> QED BY <1>3, <1>4, <1>5

\* The initial state is well typed.
LEMMA TypeInit == Init => TypeInv
  <1>1. NoCall \in IPs
    BY PublicAssumption DEF NoCall
  <1> QED BY <1>1, FaultsAssumption
          DEF Init, TypeInv, TypeOK, TargetsPublic, Directions, Answers

\* Every step of a call, failing or not, keeps the types.
LEMMA TypeNext == TypeInv /\ [Next]_vars => TypeInv'
  <1> SUFFICES ASSUME TypeInv, [Next]_vars PROVE TypeInv'
    OBVIOUS
  <1>t. TypeOK /\ TargetsPublic
    BY DEF TypeInv
  <1> USE DEF TypeInv, TypeOK, TargetsPublic, history, Goto
  <1>a. {"none", "blocked", "already blocked", "not blockable", "unblocked",
         "not blocked", "netsh failed", "exception"} = Answers
    BY DEF Answers
  <1>p. Public \subseteq IPs
    BY PublicAssumption
  <1>1. ASSUME NEW c \in Clients, NEW ip \in IPs, BlockIP(c, ip) PROVE TypeInv'
    <2>1. CASE ip \in Public /\ Enter(c, ip, "add in")
      <3>1. /\ target' \in [Clients -> IPs] /\ target'[c] = ip
            /\ \A d \in Clients \ {c} : target'[d] = target[d]
            /\ pc' = [pc EXCEPT ![c] = "add in"] /\ answer' = [answer EXCEPT ![c] = "none"]
            /\ alone' \in [Clients -> BOOLEAN]
            /\ broken' \in [IPs -> SUBSET (Faults \cup {"overlap"})]
        BY <2>1, EnterType
      <3> QED BY <2>1, <3>1, <1>1, <1>a DEF BlockIP
    <2>2. CASE Refuse(c, "not blockable") \/ Refuse(c, "already blocked")
      <3>1. \E a \in Answers : Return(c, a)
        BY <2>2, <1>a, Zenon DEF Refuse
      <3> QED BY <3>1, <2>2, <1>1, ReturnType, Zenon DEF BlockIP, Refuse
    <2> QED BY <2>1, <2>2, <1>1 DEF BlockIP, is_blockable_ip
  <1>2. ASSUME NEW c \in Clients, NEW ip \in IPs, UnblockIP(c, ip) PROVE TypeInv'
    <2>1. CASE Enter(c, ip, "delete")
      <3>1. /\ target' \in [Clients -> IPs] /\ target'[c] = ip
            /\ \A d \in Clients \ {c} : target'[d] = target[d]
            /\ pc' = [pc EXCEPT ![c] = "delete"] /\ answer' = [answer EXCEPT ![c] = "none"]
            /\ alone' \in [Clients -> BOOLEAN]
            /\ broken' \in [IPs -> SUBSET (Faults \cup {"overlap"})]
        BY <2>1, EnterType
      <3> QED BY <2>1, <3>1, <1>2, <1>a DEF UnblockIP
    <2>2. CASE Refuse(c, "not blocked")
      <3>1. \E a \in Answers : Return(c, a)
        BY <2>2, <1>a, Zenon DEF Refuse
      <3> QED BY <3>1, <2>2, <1>2, ReturnType, Zenon DEF UnblockIP, Refuse
    <2> QED BY <2>1, <2>2, <1>2 DEF UnblockIP
  <1>3. ASSUME NEW c \in Clients, AddInbound(c) \/ AddOutbound(c) PROVE TypeInv'
    <2>1. target[c] \in IPs /\ {"in"} \in SUBSET Directions /\ {"out"} \in SUBSET Directions
      BY DEF Directions
    <2>2. \/ firewall' = [firewall EXCEPT ![target[c]] = @ \cup {"in"}]
          \/ firewall' = [firewall EXCEPT ![target[c]] = @ \cup {"out"}]
      BY <1>3 DEF AddInbound, AddOutbound, AddRule
    <2>3. firewall' \in [IPs -> SUBSET Directions]
      BY <2>1, <2>2, <1>t, FirewallType
    <2> QED BY <2>3, <1>3 DEF AddInbound, AddOutbound, AddRule
  <1>4. ASSUME NEW c \in Clients, AddBlockedIP(c) PROVE TypeInv'
    <2>1. \E a \in Answers : Return(c, a)
      BY <1>4, <1>a, Zenon DEF AddBlockedIP
    <2>2. blocked' \subseteq Public
      BY <1>4 DEF AddBlockedIP
    <2> QED BY <2>1, <2>2, <1>4, ReturnType, Zenon DEF AddBlockedIP
  <1>5. ASSUME NEW c \in Clients, DeleteRules(c) PROVE TypeInv'
    BY <1>5 DEF DeleteRules
  <1>6. ASSUME NEW c \in Clients, NoRulesMatch(c) PROVE TypeInv'
    <2>1. \E a \in Answers : Return(c, a)
      BY <1>6, <1>a, Zenon DEF NoRulesMatch
    <2> QED BY <2>1, <1>6, ReturnType, Zenon DEF NoRulesMatch
  <1>7. ASSUME NEW c \in Clients, RemoveBlockedIP(c) PROVE TypeInv'
    <2>1. \E a \in Answers : Return(c, a)
      BY <1>7, <1>a, Zenon DEF RemoveBlockedIP
    <2>2. blocked' \subseteq Public
      BY <1>7 DEF RemoveBlockedIP
    <2> QED BY <2>1, <2>2, <1>7, ReturnType, Zenon DEF RemoveBlockedIP
  <1>8. ASSUME NEW c \in Clients, NEW dir \in Directions, AddFails(c, dir) PROVE TypeInv'
    <2>1. /\ faultCount' \in 0..MaxFaults
          /\ broken' \in [IPs -> SUBSET (Faults \cup {"overlap"})]
      BY <1>8, <1>t, FaultType DEF AddFails
    <2>2. firewall' \in [IPs -> SUBSET Directions]
      <3>1. target[c] \in IPs /\ {dir} \in SUBSET Directions
        OBVIOUS
      <3>2. firewall' = firewall \/ firewall' = [firewall EXCEPT ![target[c]] = @ \cup {dir}]
        BY <1>8 DEF AddFails
      <3> QED BY <3>1, <3>2, <1>t, FirewallType
    <2>3. \E a \in Answers : Return(c, a)
      BY <1>8, <1>a, Zenon DEF AddFails
    <2> QED BY <2>1, <2>2, <2>3, <1>8, ReturnType, Zenon DEF AddFails
  <1>9. ASSUME NEW c \in Clients, DeleteFails(c) PROVE TypeInv'
    <2>1. /\ faultCount' \in 0..MaxFaults
          /\ broken' \in [IPs -> SUBSET (Faults \cup {"overlap"})]
      BY <1>9, <1>t, FaultType DEF DeleteFails
    <2>2. firewall' \in [IPs -> SUBSET Directions]
      BY <1>9 DEF DeleteFails
    <2>3. /\ unblocked' = unblocked \cup {target[c]} /\ UNCHANGED blocked
          /\ \E a \in Answers : Return(c, a)
      BY <1>9, <1>a, Zenon DEF DeleteFails
    <2>4. unblocked' \subseteq IPs
      BY <2>3
    <2> QED BY <2>1, <2>2, <2>3, <2>4, ReturnType, Zenon
  <1>10. ASSUME NEW c \in Clients, StorageFails(c) \/ Crash(c) PROVE TypeInv'
    <2>1. /\ faultCount' \in 0..MaxFaults
          /\ broken' \in [IPs -> SUBSET (Faults \cup {"overlap"})]
      BY <1>10, <1>t, FaultType DEF StorageFails, Crash
    <2>2. \E a \in Answers : Return(c, a)
      BY <1>10, <1>a, Zenon DEF StorageFails, Crash
    <2> QED BY <2>1, <2>2, <1>10, ReturnType, Zenon DEF StorageFails, Crash
  <1>11. CASE UNCHANGED vars
    BY <1>11 DEF vars
  <1> QED BY <1>1, <1>2, <1>3, <1>4, <1>5, <1>6, <1>7, <1>8, <1>9, <1>10, <1>11, Places
          DEF Next

\* Every variable keeps its type; in particular only public addresses are listed.
THEOREM TypeCorrect == Spec => []TypeOK
  <1>1. TypeInv => TypeOK
    BY DEF TypeInv
  <1> QED BY <1>1, TypeInit, TypeNext, PTL DEF Spec
-----------------------------------------------------------------------------
(* A listed address is blocked in both directions *)

\* A rule is there by the time the call has run netsh for it, unless an
\* unblock_ip has run netsh too.
Added ==
    \A c \in Clients : target[c] \notin unblocked =>
        /\ pc[c] = "add out" => "in" \in firewall[target[c]]
        /\ pc[c] = "add row" => firewall[target[c]] = Directions

ListedInv == Added /\ ListedIsBlocked

\* Only a netsh run of unblock_ip takes rules away.
LEMMA RulesStay ==
  ASSUME TypeInv, [Next]_vars
  PROVE  /\ unblocked \subseteq unblocked'
         /\ \A ip \in IPs \ unblocked' : firewall[ip] \subseteq firewall'[ip]
         /\ firewall' \in [IPs -> SUBSET Directions]
  <1>t. TypeOK /\ TypeOK'
    BY TypeNext DEF TypeInv
  <1>f. firewall \in [IPs -> SUBSET Directions] /\ target \in [Clients -> IPs]
    BY <1>t DEF TypeOK
  <1>1. ASSUME NEW c \in Clients, AddInbound(c) \/ AddOutbound(c) \/ \E dir \in Directions : AddFails(c, dir)
        PROVE  unblocked' = unblocked /\ \A ip \in IPs : firewall[ip] \subseteq firewall'[ip]
    <2>1. unblocked' = unblocked
      BY <1>1 DEF AddInbound, AddOutbound, AddFails, history
    <2>2. \/ firewall' = firewall
          \/ \E dir \in Directions \cup {"in", "out"} :
                firewall' = [firewall EXCEPT ![target[c]] = @ \cup {dir}]
      BY <1>1 DEF AddInbound, AddOutbound, AddRule, AddFails
    <2> QED BY <2>1, <2>2, <1>f
  <1>2. ASSUME NEW c \in Clients, DeleteRules(c) \/ DeleteFails(c)
        PROVE  /\ unblocked' = unblocked \cup {target[c]}
               /\ \A ip \in IPs \ {target[c]} : firewall'[ip] = firewall[ip]
    <2>1. unblocked' = unblocked \cup {target[c]}
      BY <1>2 DEF DeleteRules, DeleteFails
    <2>2. firewall' = firewall \/ firewall' = [firewall EXCEPT ![target[c]] = {}]
      BY <1>2 DEF DeleteRules, DeleteFails
    <2> QED BY <2>1, <2>2, <1>f
  <1>4. ASSUME NEW c \in Clients, Call(c) \/ Proceed(c) \/ Failure(c)
        PROVE  \/ AddInbound(c) \/ AddOutbound(c) \/ \E dir \in Directions : AddFails(c, dir)
               \/ DeleteRules(c) \/ DeleteFails(c)
               \/ UNCHANGED <<firewall, unblocked>>
    BY <1>4, Places DEF BlockIP, UnblockIP, AddBlockedIP, NoRulesMatch, RemoveBlockedIP,
       StorageFails, Crash, history
  <1>5. \/ UNCHANGED <<firewall, unblocked>>
        \/ \E c \in Clients : \/ AddInbound(c) \/ AddOutbound(c)
                              \/ \E dir \in Directions : AddFails(c, dir)
        \/ \E c \in Clients : DeleteRules(c) \/ DeleteFails(c)
    BY <1>4 DEF Next, vars, history
  <1>6. firewall' \in [IPs -> SUBSET Directions]
    BY <1>t DEF TypeOK
  <1> QED BY <1>1, <1>2, <1>5, <1>6

\* A step of a client takes it into a call, out of it or on in it.
LEMMA StepOf ==
  ASSUME TypeInv, NEW c \in Clients, Call(c) \/ Proceed(c) \/ Failure(c)
  PROVE  \/ \E ip \in IPs : \E place \in {"add in", "delete"} :
               pc[c] = "idle" /\ Enter(c, ip, place) /\ UNCHANGED <<firewall, blocked>>
         \/ /\ \E a : Return(c, a)
            /\ \A ip \in IPs : broken[ip] \subseteq broken'[ip]
         \/ /\ AddInbound(c) \/ AddOutbound(c) \/ DeleteRules(c)
            /\ pc[c] # "idle" /\ UNCHANGED <<target, broken, alone>>
            /\ \E place \in {"add out", "add row", "remove row"} : Goto(c, place)
  <1>t. TypeOK
    BY DEF TypeInv
  <1> DEFINE Back == /\ \E a : Return(c, a)
                     /\ \A ip \in IPs : broken[ip] \subseteq broken'[ip]
  <1>1. ASSUME NEW ip \in IPs, BlockIP(c, ip)
        PROVE  (pc[c] = "idle" /\ Enter(c, ip, "add in") /\ UNCHANGED <<firewall, blocked>>) \/ Back
    BY <1>1 DEF BlockIP, Refuse
  <1>2. ASSUME NEW ip \in IPs, UnblockIP(c, ip)
        PROVE  (pc[c] = "idle" /\ Enter(c, ip, "delete") /\ UNCHANGED <<firewall, blocked>>) \/ Back
    BY <1>2 DEF UnblockIP, Refuse
  <1>3. ASSUME AddBlockedIP(c) \/ NoRulesMatch(c) \/ RemoveBlockedIP(c) PROVE Back
    <2>1. UNCHANGED broken
      BY <1>3 DEF AddBlockedIP, NoRulesMatch, RemoveBlockedIP
    <2>2. \E a : Return(c, a)
      BY <1>3, Zenon DEF AddBlockedIP, NoRulesMatch, RemoveBlockedIP
    <2> QED BY <2>1, <2>2
  <1>4. ASSUME NEW kind, Fault(c, kind), \E a : Return(c, a) PROVE Back
    BY <1>4, <1>t, FaultType
  <1>5. ASSUME NEW dir \in Directions, AddFails(c, dir) PROVE Back
    <2>1. \E kind : Fault(c, kind)
      BY <1>5 DEF AddFails
    <2>2. \E a : Return(c, a)
      BY <1>5, Zenon DEF AddFails
    <2> QED BY <1>4, <2>1, <2>2
  <1>6. ASSUME DeleteFails(c) \/ StorageFails(c) \/ Crash(c) PROVE Back
    <2>1. \E kind : Fault(c, kind)
      BY <1>6 DEF DeleteFails, StorageFails, Crash
    <2>2. \E a : Return(c, a)
      BY <1>6, Zenon DEF DeleteFails, StorageFails, Crash
    <2> QED BY <1>4, <2>1, <2>2
  <1>7. ASSUME AddInbound(c) \/ AddOutbound(c) \/ DeleteRules(c)
        PROVE  /\ pc[c] # "idle" /\ UNCHANGED <<target, broken, alone>>
               /\ \E place \in {"add out", "add row", "remove row"} : Goto(c, place)
    <2>1. CASE AddInbound(c)
      BY <2>1 DEF AddInbound, AddRule, history
    <2>2. CASE AddOutbound(c)
      BY <2>2 DEF AddOutbound, AddRule, history
    <2>3. CASE DeleteRules(c)
      BY <2>3 DEF DeleteRules
    <2> QED BY <1>7, <2>1, <2>2, <2>3
  <1> HIDE DEF Back
  <1>8. \/ \E ip \in IPs : \E place \in {"add in", "delete"} :
              pc[c] = "idle" /\ Enter(c, ip, place) /\ UNCHANGED <<firewall, blocked>>
        \/ Back
        \/ AddInbound(c) \/ AddOutbound(c) \/ DeleteRules(c)
    BY <1>1, <1>2, <1>3, <1>5, <1>6, Places, Zenon
  <1> QED BY <1>7, <1>8, Zenon DEF Back

\* A step of one client leaves the others where they are, whether alone or no more.
LEMMA OthersStay ==
  ASSUME TypeInv, NEW c \in Clients, NEW d \in Clients \ {c},
         Call(d) \/ Proceed(d) \/ Failure(d)
  PROVE  pc'[c] = pc[c] /\ target'[c] = target[c] /\ (alone'[c] => alone[c])
  <1>t. /\ target \in [Clients -> IPs] /\ alone \in [Clients -> BOOLEAN]
        /\ pc \in [Clients -> {"idle", "add in", "add out", "add row", "delete", "remove row"}]
    BY DEF TypeInv, TypeOK
  <1>1. ASSUME NEW ip \in IPs, NEW place, Enter(d, ip, place)
        PROVE  pc'[c] = pc[c] /\ target'[c] = target[c] /\ (alone'[c] => alone[c])
    <2>1. pc'[c] = pc[c] /\ target'[c] = target[c]
      BY <1>1, <1>t DEF Enter, Goto
    <2>2. alone'[c] => alone[c]
      BY <1>1 DEF Enter
    <2> QED BY <2>1, <2>2
  <1>2. ASSUME NEW a, Return(d, a)
        PROVE  pc'[c] = pc[c] /\ target'[c] = target[c] /\ (alone'[c] => alone[c])
    BY <1>2, <1>t DEF Return, Goto
  <1>3. ASSUME NEW place, Goto(d, place), UNCHANGED <<target, alone>>
        PROVE  pc'[c] = pc[c] /\ target'[c] = target[c] /\ (alone'[c] => alone[c])
    BY <1>3, <1>t DEF Goto
  <1> QED BY <1>1, <1>2, <1>3, StepOf, Zenon

\* A call comes to a place with the rules it has added.
LEMMA AddedNext ==
  ASSUME TypeInv, Added, [Next]_vars PROVE Added'
  <1> SUFFICES ASSUME NEW c \in Clients, target'[c] \notin unblocked'
               PROVE  /\ pc'[c] = "add out" => "in" \in firewall'[target'[c]]
                      /\ pc'[c] = "add row" => firewall'[target'[c]] = Directions
    BY DEF Added
  <1>t. /\ firewall \in [IPs -> SUBSET Directions] /\ target \in [Clients -> IPs]
        /\ pc \in [Clients -> {"idle", "add in", "add out", "add row", "delete", "remove row"}]
        /\ firewall' \in [IPs -> SUBSET Directions] /\ target' \in [Clients -> IPs]
    BY TypeNext DEF TypeInv, TypeOK
  \* Either c was there before, or it has just added the rule.
  <1>1. \/ pc'[c] = pc[c] /\ target'[c] = target[c]
        \/ AddInbound(c) /\ pc'[c] = "add out" /\ target'[c] = target[c]
        \/ AddOutbound(c) /\ pc'[c] = "add row" /\ target'[c] = target[c]
        \/ pc'[c] \notin {"add out", "add row"}
    <2>1. ASSUME NEW d \in Clients, d # c, Call(d) \/ Proceed(d) \/ Failure(d)
          PROVE  pc'[c] = pc[c] /\ target'[c] = target[c]
      BY <2>1, OthersStay
    <2>2. CASE AddInbound(c)
      BY <2>2, <1>t DEF AddInbound, AddRule, Goto
    <2>3. CASE AddOutbound(c)
      BY <2>3, <1>t DEF AddOutbound, AddRule, Goto
    <2>4. CASE \E ip \in IPs : BlockIP(c, ip) \/ UnblockIP(c, ip)
      BY <2>4, <1>t DEF BlockIP, UnblockIP, Enter, Refuse, Goto, Return
    <2>5. CASE DeleteRules(c)
      BY <2>5, <1>t DEF DeleteRules, Goto
    <2>6. CASE \/ AddBlockedIP(c) \/ NoRulesMatch(c) \/ RemoveBlockedIP(c)
               \/ \E dir \in Directions : AddFails(c, dir)
               \/ DeleteFails(c) \/ StorageFails(c) \/ Crash(c)
      <3>1. \E a \in {"none", "blocked", "netsh failed", "unblocked", "exception"} : Return(c, a)
        BY <2>6 DEF AddBlockedIP, NoRulesMatch, RemoveBlockedIP, AddFails, DeleteFails,
           StorageFails, Crash
      <3> QED BY <3>1, <1>t DEF Return, Goto
    <2>7. CASE UNCHANGED vars
      BY <2>7 DEF vars
    <2> QED BY <2>1, <2>2, <2>3, <2>4, <2>5, <2>6, <2>7, Places DEF Next
  <1>2. ASSUME target'[c] = target[c], pc'[c] = pc[c]
        PROVE  /\ pc'[c] = "add out" => "in" \in firewall'[target'[c]]
               /\ pc'[c] = "add row" => firewall'[target'[c]] = Directions
    <2>1. /\ target[c] \in IPs \ unblocked' /\ target[c] \notin unblocked
          /\ firewall[target[c]] \subseteq firewall'[target[c]]
      BY <1>2, <1>t, RulesStay
    <2>2. firewall'[target[c]] \subseteq Directions
      BY <2>1, <1>t
    <2>3. /\ pc[c] = "add out" => "in" \in firewall[target[c]]
          /\ pc[c] = "add row" => firewall[target[c]] = Directions
      BY <2>1 DEF Added
    <2>4. pc[c] = "add out" => "in" \in firewall'[target[c]]
      BY <2>1, <2>3
    <2>5. pc[c] = "add row" => firewall'[target[c]] = Directions
      BY <2>1, <2>2, <2>3
    <2> QED BY <2>4, <2>5, <1>2
  <1>3. CASE AddInbound(c) /\ pc'[c] = "add out" /\ target'[c] = target[c]
    BY <1>3, <1>t DEF AddInbound, AddRule
  <1>4. CASE AddOutbound(c) /\ pc'[c] = "add row" /\ target'[c] = target[c]
    <2>1. /\ firewall'[target[c]] = firewall[target[c]] \cup {"out"}
          /\ pc[c] = "add out" /\ unblocked' = unblocked
      BY <1>4, <1>t DEF AddOutbound, AddRule, history
    <2>2. "in" \in firewall[target[c]]
      BY <2>1, <1>4 DEF Added
    <2>3. firewall'[target[c]] \subseteq Directions
      BY <1>t
    <2> QED BY <2>1, <2>2, <2>3, <1>4 DEF Directions
  <1> QED BY <1>1, <1>2, <1>3, <1>4

\* However calls interleave and fail, a listed address that no unblock_ip has
\* touched is blocked in both directions.
THEOREM ListedAreBlocked == Spec => []ListedIsBlocked
  <1>1. Init => ListedInv
    BY DEF Init, ListedInv, Added, ListedIsBlocked
  <1>2. TypeInv /\ ListedInv /\ [Next]_vars => ListedInv'
    <2> SUFFICES ASSUME TypeInv, ListedInv, [Next]_vars PROVE ListedInv'
      OBVIOUS
    <2>1. Added'
      BY AddedNext DEF ListedInv
    <2>2. ASSUME NEW ip \in blocked', ip \notin unblocked' PROVE firewall'[ip] = Directions
      <3>1. blocked' \subseteq IPs /\ firewall'[ip] \subseteq Directions
        BY <2>2, TypeNext, RulesStay, PublicAssumption DEF TypeInv, TypeOK
      <3>2. CASE ip \in blocked
        <4>1. firewall[ip] = Directions
          BY <3>2, <2>2, RulesStay DEF ListedInv, ListedIsBlocked
        <4> QED BY <4>1, <3>1, <2>2, RulesStay
      <3>3. CASE ip \notin blocked
        <4>1. PICK c \in Clients : AddBlockedIP(c)
          BY <3>3, <2>2, Places DEF Next, vars, BlockIP, UnblockIP, AddInbound, AddOutbound,
             DeleteRules, NoRulesMatch, RemoveBlockedIP, AddFails, DeleteFails, StorageFails,
             Crash
        <4>2. /\ ip = target[c] /\ pc[c] = "add row"
              /\ UNCHANGED <<firewall, unblocked>>
          BY <4>1, <3>3, <2>2 DEF AddBlockedIP, history
        <4> QED BY <4>2, <2>2 DEF ListedInv, Added
      <3> QED BY <3>2, <3>3
    <2> QED BY <2>1, <2>2 DEF ListedInv, ListedIsBlocked
  <1>3. ListedInv => ListedIsBlocked
    BY DEF ListedInv
  <1> QED BY <1>1, <1>2, <1>3, TypeInit, TypeNext, PTL DEF Spec
-----------------------------------------------------------------------------
(* Calls for one address that do not overlap *)

\* Who is alone shares the address with no other call, and who is not has it noted.
AloneInv ==
    /\ \A c, d \in Clients : c # d /\ InCall(c) /\ InCall(d) /\ alone[c] => target[c] # target[d]
    /\ \A c \in Clients : InCall(c) /\ ~alone[c] => "overlap" \in broken[target[c]]

\* A call is alone no longer when another one for its address begins.
LEMMA EnterMeets ==
  ASSUME TypeInv, NEW d \in Clients, NEW ip \in IPs, NEW place, Enter(d, ip, place)
  PROVE  /\ target'[d] = ip /\ pc'[d] = place
         /\ alone'[d] => \A c \in Clients : InCall(c) => target[c] # ip
         /\ ~alone'[d] => "overlap" \in broken'[ip]
         /\ \A c \in Clients \ {d} :
               InCall(c) /\ target[c] = ip => ~alone'[c] /\ "overlap" \in broken'[ip]
         /\ \A c \in Clients \ {d} : ~(InCall(c) /\ target[c] = ip) => alone'[c] = alone[c]
  <1>t. /\ target \in [Clients -> IPs] /\ alone \in [Clients -> BOOLEAN]
        /\ pc \in [Clients -> {"idle", "add in", "add out", "add row", "delete", "remove row"}]
        /\ broken \in [IPs -> SUBSET (Faults \cup {"overlap"})]
    BY DEF TypeInv, TypeOK
  <1>1. target'[d] = ip /\ pc'[d] = place
    BY <1>t DEF Enter, Goto
  <1>2. \A c \in Clients : c \in InCallFor(ip) <=> (InCall(c) /\ target[c] = ip)
    BY DEF InCallFor, InCall
  <1>3. InCallFor(ip) # {} => "overlap" \in broken'[ip]
    BY <1>t DEF Enter
  <1>4. alone'[d] <=> InCallFor(ip) = {}
    BY Zenon DEF Enter
  <1>5. ASSUME NEW c \in Clients \ {d} PROVE alone'[c] <=> (alone[c] /\ c \notin InCallFor(ip))
    <2>1. c # d /\ c \in Clients
      OBVIOUS
    <2> QED BY <2>1, Zenon DEF Enter
  <1>6. \A c \in Clients : alone[c] \in BOOLEAN /\ alone'[c] \in BOOLEAN
    BY <1>t, EnterType DEF TypeInv
  <1>7. alone'[d] => \A c \in Clients : InCall(c) => target[c] # ip
    BY <1>2, <1>4
  <1>8. ~alone'[d] => "overlap" \in broken'[ip]
    BY <1>3, <1>4
  <1>9. ASSUME NEW c \in Clients \ {d}
        PROVE  /\ InCall(c) /\ target[c] = ip => ~alone'[c] /\ "overlap" \in broken'[ip]
               /\ ~(InCall(c) /\ target[c] = ip) => alone'[c] = alone[c]
    BY <1>2, <1>3, <1>5, <1>6
  <1> QED BY <1>1, <1>7, <1>8, <1>9

\* What was noted of an address stays noted.
LEMMA BrokenStays ==
  ASSUME TypeInv, [Next]_vars, NEW ip \in IPs
  PROVE  broken[ip] \subseteq broken'[ip]
  <1>1. ASSUME NEW d \in Clients, Call(d) \/ Proceed(d) \/ Failure(d) PROVE broken[ip] \subseteq broken'[ip]
    <2>1. ASSUME NEW i \in IPs, NEW place, Enter(d, i, place) PROVE broken[ip] \subseteq broken'[ip]
      BY <2>1, EnterType DEF TypeInv
    <2>2. CASE UNCHANGED broken
      BY <2>2
    <2> QED BY <1>1, <2>1, <2>2, StepOf
  <1>2. CASE UNCHANGED vars
    BY <1>2 DEF vars, history
  <1> QED BY <1>1, <1>2 DEF Next

LEMMA AloneNext ==
  ASSUME TypeInv, AloneInv, [Next]_vars PROVE AloneInv'
  <1>t. /\ target \in [Clients -> IPs] /\ alone \in [Clients -> BOOLEAN]
        /\ pc \in [Clients -> {"idle", "add in", "add out", "add row", "delete", "remove row"}]
        /\ alone' \in [Clients -> BOOLEAN]
    BY TypeNext DEF TypeInv, TypeOK
  <1>1. CASE UNCHANGED vars
    BY <1>1 DEF vars, history, AloneInv, InCall
  <1>2. ASSUME NEW d \in Clients, Call(d) \/ Proceed(d) \/ Failure(d) PROVE AloneInv'
    \* Of those inside a call the others were in theirs before.
    <2>1. \A c \in Clients \ {d} : pc'[c] = pc[c] /\ target'[c] = target[c]
      BY <1>2, OthersStay
    <2>2. ASSUME NEW ip \in IPs, NEW place \in {"add in", "delete"}, pc[d] = "idle", Enter(d, ip, place)
          PROVE  AloneInv'
      <3>1. /\ target'[d] = ip
            /\ alone'[d] => \A c \in Clients : InCall(c) => target[c] # ip
            /\ ~alone'[d] => "overlap" \in broken'[ip]
            /\ \A c \in Clients \ {d} :
                  InCall(c) /\ target[c] = ip => ~alone'[c] /\ "overlap" \in broken'[ip]
            /\ \A c \in Clients \ {d} : ~(InCall(c) /\ target[c] = ip) => alone'[c] = alone[c]
        BY <2>2, EnterMeets
      <3>2. ASSUME NEW c \in Clients, InCall(c)', ~alone'[c] PROVE "overlap" \in broken'[target'[c]]
        <4>1. CASE c = d
          BY <3>1, <3>2, <4>1
        <4>2. CASE c # d /\ target[c] = ip
          BY <2>1, <3>1, <3>2, <4>2 DEF InCall
        <4>3. CASE c # d /\ target[c] # ip
          <5>1. InCall(c) /\ ~alone[c] /\ target'[c] = target[c]
            BY <2>1, <3>1, <3>2, <4>3 DEF InCall
          <5>2. target[c] \in IPs
            BY <1>t
          <5> QED BY <1>2, <5>1, <5>2, BrokenStays DEF AloneInv
        <4> QED BY <4>1, <4>2, <4>3
      <3>3. ASSUME NEW c \in Clients, NEW e \in Clients, c # e, InCall(c)', InCall(e)', alone'[c]
            PROVE  target'[c] # target'[e]
        <4>1. CASE c = d
          BY <2>1, <3>1, <3>3, <4>1 DEF InCall
        <4>2. CASE e = d
          BY <2>1, <3>1, <3>3, <4>2 DEF InCall
        <4>3. CASE c # d /\ e # d
          <5>1. InCall(c) /\ InCall(e) /\ target'[c] = target[c] /\ target'[e] = target[e]
            BY <2>1, <3>3, <4>3 DEF InCall
          <5>2. alone[c]
            BY <3>1, <3>3, <4>3, <5>1
          <5> QED BY <3>3, <5>1, <5>2 DEF AloneInv
        <4> QED BY <4>1, <4>2, <4>3
      <3> QED BY <3>2, <3>3 DEF AloneInv
    \* Whoever else is alone, or inside a call, was so before.
    <2>3. ASSUME \A c \in Clients : InCall(c)' =>
                     InCall(c) /\ alone'[c] = alone[c] /\ target'[c] = target[c]
          PROVE  AloneInv'
      <3>1. \A c \in Clients : InCall(c)' /\ ~alone'[c] => "overlap" \in broken'[target'[c]]
        BY <1>2, <1>t, <2>3, BrokenStays DEF AloneInv
      <3> QED BY <2>3, <3>1 DEF AloneInv
    <2>4. ASSUME NEW a, Return(d, a) PROVE AloneInv'
      <3>1. pc'[d] = "idle" /\ \A c \in Clients \ {d} : pc'[c] = pc[c] /\ alone'[c] = alone[c]
        BY <2>4, <1>t DEF Return, Goto
      <3> QED BY <2>1, <2>3, <3>1 DEF InCall
    <2>5. ASSUME pc[d] # "idle", UNCHANGED <<target, alone>> PROVE AloneInv'
      BY <2>1, <2>3, <2>5 DEF InCall
    <2> QED BY <1>2, <2>2, <2>4, <2>5, StepOf, Zenon
  <1> QED BY <1>1, <1>2 DEF Next

\* What a call that is alone has done so far, whatever earlier ones have left behind.
DoneSoFar ==
    \A c \in Clients : alone[c] =>
        /\ pc[c] = "add out" => "in" \in firewall[target[c]]
        /\ pc[c] = "add row" => firewall[target[c]] = Directions
        /\ pc[c] = "remove row" => firewall[target[c]] = {}

\* A step of one client leaves the rules of the addresses of others that are alone.
LEMMA RulesOfOthers ==
  ASSUME TypeInv, AloneInv, NEW d \in Clients, Call(d) \/ Proceed(d) \/ Failure(d),
         NEW c \in Clients \ {d}, InCall(c), alone[c]
  PROVE  /\ firewall'[target[c]] = firewall[target[c]]
         /\ target[c] \in blocked' <=> target[c] \in blocked
  <1>t. firewall \in [IPs -> SUBSET Directions] /\ target \in [Clients -> IPs]
    BY DEF TypeInv, TypeOK
  <1>1. InCall(d) => target[c] # target[d]
    BY DEF AloneInv
  <1>2. CASE \E ip \in IPs : BlockIP(d, ip) \/ UnblockIP(d, ip)
    BY <1>2 DEF BlockIP, UnblockIP
  <1>3. CASE AddInbound(d) \/ AddOutbound(d) \/ DeleteRules(d) \/ \E dir \in Directions : AddFails(d, dir)
    <2>1. blocked' = blocked
      BY <1>3 DEF AddInbound, AddOutbound, DeleteRules, AddFails
    <2>2. InCall(d)
      BY <1>3 DEF AddInbound, AddOutbound, DeleteRules, AddFails, InCall
    <2>3. firewall' = firewall \/ \E dirs : firewall' = [firewall EXCEPT ![target[d]] = dirs]
      BY <1>3, Zenon DEF AddInbound, AddOutbound, AddRule, DeleteRules, AddFails
    <2> QED BY <1>t, <1>1, <2>1, <2>2, <2>3
  <1>4. CASE DeleteFails(d)
    <2>1. /\ blocked' = blocked /\ InCall(d)
          /\ firewall' = firewall \/ firewall' = [firewall EXCEPT ![target[d]] = {}]
      BY <1>4 DEF DeleteFails, InCall
    <2> QED BY <1>t, <1>1, <2>1
  <1>5. CASE AddBlockedIP(d) \/ RemoveBlockedIP(d)
    <2>1. /\ firewall' = firewall /\ InCall(d)
          /\ blocked' = blocked \cup {target[d]} \/ blocked' = blocked \ {target[d]}
      BY <1>5 DEF AddBlockedIP, RemoveBlockedIP, InCall
    <2> QED BY <1>1, <2>1
  <1>6. CASE NoRulesMatch(d) \/ StorageFails(d) \/ Crash(d)
    BY <1>6 DEF NoRulesMatch, StorageFails, Crash
  <1> QED BY <1>2, <1>3, <1>4, <1>5, <1>6, Places

\* Where a call that is alone has got to tells what it has done.
LEMMA DoneNext ==
  ASSUME TypeInv, AloneInv, DoneSoFar, [Next]_vars PROVE DoneSoFar'
  <1>t. /\ firewall \in [IPs -> SUBSET Directions] /\ target \in [Clients -> IPs]
        /\ pc \in [Clients -> {"idle", "add in", "add out", "add row", "delete", "remove row"}]
    BY DEF TypeInv, TypeOK
  <1>1. CASE UNCHANGED vars
    BY <1>1 DEF vars, history, DoneSoFar
  <1>2. ASSUME NEW d \in Clients, Call(d) \/ Proceed(d) \/ Failure(d), alone'[d]
        PROVE  /\ pc'[d] = "add out" => "in" \in firewall'[target'[d]]
               /\ pc'[d] = "add row" => firewall'[target'[d]] = Directions
               /\ pc'[d] = "remove row" => firewall'[target'[d]] = {}
    <2>1. CASE \E ip \in IPs : BlockIP(d, ip) \/ UnblockIP(d, ip)
      <3>1. pc'[d] \in {"idle", "add in", "delete"}
        BY <2>1, <1>t DEF BlockIP, UnblockIP, Enter, Refuse, Goto, Return
      <3> QED BY <3>1
    <2>2. CASE AddInbound(d)
      <3>1. /\ pc'[d] = "add out" /\ target' = target
            /\ firewall'[target[d]] = firewall[target[d]] \cup {"in"}
        BY <2>2, <1>t DEF AddInbound, AddRule, Goto
      <3> QED BY <3>1
    <2>3. CASE AddOutbound(d)
      <3>1. /\ pc[d] = "add out" /\ pc'[d] = "add row" /\ target' = target /\ alone[d]
            /\ firewall'[target[d]] = firewall[target[d]] \cup {"out"}
        BY <2>3, <1>2, <1>t DEF AddOutbound, AddRule, Goto, history
      <3>2. "in" \in firewall[target[d]] /\ firewall[target[d]] \subseteq Directions
        BY <3>1, <1>t DEF DoneSoFar
      <3>3. firewall'[target[d]] = Directions
        BY <3>1, <3>2 DEF Directions
      <3> QED BY <3>1, <3>3
    <2>4. CASE DeleteRules(d)
      <3>1. pc'[d] = "remove row" /\ target' = target /\ firewall'[target[d]] = {}
        BY <2>4, <1>t DEF DeleteRules, Goto
      <3> QED BY <3>1
    <2>5. CASE \E a : Return(d, a)
      <3>1. pc'[d] = "idle"
        BY <2>5, <1>t DEF Return, Goto
      <3> QED BY <3>1
    <2>6. \/ \E ip \in IPs : BlockIP(d, ip) \/ UnblockIP(d, ip)
          \/ AddInbound(d) \/ AddOutbound(d) \/ DeleteRules(d)
          \/ \E a : Return(d, a)
      BY <1>2, Places, Zenon DEF AddBlockedIP, NoRulesMatch, RemoveBlockedIP, AddFails,
         DeleteFails, StorageFails, Crash
    <2> QED BY <2>1, <2>2, <2>3, <2>4, <2>5, <2>6
  <1>3. ASSUME NEW d \in Clients, Call(d) \/ Proceed(d) \/ Failure(d),
               NEW c \in Clients, alone'[c]
        PROVE  /\ pc'[c] = "add out" => "in" \in firewall'[target'[c]]
               /\ pc'[c] = "add row" => firewall'[target'[c]] = Directions
               /\ pc'[c] = "remove row" => firewall'[target'[c]] = {}
    <2>1. CASE c = d
      BY <2>1, <1>2, <1>3
    <2>2. CASE c # d
      <3>1. pc'[c] = pc[c] /\ target'[c] = target[c] /\ alone[c]
        BY <2>2, <1>3, OthersStay
      <3>2. CASE InCall(c)
        <4>1. firewall'[target[c]] = firewall[target[c]]
          BY <2>2, <1>3, <3>1, <3>2, RulesOfOthers
        <4> QED BY <3>1, <4>1 DEF DoneSoFar
      <3>3. CASE ~InCall(c)
        BY <3>1, <3>3 DEF InCall
      <3> QED BY <3>2, <3>3
    <2> QED BY <2>1, <2>2
  <1> QED BY <1>1, <1>3 DEF Next, DoneSoFar

\* Whatever calls for other addresses do meanwhile, and whatever earlier calls for the
\* same one left behind, success of a call no other one for its address overlaps is real.
THEOREM SuccessesAreReal == Spec => SuccessIsReal
  <1> DEFINE Inv == TypeInv /\ AloneInv /\ DoneSoFar
  <1> DEFINE Real ==
        \A c \in Clients : pc[c] # "idle" /\ pc'[c] = "idle" /\ alone[c] =>
            /\ answer'[c] = "blocked" =>
                    firewall'[target[c]] = Directions /\ target[c] \in blocked'
            /\ answer'[c] = "unblocked" =>
                    firewall'[target[c]] = {} /\ target[c] \notin blocked'
  <1>1. Init => Inv
    BY TypeInit DEF Init, AloneInv, DoneSoFar, InCall
  <1>2. Inv /\ [Next]_vars => Inv'
    BY TypeNext, AloneNext, DoneNext
  <1>3. Inv /\ [Next]_vars => [Real]_vars
    <2> SUFFICES ASSUME Inv, Next,
                        NEW c \in Clients, pc[c] # "idle", pc'[c] = "idle", alone[c]
                 PROVE  /\ answer'[c] = "blocked" =>
                              firewall'[target[c]] = Directions /\ target[c] \in blocked'
                        /\ answer'[c] = "unblocked" =>
                              firewall'[target[c]] = {} /\ target[c] \notin blocked'
      OBVIOUS
    <2>t. /\ pc \in [Clients -> {"idle", "add in", "add out", "add row", "delete", "remove row"}]
          /\ answer \in [Clients -> Answers]
      BY DEF TypeInv, TypeOK
    <2>1. PICK d \in Clients : Call(d) \/ Proceed(d) \/ Failure(d)
      BY DEF Next
    <2>2. c = d
      BY <2>1, OthersStay
    <2>3. CASE AddBlockedIP(c)
      BY <2>3, <2>t DEF AddBlockedIP, Return, DoneSoFar
    <2>4. CASE RemoveBlockedIP(c)
      BY <2>4, <2>t DEF RemoveBlockedIP, Return, DoneSoFar
    <2>5. CASE AddInbound(c) \/ AddOutbound(c) \/ DeleteRules(c)
      BY <2>5, <2>t DEF AddInbound, AddOutbound, AddRule, DeleteRules, Goto
    <2>6. CASE \/ NoRulesMatch(c) \/ \E dir \in Directions : AddFails(c, dir)
               \/ DeleteFails(c) \/ StorageFails(c) \/ Crash(c)
      <3>1. \E a \in {"none", "netsh failed", "exception"} : Return(c, a)
        BY <2>6 DEF NoRulesMatch, AddFails, DeleteFails, StorageFails, Crash
      <3>2. answer'[c] \in {"none", "netsh failed", "exception"}
        BY <3>1, <2>t DEF Return
      <3> QED BY <3>2
    <2>7. ~\E ip \in IPs : BlockIP(c, ip) \/ UnblockIP(c, ip)
      BY DEF BlockIP, UnblockIP
    <2> QED BY <2>1, <2>2, <2>3, <2>4, <2>5, <2>6, <2>7, Places
  <1> QED BY <1>1, <1>2, <1>3, PTL DEF Spec, SuccessIsReal
-----------------------------------------------------------------------------
(* The table matches the firewall *)

Settled(ip) == firewall[ip] = IF ip \in blocked THEN Directions ELSE {}

\* Client c has changed one of the two stores for ip and not yet the other.
Midway(c, ip) == pc[c] \in {"add out", "add row", "remove row"} /\ target[c] = ip

\* As long as nothing went wrong in the calls for an address, the stores agree on it
\* unless a call is halfway through.
MatchInv ==
    \A ip \in IPs : broken[ip] = {} => Settled(ip) \/ \E c \in Clients : Midway(c, ip)

\* Until something goes wrong for an address the call for it is alone, if there is one.
LEMMA NothingBroken ==
  ASSUME TypeInv, AloneInv, [Next]_vars, NEW ip \in IPs, broken'[ip] = {}
  PROVE  /\ broken[ip] = {}
         /\ \A c \in Clients : InCall(c) /\ target[c] = ip => alone[c]
  <1>1. broken[ip] = {}
    BY BrokenStays
  <1> QED BY <1>1 DEF AloneInv

\* A call that meets no failure takes its address from settled to settled.
LEMMA MatchNext ==
  ASSUME TypeInv, AloneInv, DoneSoFar, MatchInv, [Next]_vars PROVE MatchInv'
  <1>t. /\ firewall \in [IPs -> SUBSET Directions] /\ target \in [Clients -> IPs]
        /\ pc \in [Clients -> {"idle", "add in", "add out", "add row", "delete", "remove row"}]
    BY DEF TypeInv, TypeOK
  <1>1. CASE UNCHANGED vars
    BY <1>1 DEF vars, history, MatchInv, Midway, Settled
  <1>2. ASSUME NEW d \in Clients, Call(d) \/ Proceed(d) \/ Failure(d),
               NEW ip \in IPs, broken'[ip] = {}
        PROVE  Settled(ip)' \/ \E c \in Clients : Midway(c, ip)'
    <2>0. [Next]_vars
      BY <1>2 DEF Next
    <2>1. /\ broken[ip] = {} /\ (Settled(ip) \/ \E c \in Clients : Midway(c, ip))
          /\ \A c \in Clients : InCall(c) /\ target[c] = ip => alone[c]
      BY <1>2, <2>0, NothingBroken DEF MatchInv
    \* A call that the step is not of stays halfway through.
    <2>2. ASSUME NEW c \in Clients \ {d}, Midway(c, ip) PROVE Midway(c, ip)'
      <3>1. pc'[c] = pc[c] /\ target'[c] = target[c]
        BY <1>2, OthersStay
      <3> QED BY <3>1, <2>2, Zenon DEF Midway
    <2>3. CASE \E c \in Clients \ {d} : Midway(c, ip)
      BY <2>2, <2>3
    <2>4. CASE Settled(ip) \/ Midway(d, ip)
      <3>1. CASE \E to \in IPs : BlockIP(d, to) \/ UnblockIP(d, to)
        <4>1. pc[d] = "idle" /\ firewall' = firewall /\ blocked' = blocked
          BY <3>1 DEF BlockIP, UnblockIP
        <4> QED BY <2>4, <4>1 DEF Midway, Settled
      <3>2. CASE AddInbound(d) \/ AddOutbound(d) \/ DeleteRules(d)
        <4>1. /\ pc'[d] \in {"add out", "add row", "remove row"} /\ target' = target
              /\ blocked' = blocked
              /\ \A other \in IPs \ {target[d]} : firewall'[other] = firewall[other]
          BY <3>2, <1>t DEF AddInbound, AddOutbound, DeleteRules, AddRule, Goto
        <4>2. CASE ip = target[d]
          BY <4>1, <4>2 DEF Midway
        <4>3. CASE ip # target[d]
          BY <2>4, <4>1, <4>3 DEF Settled, Midway
        <4> QED BY <4>2, <4>3
      <3>3. CASE AddBlockedIP(d) \/ RemoveBlockedIP(d)
        <4>1. /\ firewall' = firewall
              /\ \/ pc[d] = "add row" /\ blocked' = blocked \cup {target[d]}
                 \/ pc[d] = "remove row" /\ blocked' = blocked \ {target[d]}
          BY <3>3 DEF AddBlockedIP, RemoveBlockedIP
        <4>2. CASE target[d] = ip
          <5>1. alone[d]
            BY <2>1, <4>1, <4>2 DEF InCall
          <5>2. /\ pc[d] = "add row" => firewall[target[d]] = Directions
                /\ pc[d] = "remove row" => firewall[target[d]] = {}
            BY <5>1 DEF DoneSoFar
          <5> QED BY <4>1, <4>2, <5>2 DEF Settled
        <4>3. CASE target[d] # ip
          BY <2>4, <4>1, <4>3 DEF Settled, Midway
        <4> QED BY <4>2, <4>3
      <3>4. CASE NoRulesMatch(d)
        <4>1. pc[d] = "delete" /\ firewall' = firewall /\ blocked' = blocked
          BY <3>4 DEF NoRulesMatch
        <4> QED BY <2>4, <4>1 DEF Midway, Settled
      \* A failure breaks the address it is for, and no other one is touched.
      <3>5. CASE \/ \E dir \in Directions : AddFails(d, dir)
                 \/ DeleteFails(d) \/ StorageFails(d) \/ Crash(d)
        <4>1. \E kind : Fault(d, kind)
          BY <3>5 DEF AddFails, DeleteFails, StorageFails, Crash
        <4>2. target[d] # ip
          BY <1>2, <4>1, FaultType DEF TypeInv
        <4>3. Settled(ip)
          BY <2>4, <4>2 DEF Midway
        <4>4. blocked' = blocked
          BY <3>5 DEF AddFails, DeleteFails, StorageFails, Crash
        <4>5. firewall' = firewall \/ \E dirs : firewall' = [firewall EXCEPT ![target[d]] = dirs]
          BY <3>5, Zenon DEF AddFails, DeleteFails, StorageFails, Crash
        <4>6. firewall'[ip] = firewall[ip]
          BY <1>t, <4>2, <4>5
        <4> QED BY <4>3, <4>4, <4>6 DEF Settled
      <3> QED BY <1>2, <3>1, <3>2, <3>3, <3>4, <3>5, Places
    <2> QED BY <2>1, <2>3, <2>4
  <1> QED BY <1>1, <1>2 DEF Next, MatchInv

\* As long as the calls for an address came one at a time and none of them failed, it
\* has rules between them, in both directions, if and only if it is listed, whatever
\* goes wrong with other addresses.
THEOREM TableMatches == Spec => []TableMatchesFirewall
  <1> DEFINE Inv == TypeInv /\ AloneInv /\ DoneSoFar /\ MatchInv
  <1>1. Init => Inv
    BY TypeInit DEF Init, AloneInv, DoneSoFar, InCall, MatchInv, Settled
  <1>2. Inv /\ [Next]_vars => Inv'
    BY TypeNext, AloneNext, DoneNext, MatchNext
  <1>3. Inv => TableMatchesFirewall
    BY DEF MatchInv, Midway, Settled, TableMatchesFirewall, InCallFor
  <1> QED BY <1>1, <1>2, <1>3, PTL DEF Spec
=============================================================================
