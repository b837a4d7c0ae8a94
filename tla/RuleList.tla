------------------------------ MODULE RuleList ------------------------------
(***************************************************************************)
(* The rules of a security policy (apstra/two_stage_l3_clos_policy_rules   *)
(* .go): AddPolicyRule and DeletePolicyRuleById read the policy, change    *)
(* its list of rules and write the whole policy back, under the policy's   *)
(* lock of this Client.  Another client of the server (the web interface)  *)
(* does not know of the lock.                                              *)
(***************************************************************************)
EXTENDS Integers, Sequences, SequencesExt, FiniteSets

CONSTANTS
  Caller,       (* goroutines of this client that edit the policy           *)
  NoCaller,     (* none of them                                             *)
  Label,        (* labels of rules: they need not be unique                 *)
  Position,     (* positions asked for; a negative one means the end        *)
  MaxRules,     (* bound: rules ever made                                   *)
  MaxOutside,   (* bound: changes by other clients                          *)
  MaxDeletes    (* bound: deletions by this client                          *)

ASSUME NoCallerAssumption == NoCaller \notin Caller
ASSUME PositionAssumption == Position \subseteq Int
ASSUME MaxRulesAssumption == MaxRules \in Nat

VARIABLES
  rules,      (* the server's list: sequence of [id, label]                 *)
  nextRule,   (* the ID the server gives to the next new rule               *)
  policyLock, (* the caller that holds the policy's lock                    *)
  rulePc,     (* where each caller is                                       *)
  edit,       (* its call: [op, label, pos, id]                             *)
  policy,     (* the list it has read                                       *)
  ruleResult, (* what its last call returned                                *)
  mine,       (* history: the rule its PUT made, 0 before it has            *)
  expected,   (* history: IDs of the rules added and not deleted by anybody *)
  raced,      (* history: another client wrote between a read and its PUT   *)
  outside, deletes   (* how often others wrote, how often we deleted        *)

ruleVars == <<rules, nextRule, policyLock, rulePc, edit, policy, ruleResult, mine,
              expected, raced, outside, deletes>>

Ids(list) == {list[i].id : i \in DOMAIN list}

NoEdit == [op |-> "none", label |-> "none", pos |-> 0, id |-> 0]

Returned(what, id) == [what |-> what, id |-> id]

RuleInit ==
  /\ rules = <<>> /\ nextRule = 1
  /\ policyLock = NoCaller
  /\ rulePc = [c \in Caller |-> "idle"]
  /\ edit = [c \in Caller |-> NoEdit]
  /\ policy = [c \in Caller |-> <<>>]
  /\ ruleResult = [c \in Caller |-> Returned("none", 0)]
  /\ mine = [c \in Caller |-> 0]
  /\ expected = {} /\ raced = FALSE /\ outside = 0 /\ deletes = 0

\* The place is one too far: the first index of the tail is the position's successor.
InsertedLate(list, pos, r) ==
  LET at == IF pos < 0 \/ pos >= Len(list) THEN Len(list) ELSE pos + 1
  IN  SubSeq(list, 1, at) \o <<r>> \o SubSeq(list, at + 1, Len(list))

\* The switch of addPolicyRule, whose default appends the overlapping halves
\* Rules[:pos+1] and Rules[pos:] and then overwrites the element that is there twice.
AddedRules(list, pos, r) ==
  LET p == IF pos < 0 THEN Len(list) ELSE pos
  IN  IF p = 0 THEN <<r>> \o list
      ELSE IF p >= Len(list) THEN Append(list, r)
      ELSE [SubSeq(list, 1, p + 1) \o SubSeq(list, p + 1, Len(list)) EXCEPT ![p + 1] = r]

\* Another client adds a rule at the end, or deletes one.
Outside ==
  /\ outside < MaxOutside
  /\ outside' = outside + 1
  /\ raced' = (raced \/ \E c \in Caller : rulePc[c] = "write")
  /\ \/ /\ nextRule <= MaxRules
        /\ \E l \in Label : rules' = Append(rules, [id |-> nextRule, label |-> l])
        /\ nextRule' = nextRule + 1
        /\ expected' = expected \cup {nextRule}
     \/ \E i \in DOMAIN rules : /\ rules' = RemoveAt(rules, i)
                                /\ expected' = expected \ {rules[i].id}
                                /\ UNCHANGED nextRule
  /\ UNCHANGED <<policyLock, rulePc, edit, policy, ruleResult, mine, deletes>>

\* AddPolicyRule, DeletePolicyRuleById: the policy's lock is wanted
CallEdit(c) ==
  /\ rulePc[c] = "idle"
  /\ \/ /\ nextRule <= MaxRules
        /\ \E l \in Label, p \in Position :
             edit' = [edit EXCEPT ![c] = [op |-> "add", label |-> l, pos |-> p, id |-> 0]]
        /\ UNCHANGED deletes
     \/ /\ deletes < MaxDeletes
        /\ \E i \in 1..MaxRules :
             edit' = [edit EXCEPT ![c] = [op |-> "delete", label |-> "none", pos |-> 0, id |-> i]]
        /\ deletes' = deletes + 1
  /\ rulePc' = [rulePc EXCEPT ![c] = "lock"]
  /\ ruleResult' = [ruleResult EXCEPT ![c] = Returned("none", 0)]
  /\ mine' = [mine EXCEPT ![c] = 0]
  /\ UNCHANGED <<rules, nextRule, policyLock, policy, expected, raced, outside>>

\* The lock is not taken: callers of one client are let in together.
TakeNoLock(c) ==
  /\ rulePc[c] = "lock"
  /\ rulePc' = [rulePc EXCEPT ![c] = "read"]
  /\ UNCHANGED <<rules, nextRule, policyLock, edit, policy, ruleResult, mine, expected, raced, outside, deletes>>

\* o.client.lock(lockId)
TakePolicyLock(c) ==
  /\ rulePc[c] = "lock"
  /\ policyLock = NoCaller
  /\ policyLock' = c
  /\ rulePc' = [rulePc EXCEPT ![c] = "read"]
  /\ UNCHANGED <<rules, nextRule, edit, policy, ruleResult, mine, expected, raced, outside, deletes>>

\* The call returns, and the deferred unlock runs.
Finish(c, result) ==
  /\ ruleResult' = [ruleResult EXCEPT ![c] = result]
  /\ rulePc' = [rulePc EXCEPT ![c] = "idle"]
  /\ policyLock' = NoCaller
  /\ edit' = [edit EXCEPT ![c] = NoEdit]
  /\ policy' = [policy EXCEPT ![c] = <<>>]

\* getPolicy; a deletion ends with ErrNotfound when the rule is not there
ReadPolicy(c) ==
  /\ rulePc[c] = "read"
  /\ IF edit[c].op = "delete" /\ edit[c].id \notin Ids(rules)
       THEN /\ Finish(c, Returned("ErrNotfound", 0))
       ELSE /\ policy' = [policy EXCEPT ![c] = rules]
            /\ rulePc' = [rulePc EXCEPT ![c] = "write"]
            /\ UNCHANGED <<ruleResult, policyLock, edit>>
  /\ UNCHANGED <<rules, nextRule, mine, expected, raced, outside, deletes>>

\* A request fails: getPolicy, updatePolicy or the lookups, each with its error returned.
EditFails(c) ==
  /\ rulePc[c] \in {"read", "write", "find"}
  /\ Finish(c, Returned("error", 0))
  /\ UNCHANGED <<rules, nextRule, mine, expected, raced, outside, deletes>>

\* updatePolicy of an addition: the server replaces the list and names the new rule
WriteAdd(c) ==
  /\ rulePc[c] = "write"
  /\ edit[c].op = "add"
  /\ nextRule <= MaxRules
  /\ rules' = AddedRules(policy[c], edit[c].pos, [id |-> nextRule, label |-> edit[c].label])
  /\ nextRule' = nextRule + 1
  /\ mine' = [mine EXCEPT ![c] = nextRule]
  /\ expected' = expected \cup {nextRule}
  /\ \/ /\ rulePc' = [rulePc EXCEPT ![c] = "find"]
        /\ UNCHANGED <<ruleResult, policyLock, edit, policy>>
     \/ Finish(c, Returned("error", 0))               \* its reply is lost
  /\ UNCHANGED <<raced, outside, deletes>>

\* updatePolicy of a deletion: the first rule with the ID is left out
WriteDelete(c) ==
  /\ rulePc[c] = "write"
  /\ edit[c].op = "delete"
  /\ rules' = RemoveAt(policy[c], SelectInSeq(policy[c], LAMBDA r : r.id = edit[c].id))
  /\ expected' = expected \ {edit[c].id}
  /\ \/ Finish(c, Returned("done", 0))
     \/ Finish(c, Returned("error", 0))               \* its reply is lost
  /\ UNCHANGED <<nextRule, mine, raced, outside, deletes>>

\* getPolicyRuleIdByLabel: one of its reads, at most dcClientMaxRetries + 1 of them, shows a
\* rule with the label, and the first of those is taken; or none of them does
FindRule(c) ==
  /\ rulePc[c] = "find"
  /\ LET found == SelectInSeq(rules, LAMBDA r : r.label = edit[c].label)
     IN  Finish(c, IF found = 0 THEN Returned("error", 0) ELSE Returned("id", rules[found].id))
  /\ UNCHANGED <<rules, nextRule, mine, expected, raced, outside, deletes>>

RuleNext ==
  \/ Outside
  \/ \E c \in Caller :
       \/ CallEdit(c) \/ TakePolicyLock(c) \/ ReadPolicy(c) \/ EditFails(c)
       \/ WriteAdd(c) \/ WriteDelete(c) \/ FindRule(c)

RuleSpec == RuleInit /\ [][RuleNext]_ruleVars
-----------------------------------------------------------------------------
(* Properties.                                                             *)

RuleTypeOK ==
  /\ rules \in Seq([id : 1..MaxRules, label : Label])
  /\ policyLock \in Caller \cup {NoCaller}
  /\ rulePc \in [Caller -> {"idle", "lock", "read", "write", "find"}]
  /\ \A c \in Caller : policy[c] \in Seq([id : 1..MaxRules, label : Label])
  /\ expected \subseteq 1..MaxRules

\* The rules in the policy are exactly those that were added and not deleted, each once,
\* whatever calls of this client overlap and whichever of their requests or replies fail;
\* only a change that another client makes between a read and its PUT can break that.
NoRuleLost ==
  ~raced => /\ Ids(rules) = expected
            /\ \A i, j \in DOMAIN rules : rules[i].id = rules[j].id => i = j

\* What the comment of AddPolicyRule says: the list with r at position pos: negative
\* positions and positions past the end mean the end.
Inserted(list, pos, r) ==
  LET at == IF pos < 0 \/ pos > Len(list) THEN Len(list) ELSE pos
  IN  SubSeq(list, 1, at) \o <<r>> \o SubSeq(list, at + 1, Len(list))

\* A rule goes where the caller asked relative to the rules the server has at that moment,
\* and all others keep their order.
RulePlaced ==
  [][\A c \in Caller :
       mine[c] = 0 /\ mine'[c] # 0 /\ ~raced =>
         rules' = Inserted(rules, edit[c].pos, [id |-> mine'[c], label |-> edit[c].label])]_ruleVars
=============================================================================
