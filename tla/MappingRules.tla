----------------------------- MODULE MappingRules -----------------------------
(***************************************************************************)
(* Mappings and the OCI Events rules that feed their streams: the requests *)
(* of ui/myapp/modules/mapping_routes.py with the services they call,      *)
(* mapping_service.py and event_rule_service.py.                           *)
(*                                                                         *)
(* The table of mappings and the rules in OCI have no transaction in       *)
(* common.  A worker of the web server executes one request at a time;     *)
(* every statement and every OCI call is an action.  A request on several  *)
(* selected mappings or rules is as many requests, one after the other, as *)
(* each of its items has an exception handler of its own.                  *)
(*                                                                         *)
(* Requests whose form does not pass the checks on its text change nothing *)
(* and are left out, as are disabling a rule (nothing reads the flag) and  *)
(* the target columns of a mapping, which PartitionLoader has.             *)
(***************************************************************************)
EXTENDS Integers

CONSTANTS
  Workers,      \* concurrent requests
  Scopes,       \* compartment name, bucket and pattern of a mapping
  ConditionOf,  \* the condition rule_condition builds of a scope
  Conditions,
  Streams,
  Nothing,      \* stands for no scope, condition or stream
  MaxMappings,  \* bound: mappings ever added
  MaxRules,     \* bound: rules ever created
  MaxRequests,  \* bound: requests ever made
  MaxFaults     \* bound: requests that end in the middle

ASSUME ConstantsAssumption ==
  /\ ConditionOf \in [Scopes -> Conditions]
  /\ Nothing \notin Scopes \cup Conditions \cup Streams
  /\ MaxMappings \in Nat
  /\ MaxRules \in Nat
  /\ MaxRequests \in Nat
  /\ MaxFaults \in Nat

Mapping == 1..MaxMappings
Rule == 1..MaxRules

VARIABLES
  mappings,     \* object_storage_mappings by id
  nextMapping,  \* its AUTO_INCREMENT
  rules,        \* the rules in OCI by identifier
  nextRule,     \* the next identifier OCI gives
  pc,           \* where each worker is in its request
  request,      \* what it works on, and the rule it knows of
  disturbed,    \* history: mappings on which requests overlapped or broke off
  requests,     \* requests left
  faults        \* broken requests left

store == <<mappings, nextMapping>>
oci == <<rules, nextRule>>
limits == <<requests, faults>>
vars == <<store, oci, pc, request, disturbed, limits>>

Kinds == {"none", "add", "edit", "delete", "delete rule"}
Steps == {"idle", "validate", "save", "check", "update", "create", "link",
          "find", "remove", "unlink"}

MappingRow(scope, stream, rule) == [scope |-> scope, stream |-> stream, rule |-> rule]
NoMapping == MappingRow(Nothing, Nothing, 0)
MappingRows == [scope : Scopes \cup {Nothing}, stream : Streams \cup {Nothing}, rule : 0..MaxRules]

\* tag is the freeform tag mapping-id; a deleted rule has no condition.
EventRule(tag, condition, stream) == [tag |-> tag, condition |-> condition, stream |-> stream]
NoRule == EventRule(0, Nothing, Nothing)
EventRules == [tag : 0..MaxMappings, condition : Conditions \cup {Nothing},
               stream : Streams \cup {Nothing}]

\* mapping is the id the request is about, 0 while a new one has none.
Request(kind, mapping, rule, scope, stream, wanted) ==
  [kind |-> kind, mapping |-> mapping, rule |-> rule, scope |-> scope,
   stream |-> stream, wanted |-> wanted]
NoRequest == Request("none", 0, 0, Nothing, Nothing, FALSE)
Requests == [kind : Kinds, mapping : 0..MaxMappings, rule : 0..MaxRules,
             scope : Scopes \cup {Nothing}, stream : Streams \cup {Nothing}, wanted : BOOLEAN]

Init ==
  /\ mappings = [m \in Mapping |-> NoMapping]
  /\ nextMapping = 1
  /\ rules = [r \in Rule |-> NoRule]
  /\ nextRule = 1
  /\ pc = [w \in Workers |-> "idle"]
  /\ request = [w \in Workers |-> NoRequest]
  /\ disturbed = {}
  /\ requests = MaxRequests
  /\ faults = MaxFaults

-----------------------------------------------------------------------------
Exists(m) == m \in Mapping /\ mappings[m] # NoMapping
Alive(r) == r \in Rule /\ rules[r].condition # Nothing
Busy(w, m) == pc[w] # "idle" /\ request[w].mapping = m

Go(w, from, upTo) == pc[w] = from /\ pc' = [pc EXCEPT ![w] = upTo]

\* The request is answered.
Ends(w, from) ==
  /\ Go(w, from, "idle")
  /\ request' = [request EXCEPT ![w] = NoRequest]

Learns(w, m, r) ==
  request' = [request EXCEPT ![w] = Request(@.kind, m, r, @.scope, @.stream, @.wanted)]

\* A request on m begins; it may meet another one on m.
Starts(w, step, m, req) ==
  /\ Go(w, "idle", step)
  /\ requests > 0
  /\ requests' = requests - 1
  /\ request' = [request EXCEPT ![w] = req]
  /\ disturbed' = disturbed \cup {k \in {m} \cap Mapping : \E v \in Workers : Busy(v, k)}
  /\ UNCHANGED <<store, oci, faults>>

\* The first steps of the requests: the form is read, and the mapping.
BeginAdd(w) ==
  \E s \in Scopes, t \in Streams, wanted \in BOOLEAN :
    Starts(w, IF wanted THEN "validate" ELSE "save", 0, Request("add", 0, 0, s, t, wanted))

BeginEdit(w, m) ==
  /\ Exists(m)
  /\ \E s \in Scopes, t \in Streams, wanted \in BOOLEAN :
       Starts(w, IF wanted THEN "validate" ELSE "save", m,
              Request("edit", m, mappings[m].rule, s, t, wanted))

BeginDelete(w, m) ==
  /\ Exists(m)
  /\ Starts(w, IF mappings[m].rule # 0 THEN "find" ELSE "unlink", m,
            Request("delete", m, mappings[m].rule, Nothing, Nothing, FALSE))

\* From a page that may be out of date.
BeginDeleteRule(w, r) ==
  /\ r < nextRule
  /\ Starts(w, "find", rules[r].tag, Request("delete rule", rules[r].tag, r, Nothing, Nothing, FALSE))

\* exact_pattern_conflict of _validate_rule_request.
Conflict(w) ==
  \E m \in Mapping : m # request[w].mapping /\ mappings[m].scope = request[w].scope

Validate(w) ==
  /\ \/ Conflict(w) /\ Ends(w, "validate")
     \/ ~Conflict(w) /\ Go(w, "validate", "save") /\ UNCHANGED request
  /\ UNCHANGED <<store, oci, disturbed, limits>>

-----------------------------------------------------------------------------
(* Saving the mapping.                                                     *)

\* Mutated AfterSave: a rule that is not wanted any more is forgotten.
AfterSaveForget(w) ==
  CASE request[w].wanted /\ request[w].rule = 0 -> "create"
    [] request[w].wanted /\ request[w].rule # 0 -> "check"
    [] OTHER -> "idle"

\* Where _reconcile_rule starts, "idle" if it has nothing to do.
AfterSave(w) ==
  CASE request[w].wanted /\ request[w].rule = 0 -> "create"
    [] request[w].wanted /\ request[w].rule # 0 -> "check"
    [] ~request[w].wanted /\ request[w].rule # 0 -> "find"
    [] OTHER -> "idle"

\* Mutated Saves: the id of a new mapping is not passed on.
SavesOnly(w, m) ==
  IF AfterSave(w) = "idle" THEN Ends(w, "save")
  ELSE Go(w, "save", AfterSave(w)) /\ UNCHANGED request

Saves(w, m) ==
  IF AfterSave(w) = "idle" THEN Ends(w, "save")
  ELSE Go(w, "save", AfterSave(w)) /\ Learns(w, m, request[w].rule)

\* add_mapping
Insert(w) ==
  /\ request[w].kind = "add"
  /\ nextMapping \in Mapping
  /\ Saves(w, nextMapping)
  /\ mappings' = [mappings EXCEPT ![nextMapping] =
                    MappingRow(request[w].scope, request[w].stream, 0)]
  /\ nextMapping' = nextMapping + 1
  /\ UNCHANGED <<oci, disturbed, limits>>

\* update_mapping; a mapping that was deleted meanwhile ends the request.
Update(w) ==
  LET m == request[w].mapping
  IN /\ request[w].kind = "edit"
     /\ \/ /\ Exists(m)
           /\ Saves(w, m)
           /\ mappings' = [mappings EXCEPT ![m] =
                             MappingRow(request[w].scope, request[w].stream, @.rule)]
        \/ /\ ~Exists(m)
           /\ Ends(w, "save")
           /\ UNCHANGED mappings
     /\ UNCHANGED <<nextMapping, oci, disturbed, limits>>

-----------------------------------------------------------------------------
(* ensure_mapping_rule and set_event_rule.                                 *)

\* get_rule: a rule that is not found is created again, one that feeds another
\* stream than the mapping now names is not overwritten.  OCI may still answer
\* with a deleted rule, whose state is not looked at.
CheckRule(w) ==
  LET r == request[w].rule
  IN /\ \/ ~Alive(r) /\ Go(w, "check", "create") /\ UNCHANGED request
        \/ (Alive(r) => rules[r].stream # request[w].stream) /\ Ends(w, "check")
        \/ (Alive(r) => rules[r].stream = request[w].stream)
           /\ Go(w, "check", "update") /\ UNCHANGED request
     /\ UNCHANGED <<store, oci, disturbed, limits>>

Wanted(w, m) == EventRule(m, ConditionOf[request[w].scope], request[w].stream)

\* update_rule, an error if the rule is deleted.
UpdateRule(w) ==
  LET r == request[w].rule
  IN /\ \/ /\ Alive(r)
           /\ Go(w, "update", "link")
           /\ rules' = [rules EXCEPT ![r] = Wanted(w, request[w].mapping)]
           /\ UNCHANGED request
        \/ /\ ~Alive(r)
           /\ Ends(w, "update")
           /\ UNCHANGED rules
     /\ UNCHANGED <<store, nextRule, disturbed, limits>>

\* Mutated CreateRule: tagged with the mapping added last.
CreateRuleForLast(w) ==
  /\ Go(w, "create", "link")
  /\ nextRule \in Rule
  /\ rules' = [rules EXCEPT ![nextRule] = Wanted(w, nextMapping - 1)]
  /\ nextRule' = nextRule + 1
  /\ Learns(w, request[w].mapping, nextRule)
  /\ UNCHANGED <<store, disturbed, limits>>

\* create_rule, whether or not another rule of the mapping exists.
CreateRule(w) ==
  /\ Go(w, "create", "link")
  /\ nextRule \in Rule
  /\ rules' = [rules EXCEPT ![nextRule] = Wanted(w, request[w].mapping)]
  /\ nextRule' = nextRule + 1
  /\ Learns(w, request[w].mapping, nextRule)
  /\ UNCHANGED <<store, disturbed, limits>>

\* The rule column of m, of no row if m is gone.
WithRule(m, r) ==
  IF Exists(m) THEN [mappings EXCEPT ![m] = MappingRow(@.scope, @.stream, r)] ELSE mappings

\* set_event_rule
Link(w) ==
  /\ Ends(w, "link")
  /\ mappings' = WithRule(request[w].mapping, request[w].rule)
  /\ UNCHANGED <<nextMapping, oci, disturbed, limits>>

-----------------------------------------------------------------------------
(* delete_stream_rule, and what the request does next.                     *)

\* get_rule: a rule that is not found counts as deleted; OCI may still answer
\* with a deleted one.
FindRule(w) ==
  /\ \/ Go(w, "find", "remove")
     \/ ~Alive(request[w].rule) /\ Go(w, "find", "unlink")
  /\ UNCHANGED <<store, oci, request, disturbed, limits>>

\* delete_rule, an error if the rule is deleted already.
RemoveRule(w) ==
  LET r == request[w].rule
  IN /\ \/ /\ Alive(r)
           /\ Go(w, "remove", "unlink")
           /\ rules' = [rules EXCEPT ![r] = EventRule(@.tag, Nothing, Nothing)]
           /\ UNCHANGED request
        \/ /\ ~Alive(r)
           /\ Ends(w, "remove")
           /\ UNCHANGED rules
     /\ UNCHANGED <<store, nextRule, disturbed, limits>>

\* Mutated WithoutRule: the references to a deleted rule are kept.
KeepReferences(r) == mappings

\* clear_event_rule_reference
WithoutRule(r) ==
  [m \in Mapping |->
     IF mappings[m].rule = r THEN MappingRow(mappings[m].scope, mappings[m].stream, 0)
     ELSE mappings[m]]

Unlink(w) ==
  LET m == request[w].mapping
  IN /\ Ends(w, "unlink")
     /\ mappings' = CASE request[w].kind = "edit" -> WithRule(m, 0)
                      [] request[w].kind = "delete" -> [mappings EXCEPT ![m] = NoMapping]
                      [] request[w].kind = "delete rule" -> WithoutRule(request[w].rule)
     /\ UNCHANGED <<nextMapping, oci, disturbed, limits>>

-----------------------------------------------------------------------------
\* A statement or an OCI call raises, or the web server stops: the request
\* ends where it is.
BreaksOff(w) ==
  /\ faults > 0
  /\ faults' = faults - 1
  /\ pc[w] # "idle"
  /\ pc' = [pc EXCEPT ![w] = "idle"]
  /\ request' = [request EXCEPT ![w] = NoRequest]
  /\ disturbed' = disturbed \cup ({request[w].mapping} \cap Mapping)
  /\ UNCHANGED <<store, oci, requests>>

Begin(w) ==
  \/ BeginAdd(w)
  \/ \E m \in Mapping : BeginEdit(w, m) \/ BeginDelete(w, m)
  \/ \E r \in Rule : BeginDeleteRule(w, r)

Next ==
  \E w \in Workers :
    \/ Begin(w) \/ Validate(w) \/ Insert(w) \/ Update(w)
    \/ CheckRule(w) \/ UpdateRule(w) \/ CreateRule(w) \/ Link(w)
    \/ FindRule(w) \/ RemoveRule(w) \/ Unlink(w)
    \/ BreaksOff(w)

Spec == Init /\ [][Next]_vars

-----------------------------------------------------------------------------
(* Properties.                                                             *)

\* Every variable has its type; ids are given in order, and every rule was
\* created for a mapping that had an id by then.
TypeOK ==
  /\ mappings \in [Mapping -> MappingRows]
  /\ nextMapping \in 1..(MaxMappings + 1)
  /\ \A m \in Mapping : m >= nextMapping => mappings[m] = NoMapping
  /\ rules \in [Rule -> EventRules]
  /\ nextRule \in 1..(MaxRules + 1)
  /\ \A r \in Rule : IF r < nextRule THEN rules[r].tag \in 1..(nextMapping - 1) ELSE rules[r] = NoRule
  /\ pc \in [Workers -> Steps]
  /\ request \in [Workers -> Requests]
  /\ disturbed \subseteq Mapping
  /\ requests \in 0..MaxRequests
  /\ faults \in 0..MaxFaults

\* However requests overlap and break off, the rule a mapping refers to was
\* created for that mapping: two mappings never share a rule, and editing or
\* deleting one never changes the rule of another.
RuleTagged ==
  \A m \in Mapping : mappings[m].rule # 0 => rules[mappings[m].rule].tag = m

Settled(m) == m \notin disturbed /\ \A w \in Workers : ~Busy(w, m)

RulesFor(m) == {r \in Rule : Alive(r) /\ rules[r].tag = m}

\* ensure_mapping_rule speaks of "the one managed OCI rule owned by a
\* mapping".  As long as the requests on a mapping neither overlap nor break
\* off, whatever happens to other mappings, OCI has exactly the rule that the
\* mapping refers to: no second rule, none that outlives its mapping, no
\* reference to a rule that is gone.
OneManagedRule ==
  \A m \in Mapping : Settled(m) =>
    RulesFor(m) = IF mappings[m].rule # 0 THEN {mappings[m].rule} ELSE {}

\* ... and that rule selects the objects of the mapping as it was saved last,
\* unless the mapping was given another stream, where ensure_mapping_rule
\* refuses to overwrite the rule.
RuleFollowsMapping ==
  \A m \in Mapping : Settled(m) =>
    \A r \in RulesFor(m) :
      rules[r].stream = mappings[m].stream => rules[r].condition = ConditionOf[mappings[m].scope]
=============================================================================
