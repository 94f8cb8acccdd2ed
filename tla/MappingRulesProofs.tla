-------------------------- MODULE MappingRulesProofs --------------------------
(***************************************************************************)
(* Theorems about MappingRules for any number of workers, scopes and       *)
(* streams, and any bounds.                                                *)
(***************************************************************************)
EXTENDS MappingRules, TLAPS

\* What a request knows by the step it has come to; above all, the rule it
\* knows of was created for the mapping it works on.
RequestOK(w) ==
  /\ pc[w] \in {"validate", "save"} =>
       /\ request[w].kind \in {"add", "edit"}
       /\ request[w].kind = "add" => request[w].rule = 0 /\ request[w].mapping = 0
       /\ request[w].kind = "edit" => request[w].mapping \in 1..(nextMapping - 1)
  /\ pc[w] \in {"validate", "save", "check", "update", "create", "link"} =>
       request[w].scope \in Scopes /\ request[w].stream \in Streams
  /\ pc[w] \in {"check", "update", "create", "link", "find", "remove", "unlink"} =>
       request[w].mapping \in 1..(nextMapping - 1)
  /\ pc[w] \in {"find", "remove", "unlink"} =>
       /\ request[w].kind \in {"edit", "delete", "delete rule"}
       /\ request[w].kind = "delete rule" => request[w].rule # 0
  /\ pc[w] \in {"check", "update", "link", "find", "remove"} => request[w].rule # 0
  /\ request[w].rule # 0 =>
       request[w].rule < nextRule /\ rules[request[w].rule].tag = request[w].mapping

RequestsOK == \A w \in Workers : RequestOK(w)

\* The rules that mappings refer to exist or existed.
LinksOK == \A m \in Mapping : mappings[m].rule # 0 => mappings[m].rule < nextRule

IInv == TypeOK /\ RequestsOK /\ LinksOK /\ RuleTagged

-----------------------------------------------------------------------------
LEMMA RecordTypes ==
  /\ \A s \in Scopes \cup {Nothing}, t \in Streams \cup {Nothing}, r \in 0..MaxRules :
       MappingRow(s, t, r) \in MappingRows
  /\ \A m \in 0..MaxMappings, c \in Conditions \cup {Nothing}, t \in Streams \cup {Nothing} :
       EventRule(m, c, t) \in EventRules
  /\ \A k \in Kinds, m \in 0..MaxMappings, r \in 0..MaxRules, s \in Scopes \cup {Nothing},
        t \in Streams \cup {Nothing}, b \in BOOLEAN :
       Request(k, m, r, s, t, b) \in Requests
BY DEF MappingRow, MappingRows, EventRule, EventRules, Request, Requests

LEMMA RecordFields ==
  /\ \A x \in MappingRows :
       x.scope \in Scopes \cup {Nothing} /\ x.stream \in Streams \cup {Nothing} /\ x.rule \in 0..MaxRules
  /\ \A x \in EventRules :
       x.tag \in 0..MaxMappings /\ x.condition \in Conditions \cup {Nothing} /\ x.stream \in Streams \cup {Nothing}
  /\ \A x \in Requests :
       /\ x.kind \in Kinds /\ x.mapping \in 0..MaxMappings /\ x.rule \in 0..MaxRules
       /\ x.scope \in Scopes \cup {Nothing} /\ x.stream \in Streams \cup {Nothing}
       /\ x.wanted \in BOOLEAN
BY DEF MappingRows, EventRules, Requests

LEMMA EmptyRecords ==
  /\ NoMapping \in MappingRows /\ NoMapping.rule = 0
  /\ NoRule \in EventRules
  /\ NoRequest \in Requests /\ NoRequest.rule = 0
<1>1. 0 \in 0..MaxRules /\ 0 \in 0..MaxMappings
  BY ConstantsAssumption
<1>. QED BY <1>1, RecordTypes DEF NoMapping, NoRule, NoRequest, MappingRow, EventRule, Request, Kinds

LEMMA InitIInv == Init => IInv
<1> SUFFICES ASSUME Init PROVE IInv
  OBVIOUS
<1>1. TypeOK
  BY EmptyRecords, ConstantsAssumption DEF Init, TypeOK, Mapping, Rule, Steps
<1>2. RequestsOK
  BY EmptyRecords DEF Init, RequestsOK, RequestOK
<1>3. LinksOK /\ RuleTagged
  BY EmptyRecords DEF Init, LinksOK, RuleTagged
<1>. QED BY <1>1, <1>2, <1>3 DEF IInv

-----------------------------------------------------------------------------
(* A step of one worker.                                                   *)

\* Ids only grow, and a rule keeps its tag.
Grows ==
  /\ nextMapping <= nextMapping' /\ nextRule <= nextRule'
  /\ \A r \in 1..(nextRule - 1) : rules'[r].tag = rules[r].tag

\* Such a step leaves what other requests know true.
LEMMA OtherRequests ==
  ASSUME IInv, TypeOK', NEW w \in Workers, Grows, RequestOK(w)',
         \A v \in Workers \ {w} : pc'[v] = pc[v] /\ request'[v] = request[v]
  PROVE  RequestsOK'
<1> SUFFICES ASSUME NEW v \in Workers, v # w PROVE RequestOK(v)'
  BY DEF RequestsOK
<1>1. RequestOK(v) /\ pc'[v] = pc[v] /\ request'[v] = request[v]
  BY DEF IInv, RequestsOK
<1>2. nextMapping \in Int /\ nextMapping' \in Int /\ nextRule \in Int /\ nextRule' \in Int
  BY ConstantsAssumption DEF IInv, TypeOK
<1>3. request[v].rule \in Nat
  BY RecordFields, ConstantsAssumption DEF IInv, TypeOK
<1>4. nextMapping <= nextMapping'
  BY DEF Grows
<1>5. request[v].mapping \in 1..(nextMapping - 1) => request'[v].mapping \in 1..(nextMapping' - 1)
  BY <1>1, <1>2, <1>4
<1>6. request[v].rule # 0 => request[v].rule < nextRule' /\ rules'[request[v].rule].tag = request[v].mapping
  <2> SUFFICES ASSUME request[v].rule # 0
               PROVE  request[v].rule < nextRule' /\ rules'[request[v].rule].tag = request[v].mapping
    OBVIOUS
  <2>1. request[v].rule < nextRule /\ rules[request[v].rule].tag = request[v].mapping
    BY <1>1 DEF RequestOK
  <2>2. nextRule <= nextRule' /\ \A r \in 1..(nextRule - 1) : rules'[r].tag = rules[r].tag
    BY DEF Grows
  <2>3. request[v].rule \in 1..(nextRule - 1)
    BY <2>1, <1>2, <1>3
  <2>. QED BY <2>1, <2>2, <2>3, <1>2
<1>. QED BY <1>1, <1>5, <1>6, Zenon DEF RequestOK

OnlyMoves(w) ==
  /\ pc' \in [Workers -> Steps]
  /\ request' \in [Workers -> Requests]
  /\ \A v \in Workers \ {w} : pc'[v] = pc[v] /\ request'[v] = request[v]

\* What w does next, and what its request knows then.
LEMMA Moves ==
  ASSUME IInv, NEW w \in Workers, NEW step \in Steps, pc' = [pc EXCEPT ![w] = step]
  PROVE  /\ pc'[w] = step
         /\ UNCHANGED request => OnlyMoves(w) /\ request'[w] = request[w]
         /\ \A req \in Requests : request' = [request EXCEPT ![w] = req] =>
              OnlyMoves(w) /\ request'[w] = req
BY DEF IInv, TypeOK, OnlyMoves

LEMMA WorkerStep ==
  ASSUME IInv, NEW w \in Workers, OnlyMoves(w), TypeOK', Grows, LinksOK', RuleTagged',
         RequestOK(w)'
  PROVE  IInv'
<1>1. RequestsOK'
  BY OtherRequests DEF OnlyMoves
<1>. QED BY <1>1 DEF IInv

\* A step that changes nothing but the request of w and the bookkeeping.
LEMMA RequestStep ==
  ASSUME IInv, NEW w \in Workers, OnlyMoves(w), UNCHANGED <<store, oci>>,
         disturbed' \subseteq Mapping, requests' \in 0..MaxRequests, faults' \in 0..MaxFaults,
         RequestOK(w)'
  PROVE  IInv'
<1>1. TypeOK'
  BY DEF IInv, TypeOK, OnlyMoves, store, oci
<1>2. Grows
  BY ConstantsAssumption DEF IInv, TypeOK, Grows, store, oci
<1>3. LinksOK' /\ RuleTagged'
  BY DEF IInv, LinksOK, RuleTagged, store, oci
<1>. QED BY <1>1, <1>2, <1>3, WorkerStep

\* A request that ends knows nothing any more.
LEMMA IdleRequest ==
  ASSUME NEW w \in Workers, pc'[w] = "idle", request'[w] = NoRequest
  PROVE  RequestOK(w)'
BY EmptyRecords DEF RequestOK

LEMMA CurrentTypes ==
  ASSUME IInv, NEW w \in Workers
  PROVE  /\ pc[w] \in Steps /\ request[w] \in Requests /\ RequestOK(w)
         /\ nextMapping \in 1..(MaxMappings + 1) /\ nextRule \in 1..(MaxRules + 1)
         /\ disturbed \subseteq Mapping /\ requests \in 0..MaxRequests /\ faults \in 0..MaxFaults
BY DEF IInv, TypeOK, RequestsOK

-----------------------------------------------------------------------------
(* The first steps of the requests.                                        *)

LEMMA StartsValues ==
  ASSUME IInv, NEW w \in Workers, NEW step \in Steps, NEW m, NEW req \in Requests,
         Starts(w, step, m, req)
  PROVE  /\ OnlyMoves(w) /\ pc'[w] = step /\ request'[w] = req
         /\ UNCHANGED <<store, oci>> /\ disturbed' \subseteq Mapping
         /\ requests' \in 0..MaxRequests /\ faults' \in 0..MaxFaults
<1>1. requests' \in 0..MaxRequests
  BY ConstantsAssumption DEF IInv, TypeOK, Starts
<1>2. OnlyMoves(w) /\ pc'[w] = step /\ request'[w] = req
  BY Moves DEF Starts, Go
<1>. QED BY <1>1, <1>2 DEF IInv, TypeOK, Starts

LEMMA BeginAddIInv ==
  ASSUME IInv, NEW w \in Workers, BeginAdd(w)
  PROVE  IInv'
<1>1. PICK s \in Scopes, t \in Streams, wanted \in BOOLEAN :
        Starts(w, IF wanted THEN "validate" ELSE "save", 0, Request("add", 0, 0, s, t, wanted))
  BY DEF BeginAdd
<1>. DEFINE step == IF wanted THEN "validate" ELSE "save"
            req == Request("add", 0, 0, s, t, wanted)
<1>2. step \in Steps /\ step \in {"validate", "save"}
  BY DEF Steps
<1>3. req \in Requests
  <2>1. 0 \in 0..MaxMappings /\ 0 \in 0..MaxRules /\ "add" \in Kinds
    BY ConstantsAssumption DEF Kinds
  <2>. QED BY <2>1, RecordTypes
<1>4. /\ req.kind = "add" /\ req.rule = 0 /\ req.mapping = 0
      /\ req.scope \in Scopes /\ req.stream \in Streams
  BY DEF Request
<1>5. Starts(w, step, 0, req)
  BY <1>1
<1>. HIDE DEF step, req
<1>6. RequestOK(w)'
  BY <1>2, <1>3, <1>4, <1>5, StartsValues DEF RequestOK
<1>. QED BY <1>2, <1>3, <1>5, <1>6, StartsValues, RequestStep

\* A request on an existing mapping knows the rule the mapping refers to.
LEMMA MappingRequestOK ==
  ASSUME IInv, NEW m \in Mapping, Exists(m)
  PROVE  /\ m \in 1..(nextMapping - 1) /\ m \in 0..MaxMappings
         /\ mappings[m].rule \in 0..MaxRules
         /\ mappings[m].rule # 0 =>
              mappings[m].rule < nextRule /\ rules[mappings[m].rule].tag = m
<1>1. m \in 1..(nextMapping - 1) /\ m \in 0..MaxMappings
  BY ConstantsAssumption DEF IInv, TypeOK, Exists, Mapping
<1>2. mappings[m] \in MappingRows
  BY DEF IInv, TypeOK
<1>. QED BY <1>1, <1>2, RecordFields DEF IInv, LinksOK, RuleTagged

LEMMA BeginEditIInv ==
  ASSUME IInv, NEW w \in Workers, NEW m \in Mapping, BeginEdit(w, m)
  PROVE  IInv'
<1>1. PICK s \in Scopes, t \in Streams, wanted \in BOOLEAN :
        Starts(w, IF wanted THEN "validate" ELSE "save", m,
               Request("edit", m, mappings[m].rule, s, t, wanted))
  BY DEF BeginEdit
<1>. DEFINE step == IF wanted THEN "validate" ELSE "save"
            req == Request("edit", m, mappings[m].rule, s, t, wanted)
<1>2. step \in Steps /\ step \in {"validate", "save"}
  BY DEF Steps
<1>3. Exists(m)
  BY DEF BeginEdit
<1>4. req \in Requests
  BY <1>3, MappingRequestOK, RecordTypes DEF Kinds
<1>5. /\ req.kind = "edit" /\ req.rule = mappings[m].rule /\ req.mapping = m
      /\ req.scope \in Scopes /\ req.stream \in Streams
  BY DEF Request
<1>6. Starts(w, step, m, req)
  BY <1>1
<1>. HIDE DEF step, req
<1>7. pc'[w] = step /\ request'[w] = req /\ nextMapping' = nextMapping /\ nextRule' = nextRule /\ rules' = rules
  BY <1>2, <1>4, <1>6, StartsValues DEF store, oci
<1>8. /\ m \in 1..(nextMapping - 1)
      /\ mappings[m].rule # 0 => mappings[m].rule < nextRule /\ rules[mappings[m].rule].tag = m
  BY <1>3, MappingRequestOK
<1>9. RequestOK(w)'
  BY <1>2, <1>5, <1>7, <1>8 DEF RequestOK
<1>. QED BY <1>2, <1>4, <1>6, <1>9, StartsValues, RequestStep

LEMMA BeginDeleteIInv ==
  ASSUME IInv, NEW w \in Workers, NEW m \in Mapping, BeginDelete(w, m)
  PROVE  IInv'
<1>. DEFINE step == IF mappings[m].rule # 0 THEN "find" ELSE "unlink"
            req == Request("delete", m, mappings[m].rule, Nothing, Nothing, FALSE)
<1>1. Exists(m) /\ Starts(w, step, m, req)
  BY DEF BeginDelete
<1>2. step \in Steps /\ step \in {"find", "unlink"} /\ (step = "find" => mappings[m].rule # 0)
  BY DEF Steps
<1>3. req \in Requests
  BY <1>1, MappingRequestOK, RecordTypes DEF Kinds
<1>4. req.kind = "delete" /\ req.rule = mappings[m].rule /\ req.mapping = m
  BY DEF Request
<1>. HIDE DEF step, req
<1>5. pc'[w] = step /\ request'[w] = req /\ nextMapping' = nextMapping /\ nextRule' = nextRule /\ rules' = rules
  BY <1>1, <1>2, <1>3, StartsValues DEF store, oci
<1>6. /\ m \in 1..(nextMapping - 1)
      /\ mappings[m].rule # 0 => mappings[m].rule < nextRule /\ rules[mappings[m].rule].tag = m
  BY <1>1, MappingRequestOK
<1>7. RequestOK(w)'
  BY <1>2, <1>4, <1>5, <1>6 DEF RequestOK
<1>. QED BY <1>1, <1>2, <1>3, <1>7, StartsValues, RequestStep

LEMMA BeginDeleteRuleIInv ==
  ASSUME IInv, NEW w \in Workers, NEW r \in Rule, BeginDeleteRule(w, r)
  PROVE  IInv'
<1>. DEFINE req == Request("delete rule", rules[r].tag, r, Nothing, Nothing, FALSE)
<1>1. r < nextRule /\ Starts(w, "find", rules[r].tag, req)
  BY DEF BeginDeleteRule
<1>2. rules[r].tag \in 1..(nextMapping - 1)
  BY <1>1 DEF IInv, TypeOK
<1>3. rules[r].tag \in 0..MaxMappings /\ r \in 0..MaxRules /\ r # 0
  BY <1>2, ConstantsAssumption DEF IInv, TypeOK, Rule
<1>4. req \in Requests
  BY <1>3, RecordTypes DEF Kinds
<1>5. req.kind = "delete rule" /\ req.rule = r /\ req.mapping = rules[r].tag
  BY DEF Request
<1>. HIDE DEF req
<1>6. "find" \in Steps
  BY DEF Steps
<1>7. pc'[w] = "find" /\ request'[w] = req /\ nextMapping' = nextMapping /\ nextRule' = nextRule /\ rules' = rules
  BY <1>1, <1>4, <1>6, StartsValues DEF store, oci
<1>8. RequestOK(w)'
  BY <1>1, <1>2, <1>3, <1>5, <1>7 DEF RequestOK
<1>. QED BY <1>1, <1>4, <1>8, <1>6, StartsValues, RequestStep

-----------------------------------------------------------------------------
(* The steps that change neither mappings nor rules.                       *)

LEMMA EndsValues ==
  ASSUME IInv, NEW w \in Workers, NEW from, Ends(w, from)
  PROVE  OnlyMoves(w) /\ RequestOK(w)'
<1>1. "idle" \in Steps /\ NoRequest \in Requests
  BY EmptyRecords DEF Steps
<1>. QED BY <1>1, Moves, IdleRequest DEF Ends, Go

LEMMA ValidateIInv ==
  ASSUME IInv, NEW w \in Workers, Validate(w)
  PROVE  IInv'
<1>1. OnlyMoves(w) /\ RequestOK(w)'
  <2>1. CASE Ends(w, "validate")
    BY <2>1, EndsValues
  <2>2. CASE Go(w, "validate", "save") /\ UNCHANGED request
    <3>1. OnlyMoves(w) /\ pc'[w] = "save" /\ request'[w] = request[w]
      BY <2>2, Moves DEF Go, Steps
    <3>. QED BY <2>2, <3>1, CurrentTypes DEF Validate, Go, RequestOK, store, oci
  <2>. QED BY <2>1, <2>2 DEF Validate
<1>. QED BY <1>1, RequestStep, CurrentTypes DEF Validate, limits

LEMMA CheckRuleIInv ==
  ASSUME IInv, NEW w \in Workers, CheckRule(w)
  PROVE  IInv'
<1>1. OnlyMoves(w) /\ RequestOK(w)'
  <2>1. CASE Ends(w, "check")
    BY <2>1, EndsValues
  <2>2. ASSUME NEW step \in {"create", "update"}, Go(w, "check", step) /\ UNCHANGED request
        PROVE  OnlyMoves(w) /\ RequestOK(w)'
    <3>1. OnlyMoves(w) /\ pc'[w] = step /\ request'[w] = request[w]
      BY <2>2, Moves DEF Go, Steps
    <3>. QED BY <2>2, <3>1, CurrentTypes DEF CheckRule, Go, RequestOK, store, oci
  <2>. QED BY <2>1, <2>2 DEF CheckRule
<1>. QED BY <1>1, RequestStep, CurrentTypes DEF CheckRule, limits

LEMMA FindRuleIInv ==
  ASSUME IInv, NEW w \in Workers, FindRule(w)
  PROVE  IInv'
<1>1. PICK step \in {"remove", "unlink"} : Go(w, "find", step)
  BY DEF FindRule
<1>2. OnlyMoves(w) /\ pc'[w] = step /\ request'[w] = request[w]
  BY <1>1, Moves DEF FindRule, Go, Steps
<1>3. RequestOK(w)'
  BY <1>1, <1>2, CurrentTypes DEF FindRule, Go, RequestOK, store, oci
<1>. QED BY <1>2, <1>3, RequestStep, CurrentTypes DEF FindRule, limits

LEMMA BreaksOffIInv ==
  ASSUME IInv, NEW w \in Workers, BreaksOff(w)
  PROVE  IInv'
<1>1. Ends(w, pc[w])
  BY DEF BreaksOff, Ends, Go
<1>2. faults' \in 0..MaxFaults
  BY ConstantsAssumption, CurrentTypes DEF BreaksOff
<1>3. disturbed' \subseteq Mapping
  BY CurrentTypes DEF BreaksOff
<1>. QED BY <1>1, <1>2, <1>3, EndsValues, RequestStep, CurrentTypes DEF BreaksOff

-----------------------------------------------------------------------------
(* The steps that change mappings.                                         *)

\* A mapping may come to refer to another rule only if the rule was created
\* for it.
LEMMA MappingsStep ==
  ASSUME IInv, NEW w \in Workers, OnlyMoves(w), UNCHANGED <<oci, disturbed, limits>>,
         mappings' \in [Mapping -> MappingRows],
         nextMapping' \in nextMapping..(MaxMappings + 1),
         \A m \in Mapping : m >= nextMapping' => mappings'[m] = NoMapping,
         \A m \in Mapping : \/ mappings'[m].rule \in {0, mappings[m].rule}
                            \/ mappings'[m].rule < nextRule /\ rules[mappings'[m].rule].tag = m,
         RequestOK(w)'
  PROVE  IInv'
<1>1. nextMapping \in Int /\ nextMapping' \in 1..(MaxMappings + 1) /\ nextMapping <= nextMapping'
  BY CurrentTypes, ConstantsAssumption
<1>2. \A r \in Rule : IF r < nextRule THEN rules[r].tag \in 1..(nextMapping' - 1) ELSE rules[r] = NoRule
  BY <1>1 DEF IInv, TypeOK
<1>3. TypeOK'
  BY <1>1, <1>2 DEF IInv, TypeOK, OnlyMoves, oci, limits
<1>4. Grows
  BY <1>1, CurrentTypes DEF Grows, oci
<1>5. LinksOK' /\ RuleTagged'
  BY DEF IInv, LinksOK, RuleTagged, oci
<1>. QED BY <1>3, <1>4, <1>5, WorkerStep

LEMMA CurrentRequest ==
  ASSUME IInv, NEW w \in Workers
  PROVE  /\ request[w].kind \in Kinds /\ request[w].mapping \in 0..MaxMappings
         /\ request[w].rule \in 0..MaxRules /\ request[w].wanted \in BOOLEAN
         /\ request[w].scope \in Scopes \cup {Nothing}
         /\ request[w].stream \in Streams \cup {Nothing}
BY CurrentTypes, RecordFields

LEMMA LearnsValues ==
  ASSUME IInv, NEW w \in Workers, NEW m \in 0..MaxMappings, NEW r \in 0..MaxRules,
         NEW from, NEW step \in Steps, Go(w, from, step), Learns(w, m, r)
  PROVE  /\ OnlyMoves(w) /\ pc'[w] = step
         /\ request'[w].mapping = m /\ request'[w].rule = r
         /\ request'[w].kind = request[w].kind /\ request'[w].scope = request[w].scope
         /\ request'[w].stream = request[w].stream /\ request'[w].wanted = request[w].wanted
<1>. DEFINE req == Request(request[w].kind, m, r, request[w].scope, request[w].stream,
                           request[w].wanted)
<1>1. req \in Requests
  BY CurrentRequest, RecordTypes
<1>2. request' = [request EXCEPT ![w] = req]
  BY DEF Learns
<1>3. OnlyMoves(w) /\ pc'[w] = step /\ request'[w] = req
  BY <1>1, <1>2, Moves DEF Go
<1>. QED BY <1>3 DEF Request

\* After the mapping is saved the request goes on with the rule it knows of.
LEMMA SavesValues ==
  ASSUME IInv, NEW w \in Workers, NEW m \in 0..MaxMappings, Saves(w, m)
  PROVE  /\ OnlyMoves(w) /\ pc[w] = "save"
         /\ \/ RequestOK(w)'
            \/ /\ pc'[w] \in {"create", "check", "find"}
               /\ pc'[w] = "create" => request[w].rule = 0
               /\ pc'[w] \in {"check", "find"} => request[w].rule # 0
               /\ request'[w].mapping = m /\ request'[w].rule = request[w].rule
               /\ request'[w].kind = request[w].kind /\ request'[w].scope = request[w].scope
               /\ request'[w].stream = request[w].stream
<1>1. CASE Ends(w, "save")
  BY <1>1, EndsValues DEF Ends, Go
<1>2. CASE Go(w, "save", AfterSave(w)) /\ Learns(w, m, request[w].rule) /\ AfterSave(w) # "idle"
  <2>1. /\ AfterSave(w) \in {"create", "check", "find"}
        /\ AfterSave(w) = "create" => request[w].rule = 0
        /\ AfterSave(w) \in {"check", "find"} => request[w].rule # 0
    BY <1>2, CurrentRequest DEF AfterSave
  <2>2. AfterSave(w) \in Steps
    BY <2>1 DEF Steps
  <2>. QED BY <1>2, <2>1, <2>2, CurrentRequest, LearnsValues DEF Go
<1>. QED BY <1>1, <1>2 DEF Saves

LEMMA InsertIInv ==
  ASSUME IInv, NEW w \in Workers, Insert(w)
  PROVE  IInv'
<1>1. nextMapping \in Mapping /\ nextMapping \in 1..MaxMappings /\ nextMapping \in 0..MaxMappings
  BY ConstantsAssumption DEF Insert, Mapping
<1>2. /\ OnlyMoves(w) /\ pc[w] = "save" /\ request[w].kind = "add"
      /\ nextMapping' = nextMapping + 1 /\ rules' = rules /\ nextRule' = nextRule
  BY <1>1, SavesValues DEF Insert, oci
<1>3. request[w].rule = 0 /\ request[w].scope \in Scopes /\ request[w].stream \in Streams
  BY <1>2, CurrentTypes DEF RequestOK
<1>4. nextMapping \in 1..(nextMapping' - 1)
  BY <1>1, <1>2
<1>5. RequestOK(w)'
  BY <1>1, <1>2, <1>3, <1>4, SavesValues DEF Insert, RequestOK
<1>6. MappingRow(request[w].scope, request[w].stream, 0) \in MappingRows
  BY <1>3, RecordTypes, ConstantsAssumption
<1>7. mappings' \in [Mapping -> MappingRows]
  BY <1>6 DEF IInv, TypeOK, Insert
<1>8. \A m \in Mapping : m >= nextMapping' => mappings'[m] = NoMapping
  BY <1>1, <1>2 DEF IInv, TypeOK, Insert, Mapping
<1>9. \A m \in Mapping : mappings'[m].rule \in {0, mappings[m].rule}
  BY DEF IInv, TypeOK, Insert, MappingRow
<1>10. nextMapping' \in nextMapping..(MaxMappings + 1)
  BY <1>1, <1>2, ConstantsAssumption
<1>. QED BY <1>2, <1>5, <1>7, <1>8, <1>9, <1>10, MappingsStep DEF Insert

LEMMA UpdateIInv ==
  ASSUME IInv, NEW w \in Workers, Update(w)
  PROVE  IInv'
<1>. DEFINE m == request[w].mapping
<1>1. /\ request[w].kind = "edit" /\ nextMapping' = nextMapping
      /\ rules' = rules /\ nextRule' = nextRule
      /\ nextMapping' \in nextMapping..(MaxMappings + 1)
  BY CurrentTypes, ConstantsAssumption DEF Update, oci
<1>2. CASE Ends(w, "save") /\ UNCHANGED mappings
  <2>1. \A k \in Mapping : k >= nextMapping' => mappings'[k] = NoMapping
    BY <1>1, <1>2 DEF IInv, TypeOK
  <2>. QED BY <1>1, <1>2, <2>1, EndsValues, MappingsStep DEF Update, IInv, TypeOK
<1>3. CASE Exists(m) /\ Saves(w, m)
           /\ mappings' = [mappings EXCEPT ![m] = MappingRow(request[w].scope, request[w].stream, @.rule)]
  <2>1. m \in Mapping /\ m \in 0..MaxMappings /\ m \in 1..(nextMapping - 1)
    BY <1>3, MappingRequestOK DEF Exists
  <2>2. OnlyMoves(w) /\ pc[w] = "save"
    BY <1>3, <2>1, SavesValues
  <2>3. RequestOK(w)
    BY CurrentTypes
  <2>4. RequestOK(w)'
    BY <1>1, <1>3, <2>1, <2>2, <2>3, SavesValues DEF RequestOK
  <2>5. MappingRow(request[w].scope, request[w].stream, mappings[m].rule) \in MappingRows
    BY <1>3, <2>1, MappingRequestOK, CurrentRequest, RecordTypes
  <2>6. mappings' \in [Mapping -> MappingRows]
    BY <1>3, <2>5 DEF IInv, TypeOK
  <2>7. \A k \in Mapping : k >= nextMapping' => mappings'[k] = NoMapping
    BY <1>1, <1>3, <2>1, CurrentTypes DEF IInv, TypeOK, Mapping
  <2>8. \A k \in Mapping : mappings'[k].rule = mappings[k].rule
    BY <1>3, <2>1 DEF IInv, TypeOK, MappingRow
  <2>. QED BY <1>1, <2>2, <2>4, <2>6, <2>7, <2>8, MappingsStep DEF Update
<1>. QED BY <1>2, <1>3 DEF Update

LEMMA WithRuleRows ==
  ASSUME IInv, NEW m \in Mapping, NEW r \in 0..MaxRules, mappings' = WithRule(m, r)
  PROVE  /\ mappings' \in [Mapping -> MappingRows]
         /\ \A k \in Mapping : k >= nextMapping => mappings'[k] = NoMapping
         /\ \A k \in Mapping :
              mappings'[k].rule = mappings[k].rule \/ (k = m /\ mappings'[k].rule = r)
<1>1. CASE ~Exists(m)
  <2>1. mappings' = mappings
    BY <1>1 DEF WithRule
  <2>2. \A k \in Mapping : k >= nextMapping => mappings'[k] = NoMapping
    BY <2>1 DEF IInv, TypeOK
  <2>3. mappings' \in [Mapping -> MappingRows]
    BY <2>1 DEF IInv, TypeOK
  <2>4. \A k \in Mapping : mappings'[k].rule = mappings[k].rule
    BY <2>1
  <2>. QED BY <2>2, <2>3, <2>4, Zenon
<1>2. CASE Exists(m)
  <2>. DEFINE row == MappingRow(mappings[m].scope, mappings[m].stream, r)
  <2>1. row \in MappingRows /\ row.rule = r
    <3>1. mappings[m] \in MappingRows
      BY DEF IInv, TypeOK
    <3>. QED BY <3>1, RecordFields, RecordTypes DEF MappingRow
  <2>2. mappings' = [mappings EXCEPT ![m] = row]
    BY <1>2 DEF WithRule
  <2>. HIDE DEF row
  <2>3. mappings[m] # NoMapping
    BY <1>2 DEF Exists
  <2>4. \A k \in Mapping : mappings'[k] = IF k = m THEN row ELSE mappings[k]
    BY <2>2 DEF IInv, TypeOK
  <2>5. \A k \in Mapping : k >= nextMapping => mappings'[k] = NoMapping
    BY <2>3, <2>4 DEF IInv, TypeOK
  <2>6. mappings' \in [Mapping -> MappingRows]
    BY <2>1, <2>2 DEF IInv, TypeOK
  <2>7. \A k \in Mapping :
          mappings'[k].rule = mappings[k].rule \/ (k = m /\ mappings'[k].rule = r)
    <3> SUFFICES ASSUME NEW k \in Mapping
                 PROVE  mappings'[k].rule = mappings[k].rule \/ (k = m /\ mappings'[k].rule = r)
      OBVIOUS
    <3>1. CASE k = m
      BY <2>1, <2>4, <3>1
    <3>2. CASE k # m
      BY <2>4, <3>2
    <3>. QED BY <3>1, <3>2
  <2>. QED BY <2>5, <2>6, <2>7, Zenon
<1>. QED BY <1>1, <1>2, Zenon

LEMMA LinkIInv ==
  ASSUME IInv, NEW w \in Workers, Link(w)
  PROVE  IInv'
<1>1. /\ request[w].mapping \in 1..(nextMapping - 1) /\ request[w].rule # 0
      /\ request[w].rule < nextRule /\ rules[request[w].rule].tag = request[w].mapping
  BY CurrentTypes DEF Link, Ends, Go, RequestOK
<1>2. request[w].mapping \in Mapping /\ request[w].rule \in 0..MaxRules
  BY <1>1, CurrentTypes, CurrentRequest, ConstantsAssumption DEF Mapping
<1>3. nextMapping' = nextMapping /\ nextMapping' \in nextMapping..(MaxMappings + 1)
  BY CurrentTypes, ConstantsAssumption DEF Link
<1>4. \A k \in Mapping : \/ mappings'[k].rule \in {0, mappings[k].rule}
                         \/ mappings'[k].rule < nextRule /\ rules[mappings'[k].rule].tag = k
  BY <1>1, <1>2, WithRuleRows DEF Link
<1>5. mappings' \in [Mapping -> MappingRows]
  BY <1>2, WithRuleRows DEF Link
<1>6. \A k \in Mapping : k >= nextMapping' => mappings'[k] = NoMapping
  BY <1>2, <1>3, WithRuleRows DEF Link
<1>. QED BY <1>3, <1>4, <1>5, <1>6, EndsValues, MappingsStep DEF Link

LEMMA UnlinkIInv ==
  ASSUME IInv, NEW w \in Workers, Unlink(w)
  PROVE  IInv'
<1>. DEFINE m == request[w].mapping
<1>1. request[w].kind \in {"edit", "delete", "delete rule"}
  BY CurrentTypes DEF Unlink, Ends, Go, RequestOK
<1>2. m \in Mapping
  <2>1. m \in 1..(nextMapping - 1)
    BY CurrentTypes DEF Unlink, Ends, Go, RequestOK
  <2>2. nextMapping \in 1..(MaxMappings + 1)
    BY CurrentTypes
  <2>. QED BY <2>1, <2>2, ConstantsAssumption DEF Mapping
<1>3. 0 \in 0..MaxRules
  BY ConstantsAssumption
<1>4. nextMapping' = nextMapping /\ nextMapping' \in nextMapping..(MaxMappings + 1)
  <2>1. nextMapping' = nextMapping
    BY DEF Unlink
  <2>. QED BY <2>1, CurrentTypes, ConstantsAssumption
<1>5. /\ mappings' \in [Mapping -> MappingRows]
      /\ \A k \in Mapping : k >= nextMapping => mappings'[k] = NoMapping
      /\ \A k \in Mapping : mappings'[k].rule \in {0, mappings[k].rule}
  <2>1. CASE request[w].kind = "edit"
    <3>1. mappings' = WithRule(m, 0)
      BY <2>1 DEF Unlink
    <3>. QED BY <1>2, <1>3, <3>1, WithRuleRows
  <2>2. CASE request[w].kind = "delete"
    <3>1. mappings' = [mappings EXCEPT ![m] = NoMapping]
      BY <2>2 DEF Unlink
    <3>. QED BY <1>2, <3>1, EmptyRecords DEF IInv, TypeOK
  <2>3. CASE request[w].kind = "delete rule"
    <3>1. mappings' = WithoutRule(request[w].rule)
      BY <2>3 DEF Unlink
    <3>2. \A k \in Mapping :
            /\ mappings[k] \in MappingRows
            /\ MappingRow(mappings[k].scope, mappings[k].stream, 0) \in MappingRows
            /\ MappingRow(mappings[k].scope, mappings[k].stream, 0).rule = 0
      BY <1>3, RecordFields, RecordTypes DEF IInv, TypeOK, MappingRow
    <3>3. \A k \in Mapping : k >= nextMapping => mappings'[k] = NoMapping
      <4> SUFFICES ASSUME NEW k \in Mapping, k >= nextMapping PROVE mappings'[k] = NoMapping
        OBVIOUS
      <4>1. mappings[k] = NoMapping
        BY DEF IInv, TypeOK
      <4>2. MappingRow(NoMapping.scope, NoMapping.stream, 0) = NoMapping
        BY DEF MappingRow, NoMapping
      <4>. QED BY <3>1, <4>1, <4>2 DEF WithoutRule
    <3>. QED BY <3>1, <3>2, <3>3 DEF WithoutRule
  <2>. QED BY <1>1, <2>1, <2>2, <2>3
<1>. QED BY <1>4, <1>5, EndsValues, MappingsStep DEF Unlink

-----------------------------------------------------------------------------
(* The steps that change rules.                                            *)

\* One rule changes but keeps its tag, or is created for the mapping that
\* the request works on.
LEMMA RulesStep ==
  ASSUME IInv, NEW w \in Workers, OnlyMoves(w), UNCHANGED <<store, disturbed, limits>>,
         nextRule' \in nextRule..(MaxRules + 1), rules' \in [Rule -> EventRules],
         \A r \in Rule : r < nextRule => rules'[r].tag = rules[r].tag,
         \A r \in Rule : nextRule <= r /\ r < nextRule' => rules'[r].tag \in 1..(nextMapping - 1),
         \A r \in Rule : r >= nextRule' => rules'[r] = NoRule,
         RequestOK(w)'
  PROVE  IInv'
<1>1. nextRule \in Int /\ nextRule' \in 1..(MaxRules + 1) /\ nextRule <= nextRule'
  BY CurrentTypes, ConstantsAssumption
<1>2. \A r \in Rule : IF r < nextRule' THEN rules'[r].tag \in 1..(nextMapping - 1) ELSE rules'[r] = NoRule
  BY <1>1 DEF IInv, TypeOK, Rule
<1>3. TypeOK'
  BY <1>1, <1>2 DEF IInv, TypeOK, OnlyMoves, store, limits
<1>4. Grows
  BY <1>1, CurrentTypes, ConstantsAssumption DEF Grows, store, Rule
<1>5. \A m \in Mapping : mappings[m].rule # 0 =>
        mappings[m].rule < nextRule' /\ rules'[mappings[m].rule].tag = m
  <2> SUFFICES ASSUME NEW m \in Mapping, mappings[m].rule # 0
               PROVE  mappings[m].rule < nextRule' /\ rules'[mappings[m].rule].tag = m
    OBVIOUS
  <2>1. mappings[m].rule < nextRule /\ rules[mappings[m].rule].tag = m
    BY DEF IInv, LinksOK, RuleTagged
  <2>2. mappings[m].rule \in Rule
    BY RecordFields, ConstantsAssumption DEF IInv, TypeOK, Rule
  <2>. QED BY <1>1, <2>1, <2>2 DEF Rule
<1>6. LinksOK' /\ RuleTagged'
  BY <1>5 DEF LinksOK, RuleTagged, store
<1>. QED BY <1>3, <1>4, <1>6, WorkerStep

LEMMA UpdateRuleIInv ==
  ASSUME IInv, NEW w \in Workers, UpdateRule(w)
  PROVE  IInv'
<1>. DEFINE r == request[w].rule
            rule == Wanted(w, request[w].mapping)
<1>1. nextRule' = nextRule /\ nextRule' \in nextRule..(MaxRules + 1) /\ nextRule \in Int
  BY CurrentTypes, ConstantsAssumption DEF UpdateRule
<1>2. CASE Ends(w, "update") /\ UNCHANGED rules
  BY <1>1, <1>2, EndsValues, RulesStep DEF UpdateRule, IInv, TypeOK, Rule
<1>3. CASE Alive(r) /\ Go(w, "update", "link") /\ UNCHANGED request
           /\ rules' = [rules EXCEPT ![r] = rule]
  <2>1. /\ request[w].mapping \in 1..(nextMapping - 1) /\ r < nextRule
        /\ rules[r].tag = request[w].mapping /\ r \in Rule
        /\ request[w].scope \in Scopes /\ request[w].stream \in Streams
        /\ RequestOK(w) /\ pc[w] = "update"
    BY <1>3, CurrentTypes DEF RequestOK, Go, Alive
  <2>2. OnlyMoves(w) /\ pc'[w] = "link" /\ request'[w] = request[w]
    BY <1>3, Moves DEF Go, Steps
  <2>3. rule \in EventRules /\ rule.tag = request[w].mapping
    <3>1. ConditionOf[request[w].scope] \in Conditions
      BY <2>1, ConstantsAssumption
    <3>. QED BY <2>1, <3>1, CurrentRequest, RecordTypes DEF Wanted, EventRule
  <2>. HIDE DEF rule
  <2>4. rules' \in [Rule -> EventRules]
    BY <1>3, <2>3 DEF IInv, TypeOK
  <2>5. \A k \in Rule : rules'[k].tag = rules[k].tag
    BY <1>3, <2>1, <2>3 DEF IInv, TypeOK
  <2>6. \A k \in Rule : k >= nextRule' => rules'[k] = NoRule
    BY <1>1, <1>3, <2>1 DEF IInv, TypeOK, Rule
  <2>7. RequestOK(w)'
    BY <1>1, <2>1, <2>2, <2>5 DEF RequestOK, UpdateRule, store
  <2>. QED BY <1>1, <2>2, <2>4, <2>5, <2>6, <2>7, RulesStep DEF UpdateRule, Rule
<1>. QED BY <1>2, <1>3 DEF UpdateRule

LEMMA RemoveRuleIInv ==
  ASSUME IInv, NEW w \in Workers, RemoveRule(w)
  PROVE  IInv'
<1>. DEFINE r == request[w].rule
            rule == EventRule(rules[r].tag, Nothing, Nothing)
<1>1. nextRule' = nextRule /\ nextRule' \in nextRule..(MaxRules + 1) /\ nextRule \in Int
  BY CurrentTypes, ConstantsAssumption DEF RemoveRule
<1>2. CASE Ends(w, "remove") /\ UNCHANGED rules
  BY <1>1, <1>2, EndsValues, RulesStep DEF RemoveRule, IInv, TypeOK, Rule
<1>3. CASE Alive(r) /\ Go(w, "remove", "unlink") /\ UNCHANGED request
           /\ rules' = [rules EXCEPT ![r] = rule]
  <2>1. r < nextRule /\ r \in Rule /\ RequestOK(w) /\ pc[w] = "remove"
    BY <1>3, CurrentTypes DEF RequestOK, Go, Alive
  <2>2. OnlyMoves(w) /\ pc'[w] = "unlink" /\ request'[w] = request[w]
    BY <1>3, Moves DEF Go, Steps
  <2>3. rule \in EventRules /\ rule.tag = rules[r].tag
    BY <2>1, RecordFields, RecordTypes DEF IInv, TypeOK, EventRule
  <2>. HIDE DEF rule
  <2>4. rules' \in [Rule -> EventRules]
    BY <1>3, <2>3 DEF IInv, TypeOK
  <2>5. \A k \in Rule : rules'[k].tag = rules[k].tag
    BY <1>3, <2>1, <2>3 DEF IInv, TypeOK
  <2>6. \A k \in Rule : k >= nextRule' => rules'[k] = NoRule
    BY <1>1, <1>3, <2>1 DEF IInv, TypeOK, Rule
  <2>7. RequestOK(w)'
    BY <1>1, <2>1, <2>2, <2>5 DEF RequestOK, RemoveRule, store
  <2>. QED BY <1>1, <2>2, <2>4, <2>5, <2>6, <2>7, RulesStep DEF RemoveRule, Rule
<1>. QED BY <1>2, <1>3 DEF RemoveRule

LEMMA CreateRuleIInv ==
  ASSUME IInv, NEW w \in Workers, CreateRule(w)
  PROVE  IInv'
<1>. DEFINE m == request[w].mapping
            rule == Wanted(w, m)
<1>1. /\ nextRule \in Rule /\ nextRule \in 0..MaxRules /\ nextRule \in 1..MaxRules
      /\ nextRule' = nextRule + 1 /\ nextRule' \in nextRule..(MaxRules + 1)
  BY ConstantsAssumption DEF CreateRule, Rule
<1>2. /\ m \in 1..(nextMapping - 1) /\ m \in 0..MaxMappings
      /\ request[w].scope \in Scopes /\ request[w].stream \in Streams
  BY CurrentTypes, CurrentRequest DEF CreateRule, Go, RequestOK
<1>3. rule \in EventRules /\ rule.tag = m
  <2>1. ConditionOf[request[w].scope] \in Conditions
    BY <1>2, ConstantsAssumption
  <2>. QED BY <1>2, <2>1, RecordTypes DEF Wanted, EventRule
<1>4. OnlyMoves(w) /\ pc'[w] = "link" /\ request'[w].mapping = m /\ request'[w].rule = nextRule
      /\ request'[w].scope = request[w].scope /\ request'[w].stream = request[w].stream
  BY <1>1, <1>2, LearnsValues DEF CreateRule, Steps
<1>5. rules' = [rules EXCEPT ![nextRule] = rule] /\ nextMapping' = nextMapping
  BY DEF CreateRule, store
<1>. HIDE DEF rule
<1>6. rules' \in [Rule -> EventRules]
  BY <1>3, <1>5 DEF IInv, TypeOK
<1>7. \A k \in Rule : rules'[k] = IF k = nextRule THEN rule ELSE rules[k]
  BY <1>5 DEF IInv, TypeOK
<1>8. RequestOK(w)'
  BY <1>1, <1>2, <1>3, <1>4, <1>5, <1>7 DEF RequestOK
<1>9. \A k \in Rule : k >= nextRule' => rules'[k] = NoRule
  BY <1>1, <1>7 DEF IInv, TypeOK, Rule
<1>10. \A k \in Rule : k < nextRule => rules'[k].tag = rules[k].tag
  BY <1>1, <1>7 DEF Rule
<1>11. \A k \in Rule : nextRule <= k /\ k < nextRule' => rules'[k].tag \in 1..(nextMapping - 1)
  BY <1>1, <1>2, <1>3, <1>7 DEF Rule
<1>. QED BY <1>1, <1>4, <1>6, <1>8, <1>9, <1>10, <1>11, RulesStep DEF CreateRule

-----------------------------------------------------------------------------
LEMMA NextIInv == IInv /\ [Next]_vars => IInv'
<1> SUFFICES ASSUME IInv, [Next]_vars PROVE IInv'
  OBVIOUS
<1>1. ASSUME NEW w \in Workers, Begin(w) PROVE IInv'
  BY <1>1, BeginAddIInv, BeginEditIInv, BeginDeleteIInv, BeginDeleteRuleIInv DEF Begin
<1>2. CASE UNCHANGED vars
  <2>1. TypeOK'
    BY <1>2 DEF IInv, TypeOK, vars, store, oci, limits
  <2>2. RequestsOK'
    BY <1>2 DEF IInv, RequestsOK, RequestOK, vars, store, oci
  <2>3. LinksOK' /\ RuleTagged'
    BY <1>2 DEF IInv, LinksOK, RuleTagged, vars, store, oci
  <2>. QED BY <2>1, <2>2, <2>3 DEF IInv
<1>. QED
  BY <1>1, <1>2, ValidateIInv, InsertIInv, UpdateIInv, CheckRuleIInv, UpdateRuleIInv,
     CreateRuleIInv, LinkIInv, FindRuleIInv, RemoveRuleIInv, UnlinkIInv, BreaksOffIInv
     DEF Next

LEMMA SpecIInv == Spec => []IInv
BY InitIInv, NextIInv, PTL DEF Spec

\* Every reachable state of the mapping pages and OCI has the types the
\* model states, with ids given in order (mapping_service.py add_mapping).
THEOREM SpecTypeOK == Spec => []TypeOK
<1>1. IInv => TypeOK
  BY DEF IInv
<1>. QED BY <1>1, SpecIInv, PTL

\* The rule a mapping refers to was created for that mapping, however the
\* requests of any number of workers overlap and break off: set_event_rule
\* only ever stores a rule that carries the id of its mapping as a tag.
THEOREM SpecRuleTagged == Spec => []RuleTagged
<1>1. IInv => RuleTagged
  BY DEF IInv
<1>. QED BY <1>1, SpecIInv, PTL

-----------------------------------------------------------------------------
(* One managed rule.  While the requests on a mapping neither overlap nor  *)
(* break off, the one request on it, if there is any, determines by its    *)
(* step which rules OCI has for the mapping.                               *)

Linked(m) == IF mappings[m].rule # 0 THEN {mappings[m].rule} ELSE {}

Follows(m) ==
  \A r \in RulesFor(m) :
    rules[r].stream = mappings[m].stream => rules[r].condition = ConditionOf[mappings[m].scope]

Managed(m) == RulesFor(m) = Linked(m) /\ Follows(m)

SavedAs(w, m) ==
  mappings[m].scope = request[w].scope /\ mappings[m].stream = request[w].stream

\* The rules of m while w works on it: as the request found them until the
\* mapping is saved; then the rule that is updated, or none while it is
\* created, or what is left while it is deleted.
StepOK(w, m) ==
  /\ pc[w] \in {"validate", "save"} => Managed(m) /\ request[w].rule = mappings[m].rule
  /\ pc[w] \in {"check", "update", "create", "link"} => SavedAs(w, m)
  /\ pc[w] \in {"check", "update"} =>
       RulesFor(m) = {request[w].rule} /\ mappings[m].rule = request[w].rule
  /\ pc[w] = "create" => RulesFor(m) = {}
  /\ pc[w] = "link" =>
       /\ RulesFor(m) = {request[w].rule}
       /\ rules[request[w].rule].condition = ConditionOf[request[w].scope]
  /\ pc[w] \in {"find", "remove", "unlink"} =>
       IF request[w].kind = "delete rule" THEN Follows(m) ELSE request[w].rule = mappings[m].rule
  /\ pc[w] \in {"find", "remove"} => RulesFor(m) = Linked(m)
  /\ pc[w] = "unlink" => RulesFor(m) = Linked(m) \ {request[w].rule}

Undisturbed(m) == m \notin disturbed =>
  /\ \A v, w \in Workers : Busy(v, m) /\ Busy(w, m) => v = w
  /\ \A w \in Workers : Busy(w, m) => StepOK(w, m)
  /\ (\A w \in Workers : ~Busy(w, m)) => Managed(m)

MInv == IInv /\ \A m \in Mapping : Undisturbed(m)

LEMMA InitMInv == Init => MInv
<1> SUFFICES ASSUME Init PROVE MInv
  OBVIOUS
<1>1. \A m \in Mapping : RulesFor(m) = {}
  BY DEF Init, RulesFor, Alive, NoRule, EventRule
<1>2. \A m \in Mapping : mappings[m].rule = 0
  BY EmptyRecords DEF Init
<1>3. \A m \in Mapping : Managed(m)
  BY <1>1, <1>2 DEF Managed, Linked, Follows
<1>4. \A m \in Mapping, w \in Workers : ~Busy(w, m)
  BY DEF Init, Busy
<1>. QED BY <1>3, <1>4, InitIInv DEF MInv, Undisturbed

-----------------------------------------------------------------------------
(* A step of one worker, as the mappings see it.                           *)

\* Nothing of mapping k changes.
KeepsMapping(k) ==
  /\ mappings'[k] = mappings[k]
  /\ \A r \in Rule : rules[r].tag = k \/ rules'[r].tag = k => rules'[r] = rules[r]

LEMMA KeptRules ==
  ASSUME NEW k \in Mapping, KeepsMapping(k)
  PROVE  /\ RulesFor(k)' = RulesFor(k) /\ Linked(k)' = Linked(k)
         /\ \A r \in RulesFor(k) : rules'[r] = rules[r]
         /\ Follows(k)' <=> Follows(k)
         /\ Managed(k)' <=> Managed(k)
<1>1. RulesFor(k)' = RulesFor(k)
  BY DEF KeepsMapping, RulesFor, Alive
<1>2. \A r \in RulesFor(k) : rules'[r] = rules[r]
  BY DEF KeepsMapping, RulesFor
<1>3. Linked(k)' = Linked(k)
  BY DEF KeepsMapping, Linked
<1>4. Follows(k)' <=> Follows(k)
  BY <1>1, <1>2 DEF KeepsMapping, Follows
<1>. QED BY <1>1, <1>2, <1>3, <1>4 DEF Managed

LEMMA KeptStep ==
  ASSUME NEW k \in Mapping, KeepsMapping(k), NEW v \in Workers,
         pc'[v] = pc[v], request'[v] = request[v], StepOK(v, k)
  PROVE  StepOK(v, k)'
<1>1. pc[v] = "link" => rules'[request[v].rule] = rules[request[v].rule]
  BY KeptRules DEF StepOK
<1>2. mappings'[k] = mappings[k]
  BY DEF KeepsMapping
<1>3. SavedAs(v, k)' <=> SavedAs(v, k)
  BY <1>2 DEF SavedAs
<1>4. /\ RulesFor(k)' = RulesFor(k) /\ Linked(k)' = Linked(k)
      /\ Follows(k)' <=> Follows(k)
      /\ Managed(k)' <=> Managed(k)
  BY KeptRules
<1>. QED BY <1>1, <1>2, <1>3, <1>4 DEF StepOK

LEMMA OtherMapping ==
  ASSUME NEW w \in Workers, OnlyMoves(w), disturbed \subseteq disturbed',
         NEW k \in Mapping, Undisturbed(k), KeepsMapping(k), ~Busy(w, k), ~Busy(w, k)'
  PROVE  Undisturbed(k)'
<1>1. \A v \in Workers \ {w} : pc'[v] = pc[v] /\ request'[v] = request[v]
  BY DEF OnlyMoves
<1>2. \A v \in Workers : Busy(v, k)' <=> Busy(v, k)
  BY <1>1 DEF Busy
<1> SUFFICES ASSUME k \notin disturbed'
             PROVE  /\ \A v, u \in Workers : Busy(v, k)' /\ Busy(u, k)' => v = u
                    /\ \A v \in Workers : Busy(v, k)' => StepOK(v, k)'
                    /\ (\A v \in Workers : ~Busy(v, k)') => Managed(k)'
  BY Zenon DEF Undisturbed
<1>3. /\ \A v, u \in Workers : Busy(v, k) /\ Busy(u, k) => v = u
      /\ \A v \in Workers : Busy(v, k) => StepOK(v, k)
      /\ (\A v \in Workers : ~Busy(v, k)) => Managed(k)
  BY DEF Undisturbed
<1>4. ASSUME NEW v \in Workers, Busy(v, k)' PROVE StepOK(v, k)'
  <2>1. Busy(v, k) /\ v # w
    BY <1>2, <1>4
  <2>. QED BY <1>1, <1>3, <2>1, KeptStep
<1>5. Managed(k)' <=> Managed(k)
  BY KeptRules
<1>. QED BY <1>2, <1>3, <1>4, <1>5

\* The one mapping the step is about: w was the only one on it, and is still
\* or has left it in order.
LEMMA OwnMapping ==
  ASSUME NEW w \in Workers, OnlyMoves(w), disturbed \subseteq disturbed',
         NEW m \in Mapping, Undisturbed(m),
         Busy(w, m) \/ \A v \in Workers : ~Busy(v, m),
         m \notin disturbed' => IF Busy(w, m)' THEN StepOK(w, m)' ELSE Managed(m)'
  PROVE  Undisturbed(m)'
<1>1. \A v \in Workers \ {w} : pc'[v] = pc[v] /\ request'[v] = request[v]
  BY DEF OnlyMoves
<1>2. \A v \in Workers \ {w} : Busy(v, m)' <=> Busy(v, m)
  BY <1>1 DEF Busy
<1> SUFFICES ASSUME m \notin disturbed'
             PROVE  /\ \A v, u \in Workers : Busy(v, m)' /\ Busy(u, m)' => v = u
                    /\ \A v \in Workers : Busy(v, m)' => StepOK(v, m)'
                    /\ (\A v \in Workers : ~Busy(v, m)') => Managed(m)'
  BY Zenon DEF Undisturbed
<1>3. \A v, u \in Workers : Busy(v, m) /\ Busy(u, m) => v = u
  BY DEF Undisturbed
<1>4. \A v \in Workers \ {w} : ~Busy(v, m)'
  BY <1>2, <1>3
<1>5. IF Busy(w, m)' THEN StepOK(w, m)' ELSE Managed(m)'
  OBVIOUS
<1>. QED BY <1>4, <1>5

\* A step of a request that is under way.
LEMMA WorkStep ==
  ASSUME MInv, IInv', NEW w \in Workers, OnlyMoves(w), disturbed \subseteq disturbed',
         pc[w] # "idle",
         pc'[w] # "idle" => request'[w].mapping = request[w].mapping,
         \A k \in Mapping : k # request[w].mapping => KeepsMapping(k),
         \A m \in Mapping : m = request[w].mapping /\ m \notin disturbed' /\ StepOK(w, m) =>
           IF pc'[w] = "idle" THEN Managed(m)' ELSE StepOK(w, m)'
  PROVE  MInv'
<1> SUFFICES ASSUME NEW m \in Mapping PROVE Undisturbed(m)'
  BY DEF MInv
<1>1. Undisturbed(m)
  BY DEF MInv
<1>2. CASE m = request[w].mapping
  <2>1. Busy(w, m) /\ (Busy(w, m)' <=> pc'[w] # "idle")
    BY <1>2 DEF Busy
  <2>2. m \notin disturbed' => StepOK(w, m)
    BY <1>1, <2>1 DEF Undisturbed
  <2>3. m \notin disturbed' => IF Busy(w, m)' THEN StepOK(w, m)' ELSE Managed(m)'
    BY <1>2, <2>1, <2>2
  <2>. QED BY <1>1, <2>1, <2>3, OwnMapping
<1>3. CASE m # request[w].mapping
  <2>1. ~Busy(w, m) /\ ~Busy(w, m)'
    BY <1>3 DEF Busy
  <2>2. KeepsMapping(m)
    BY <1>3
  <2>. QED BY <1>1, <2>1, <2>2, OtherMapping
<1>. QED BY <1>2, <1>3

LEMMA StoreKept ==
  ASSUME UNCHANGED <<store, oci>>
  PROVE  \A k \in Mapping : KeepsMapping(k)
BY DEF store, oci, KeepsMapping

LEMMA StartStep ==
  ASSUME MInv, IInv', NEW w \in Workers, NEW step \in Steps, step # "idle", NEW m,
         NEW req \in Requests, req.mapping = m, Starts(w, step, m, req),
         m \in Mapping /\ Managed(m) => StepOK(w, m)'
  PROVE  MInv'
<1>1. /\ OnlyMoves(w) /\ pc'[w] = step /\ request'[w] = req
      /\ UNCHANGED <<store, oci>>
  BY StartsValues DEF MInv
<1>2. pc[w] = "idle" /\ disturbed \subseteq disturbed'
  BY DEF Starts, Go
<1> SUFFICES ASSUME NEW k \in Mapping PROVE Undisturbed(k)'
  BY DEF MInv
<1>3. Undisturbed(k) /\ ~Busy(w, k)
  BY <1>2 DEF MInv, Busy
<1>4. CASE k # m
  <2>1. ~Busy(w, k)'
    BY <1>1, <1>4 DEF Busy
  <2>2. KeepsMapping(k)
    BY <1>1, StoreKept
  <2>. QED BY <1>1, <1>2, <1>3, <2>1, <2>2, OtherMapping
<1>5. CASE k = m /\ \E v \in Workers : Busy(v, k)
  BY <1>5 DEF Starts, Undisturbed
<1>6. CASE k = m /\ \A v \in Workers : ~Busy(v, k)
  <2>1. Busy(w, k)'
    BY <1>1, <1>6 DEF Busy
  <2>2. k \notin disturbed' => Managed(k)
    BY <1>2, <1>3, <1>6 DEF Undisturbed
  <2>3. k \notin disturbed' => IF Busy(w, k)' THEN StepOK(w, k)' ELSE Managed(k)'
    BY <1>6, <2>1, <2>2
  <2>. QED BY <1>1, <1>2, <1>3, <1>6, <2>3, OwnMapping
<1>. QED BY <1>4, <1>5, <1>6

LEMMA BeginAddMInv ==
  ASSUME MInv, IInv', NEW w \in Workers, BeginAdd(w)
  PROVE  MInv'
<1>1. PICK s \in Scopes, t \in Streams, wanted \in BOOLEAN :
        Starts(w, IF wanted THEN "validate" ELSE "save", 0, Request("add", 0, 0, s, t, wanted))
  BY DEF BeginAdd
<1>. DEFINE step == IF wanted THEN "validate" ELSE "save"
            req == Request("add", 0, 0, s, t, wanted)
<1>2. step \in Steps /\ step # "idle"
  BY DEF Steps
<1>3. req \in Requests
  <2>1. 0 \in 0..MaxMappings /\ 0 \in 0..MaxRules /\ "add" \in Kinds
    BY ConstantsAssumption DEF Kinds
  <2>. QED BY <2>1, RecordTypes
<1>4. req.mapping = 0 /\ 0 \notin Mapping
  BY DEF Request, Mapping
<1>5. Starts(w, step, 0, req)
  BY <1>1
<1>. HIDE DEF step, req
<1>. QED BY <1>2, <1>3, <1>4, <1>5, StartStep

LEMMA BeginEditMInv ==
  ASSUME MInv, IInv', NEW w \in Workers, NEW m \in Mapping, BeginEdit(w, m)
  PROVE  MInv'
<1>1. PICK s \in Scopes, t \in Streams, wanted \in BOOLEAN :
        Starts(w, IF wanted THEN "validate" ELSE "save", m,
               Request("edit", m, mappings[m].rule, s, t, wanted))
  BY DEF BeginEdit
<1>. DEFINE step == IF wanted THEN "validate" ELSE "save"
            req == Request("edit", m, mappings[m].rule, s, t, wanted)
<1>2. step \in Steps /\ step \in {"validate", "save"}
  BY DEF Steps
<1>3. req \in Requests
  BY MappingRequestOK, RecordTypes DEF MInv, BeginEdit, Kinds
<1>4. req.mapping = m /\ req.rule = mappings[m].rule
  BY DEF Request
<1>5. Starts(w, step, m, req)
  BY <1>1
<1>. HIDE DEF step, req
<1>6. pc'[w] = step /\ request'[w] = req /\ UNCHANGED <<store, oci>>
  BY <1>2, <1>3, <1>5, StartsValues DEF MInv
<1>7. ASSUME Managed(m) PROVE StepOK(w, m)'
  <2>1. Managed(m)' /\ request'[w].rule = mappings'[m].rule
    BY <1>4, <1>6, <1>7, StoreKept, KeptRules DEF store
  <2>. QED BY <1>2, <1>6, <2>1 DEF StepOK
<1>. QED BY <1>2, <1>3, <1>4, <1>5, <1>7, StartStep

LEMMA BeginDeleteMInv ==
  ASSUME MInv, IInv', NEW w \in Workers, NEW m \in Mapping, BeginDelete(w, m)
  PROVE  MInv'
<1>. DEFINE step == IF mappings[m].rule # 0 THEN "find" ELSE "unlink"
            req == Request("delete", m, mappings[m].rule, Nothing, Nothing, FALSE)
<1>1. Exists(m) /\ Starts(w, step, m, req)
  BY DEF BeginDelete
<1>2. step \in Steps /\ step \in {"find", "unlink"} /\ (step = "unlink" => mappings[m].rule = 0)
  BY DEF Steps
<1>3. req \in Requests
  BY <1>1, MappingRequestOK, RecordTypes DEF MInv, Kinds
<1>4. req.mapping = m /\ req.rule = mappings[m].rule /\ req.kind = "delete"
  BY DEF Request
<1>. HIDE DEF step, req
<1>5. pc'[w] = step /\ request'[w] = req /\ UNCHANGED <<store, oci>>
  BY <1>1, <1>2, <1>3, StartsValues DEF MInv
<1>6. ASSUME Managed(m) PROVE StepOK(w, m)'
  <2>1. RulesFor(m)' = Linked(m)' /\ request'[w].rule = mappings'[m].rule
    BY <1>4, <1>5, <1>6, StoreKept, KeptRules DEF Managed, store
  <2>2. step = "unlink" => Linked(m)' = {}
    BY <1>2, <1>5 DEF Linked, store
  <2>. QED BY <1>2, <1>4, <1>5, <2>1, <2>2 DEF StepOK
<1>. QED BY <1>1, <1>2, <1>3, <1>4, <1>6, StartStep

LEMMA BeginDeleteRuleMInv ==
  ASSUME MInv, IInv', NEW w \in Workers, NEW r \in Rule, BeginDeleteRule(w, r)
  PROVE  MInv'
<1>1. PICK m : m = rules[r].tag
  OBVIOUS
<1>2. m \in 0..MaxMappings /\ r \in 0..MaxRules
  BY <1>1, RecordFields, ConstantsAssumption DEF MInv, IInv, TypeOK, Rule
<1>. DEFINE req == Request("delete rule", m, r, Nothing, Nothing, FALSE)
<1>3. Starts(w, "find", m, req) /\ "find" \in Steps
  BY <1>1 DEF BeginDeleteRule, Steps
<1>4. req \in Requests
  BY <1>2, RecordTypes DEF Kinds
<1>5. req.mapping = m /\ req.kind = "delete rule"
  BY DEF Request
<1>. HIDE DEF req
<1>6. pc'[w] = "find" /\ request'[w] = req /\ UNCHANGED <<store, oci>>
  BY <1>3, <1>4, StartsValues DEF MInv
<1>7. ASSUME m \in Mapping, Managed(m) PROVE StepOK(w, m)'
  <2>1. RulesFor(m)' = Linked(m)' /\ Follows(m)'
    BY <1>6, <1>7, StoreKept, KeptRules DEF Managed
  <2>. QED BY <1>5, <1>6, <2>1 DEF StepOK
<1>. QED BY <1>4, <1>5, <1>7, <1>3, StartStep

-----------------------------------------------------------------------------
(* The steps that change neither mappings nor rules, for OneManagedRule.   *)

LEMMA EndsPc ==
  ASSUME IInv, NEW w \in Workers, NEW from, Ends(w, from)
  PROVE  OnlyMoves(w) /\ pc[w] = from /\ pc'[w] = "idle"
BY EndsValues DEF Ends, Go, IInv, TypeOK

LEMMA GoesOn ==
  ASSUME IInv, NEW w \in Workers, NEW from, NEW step \in Steps, Go(w, from, step), UNCHANGED request
  PROVE  OnlyMoves(w) /\ pc[w] = from /\ pc'[w] = step /\ request'[w] = request[w]
BY Moves DEF Go

\* Every mapping, and the rules it has, are as before.
LEMMA ReadStep ==
  ASSUME MInv, IInv', NEW w \in Workers, OnlyMoves(w), disturbed \subseteq disturbed',
         UNCHANGED <<store, oci>>, pc[w] # "idle",
         pc'[w] # "idle" => request'[w] = request[w],
         \A m \in Mapping : m = request[w].mapping /\ m \notin disturbed' /\ StepOK(w, m) =>
           IF pc'[w] = "idle" THEN Managed(m) ELSE StepOK(w, m)'
  PROVE  MInv'
<1>1. \A k \in Mapping : KeepsMapping(k) /\ (Managed(k)' <=> Managed(k))
  BY StoreKept, KeptRules
<1>2. \A m \in Mapping : m = request[w].mapping /\ m \notin disturbed' /\ StepOK(w, m) =>
        IF pc'[w] = "idle" THEN Managed(m)' ELSE StepOK(w, m)'
  BY <1>1
<1>. QED BY <1>1, <1>2, WorkStep

LEMMA ValidateMInv ==
  ASSUME MInv, IInv', NEW w \in Workers, Validate(w)
  PROVE  MInv'
<1>1. IInv /\ UNCHANGED <<store, oci, disturbed>>
  BY DEF MInv, Validate
<1>2. CASE Ends(w, "validate")
  <2>1. OnlyMoves(w) /\ pc[w] = "validate" /\ pc'[w] = "idle"
    BY <1>1, <1>2, EndsPc
  <2>. QED BY <1>1, <2>1, ReadStep DEF StepOK
<1>3. CASE Go(w, "validate", "save") /\ UNCHANGED request
  <2>1. OnlyMoves(w) /\ pc[w] = "validate" /\ pc'[w] = "save" /\ request'[w] = request[w]
    BY <1>1, <1>3, GoesOn DEF Steps
  <2>2. ASSUME NEW m \in Mapping, StepOK(w, m) PROVE StepOK(w, m)'
    <3>1. Managed(m) /\ request[w].rule = mappings[m].rule
      BY <2>1, <2>2 DEF StepOK
    <3>2. Managed(m)' /\ request'[w].rule = mappings'[m].rule
      BY <1>1, <2>1, <3>1, StoreKept, KeptRules DEF store
    <3>. QED BY <2>1, <3>2 DEF StepOK
  <2>. QED BY <1>1, <2>1, <2>2, ReadStep
<1>. QED BY <1>2, <1>3 DEF Validate

LEMMA CheckRuleMInv ==
  ASSUME MInv, IInv', NEW w \in Workers, CheckRule(w)
  PROVE  MInv'
<1>. DEFINE r == request[w].rule
<1>1. IInv /\ UNCHANGED <<store, oci, disturbed>>
  BY DEF MInv, CheckRule
<1>2. CASE (Alive(r) => rules[r].stream # request[w].stream) /\ Ends(w, "check")
  <2>1. OnlyMoves(w) /\ pc[w] = "check" /\ pc'[w] = "idle"
    BY <1>1, <1>2, EndsPc
  <2>2. ASSUME NEW m \in Mapping, StepOK(w, m) PROVE Managed(m)
    <3>1. SavedAs(w, m) /\ RulesFor(m) = {r} /\ mappings[m].rule = r
      BY <2>1, <2>2 DEF StepOK
    <3>2. Alive(r) /\ r # 0
      BY <3>1 DEF RulesFor, Alive, Rule
    <3>. QED BY <1>2, <3>1, <3>2 DEF Managed, Linked, Follows, SavedAs
  <2>. QED BY <1>1, <2>1, <2>2, ReadStep
<1>3. CASE ~Alive(r) /\ Go(w, "check", "create") /\ UNCHANGED request
  <2>1. OnlyMoves(w) /\ pc[w] = "check" /\ pc'[w] = "create" /\ request'[w] = request[w]
    BY <1>1, <1>3, GoesOn DEF Steps
  <2>2. ASSUME NEW m \in Mapping, StepOK(w, m) PROVE FALSE
    <3>1. RulesFor(m) = {r}
      BY <2>1, <2>2 DEF StepOK
    <3>. QED BY <1>3, <3>1 DEF RulesFor
  <2>. QED BY <1>1, <2>1, <2>2, ReadStep
<1>4. CASE Go(w, "check", "update") /\ UNCHANGED request
  <2>1. OnlyMoves(w) /\ pc[w] = "check" /\ pc'[w] = "update" /\ request'[w] = request[w]
    BY <1>1, <1>4, GoesOn DEF Steps
  <2>2. ASSUME NEW m \in Mapping, StepOK(w, m) PROVE StepOK(w, m)'
    <3>1. SavedAs(w, m) /\ RulesFor(m) = {r} /\ mappings[m].rule = r
      BY <2>1, <2>2 DEF StepOK
    <3>2. SavedAs(w, m)' /\ RulesFor(m)' = {request'[w].rule} /\ mappings'[m].rule = request'[w].rule
      BY <1>1, <2>1, <3>1, StoreKept, KeptRules DEF store, SavedAs
    <3>. QED BY <2>1, <3>2 DEF StepOK
  <2>. QED BY <1>1, <2>1, <2>2, ReadStep
<1>. QED BY <1>2, <1>3, <1>4 DEF CheckRule

LEMMA FindRuleMInv ==
  ASSUME MInv, IInv', NEW w \in Workers, FindRule(w)
  PROVE  MInv'
<1>. DEFINE r == request[w].rule
<1>1. IInv /\ UNCHANGED <<store, oci, disturbed>>
  BY DEF MInv, FindRule
<1>2. CASE Go(w, "find", "remove")
  <2>1. OnlyMoves(w) /\ pc[w] = "find" /\ pc'[w] = "remove" /\ request'[w] = request[w]
    BY <1>1, <1>2, GoesOn DEF FindRule, Steps
  <2>2. ASSUME NEW m \in Mapping, m = request[w].mapping, StepOK(w, m) PROVE StepOK(w, m)'
    <3>1. /\ IF request[w].kind = "delete rule" THEN Follows(m) ELSE r = mappings[m].rule
          /\ RulesFor(m) = Linked(m)
      BY <2>1, <2>2 DEF StepOK
    <3>2. /\ IF request'[w].kind = "delete rule" THEN Follows(m)' ELSE request'[w].rule = mappings'[m].rule
          /\ RulesFor(m)' = Linked(m)'
      BY <1>1, <2>1, <3>1, StoreKept, KeptRules DEF store
    <3>. QED BY <2>1, <3>2 DEF StepOK
  <2>. QED BY <1>1, <2>1, <2>2, ReadStep
<1>3. CASE ~Alive(r) /\ Go(w, "find", "unlink")
  <2>1. OnlyMoves(w) /\ pc[w] = "find" /\ pc'[w] = "unlink" /\ request'[w] = request[w]
    BY <1>1, <1>3, GoesOn DEF FindRule, Steps
  <2>2. ASSUME NEW m \in Mapping, StepOK(w, m) PROVE StepOK(w, m)'
    <3>1. /\ IF request[w].kind = "delete rule" THEN Follows(m) ELSE r = mappings[m].rule
          /\ RulesFor(m) = Linked(m)
      BY <2>1, <2>2 DEF StepOK
    <3>2. RulesFor(m) = Linked(m) \ {r}
      BY <1>3, <3>1 DEF RulesFor
    <3>3. /\ IF request'[w].kind = "delete rule" THEN Follows(m)' ELSE request'[w].rule = mappings'[m].rule
          /\ RulesFor(m)' = Linked(m)' \ {request'[w].rule}
      BY <1>1, <2>1, <3>1, <3>2, StoreKept, KeptRules DEF store
    <3>. QED BY <2>1, <3>3 DEF StepOK
  <2>. QED BY <1>1, <2>1, <2>2, ReadStep
<1>. QED BY <1>2, <1>3 DEF FindRule

LEMMA BreaksOffMInv ==
  ASSUME MInv, IInv', NEW w \in Workers, BreaksOff(w)
  PROVE  MInv'
<1>1. Ends(w, pc[w]) /\ UNCHANGED <<store, oci>> /\ pc[w] # "idle" /\ disturbed \subseteq disturbed'
  BY DEF BreaksOff, Ends, Go
<1>2. OnlyMoves(w) /\ pc'[w] = "idle"
  BY <1>1, EndsPc DEF MInv
<1>3. \A m \in Mapping : m = request[w].mapping => m \in disturbed'
  BY DEF BreaksOff
<1>. QED BY <1>1, <1>2, <1>3, ReadStep

-----------------------------------------------------------------------------
(* The steps that change mappings, for OneManagedRule.                     *)

\* A step that writes the row of the mapping it works on, if that.
LEMMA RowStep ==
  ASSUME MInv, IInv', NEW w \in Workers, OnlyMoves(w), UNCHANGED <<oci, disturbed>>,
         pc[w] # "idle",
         pc'[w] # "idle" => request'[w].mapping = request[w].mapping,
         \A k \in Mapping : k # request[w].mapping => mappings'[k] = mappings[k],
         \A m \in Mapping : m = request[w].mapping /\ StepOK(w, m) =>
           IF pc'[w] = "idle" THEN Managed(m)' ELSE StepOK(w, m)'
  PROVE  MInv'
<1>1. \A k \in Mapping : k # request[w].mapping => KeepsMapping(k)
  BY DEF KeepsMapping, oci
<1>. QED BY <1>1, WorkStep

\* A rule that was created has the tag of a mapping that was added.
LEMMA RuleTags ==
  ASSUME IInv, NEW r \in Rule, Alive(r)
  PROVE  rules[r].tag \in 1..(nextMapping - 1)
<1>1. IF r < nextRule THEN rules[r].tag \in 1..(nextMapping - 1) ELSE rules[r] = NoRule
  BY DEF IInv, TypeOK
<1>2. NoRule.condition = Nothing
  BY DEF NoRule, EventRule
<1>. QED BY <1>1, <1>2 DEF Alive

LEMMA InsertMInv ==
  ASSUME MInv, IInv', NEW w \in Workers, Insert(w)
  PROVE  MInv'
<1>0. PICK n : n = nextMapping
  OBVIOUS
<1>1. n \in Mapping /\ n \in 0..MaxMappings /\ 0 \in 0..MaxRules /\ IInv
  BY <1>0, ConstantsAssumption DEF Insert, Mapping, MInv
<1>2. /\ OnlyMoves(w) /\ pc[w] = "save" /\ Saves(w, n) /\ disturbed' = disturbed
      /\ rules' = rules /\ request[w].kind = "add"
      /\ mappings' = [mappings EXCEPT ![n] = MappingRow(request[w].scope, request[w].stream, 0)]
  BY <1>0, <1>1, SavesValues DEF Insert, oci
<1>3. request[w].mapping = 0 /\ request[w].rule = 0
  BY <1>1, <1>2, CurrentTypes DEF RequestOK
<1>4. mappings'[n] = MappingRow(request[w].scope, request[w].stream, 0)
  BY <1>1, <1>2 DEF IInv, TypeOK
<1>5. RulesFor(n)' = {} /\ RulesFor(n) = {}
  <2>1. \A r \in Rule : Alive(r) => rules[r].tag # n
    BY <1>0, <1>1, RuleTags
  <2>. QED BY <1>2, <2>1 DEF RulesFor, Alive
<1>6. \A v \in Workers : ~Busy(v, n)
  <2> SUFFICES ASSUME NEW v \in Workers, pc[v] # "idle", request[v].mapping = n PROVE FALSE
    BY DEF Busy
  <2>1. RequestOK(v) /\ pc[v] \in Steps /\ n # 0
    BY <1>1, CurrentTypes DEF Mapping
  <2>2. n \notin 1..(nextMapping - 1)
    BY <1>0, <1>1 DEF Mapping
  <2>. QED BY <2>1, <2>2 DEF RequestOK, Steps
<1>7. IF Busy(w, n)' THEN StepOK(w, n)' ELSE Managed(n)'
  <2>1. Managed(n)'
    BY <1>4, <1>5 DEF Managed, Linked, Follows, MappingRow
  <2>2. ASSUME Busy(w, n)' PROVE StepOK(w, n)'
    <3>1. pc'[w] # "idle"
      BY <2>2 DEF Busy
    <3>2. ~Ends(w, "save")
      BY <1>1, <3>1, EndsPc
    <3>3. Go(w, "save", AfterSave(w)) /\ Learns(w, n, 0) /\ AfterSave(w) # "idle"
      BY <1>2, <1>3, <3>2 DEF Saves
    <3>4. AfterSave(w) = "create"
      BY <1>3, <3>3 DEF AfterSave
    <3>5. pc'[w] = "create" /\ request'[w].scope = request[w].scope /\ request'[w].stream = request[w].stream
      BY <1>1, <3>3, <3>4, LearnsValues DEF Steps
    <3>. QED BY <1>4, <1>5, <3>5 DEF StepOK, SavedAs, MappingRow
  <2>. QED BY <2>1, <2>2
<1> SUFFICES ASSUME NEW k \in Mapping PROVE Undisturbed(k)'
  BY DEF MInv
<1>8. Undisturbed(k)
  BY DEF MInv
<1>9. CASE k = n
  BY <1>2, <1>6, <1>7, <1>8, <1>9, OwnMapping
<1>10. CASE k # n
  <2>1. KeepsMapping(k)
    BY <1>2, <1>10 DEF KeepsMapping, IInv, TypeOK
  <2>2. ~Busy(w, k)
    BY <1>3 DEF Busy, Mapping
  <2>3. ~Busy(w, k)'
    <3>1. CASE Ends(w, "save")
      BY <1>1, <3>1, EndsPc DEF Busy
    <3>2. CASE ~Ends(w, "save")
      <4>1. Go(w, "save", AfterSave(w)) /\ Learns(w, n, 0) /\ AfterSave(w) # "idle"
        BY <1>2, <1>3, <3>2 DEF Saves
      <4>2. AfterSave(w) \in Steps
        BY DEF AfterSave, Steps
      <4>3. request'[w].mapping = n
        BY <1>1, <4>1, <4>2, LearnsValues
      <4>. QED BY <1>10, <4>3 DEF Busy
    <3>. QED BY <3>1, <3>2
  <2>. QED BY <1>2, <1>8, <2>1, <2>2, <2>3, OtherMapping
<1>. QED BY <1>9, <1>10

LEMMA UpdateMInv ==
  ASSUME MInv, IInv', NEW w \in Workers, Update(w)
  PROVE  MInv'
<1>1. PICK m : m = request[w].mapping
  OBVIOUS
<1>2. IInv /\ UNCHANGED <<oci, disturbed>> /\ nextMapping' = nextMapping /\ request[w].kind = "edit"
  BY DEF MInv, Update
<1>3. CASE Ends(w, "save") /\ UNCHANGED mappings
  <2>1. OnlyMoves(w) /\ pc[w] = "save" /\ pc'[w] = "idle"
    BY <1>2, <1>3, EndsPc
  <2>2. UNCHANGED <<store, oci>>
    BY <1>2, <1>3 DEF store
  <2>. QED BY <1>2, <2>1, <2>2, ReadStep DEF StepOK
<1>4. CASE /\ Exists(m) /\ Saves(w, m)
           /\ mappings' = [mappings EXCEPT ![m] = MappingRow(request[w].scope, request[w].stream, @.rule)]
  <2>1. m \in Mapping /\ m \in 0..MaxMappings
    BY <1>2, <1>4, MappingRequestOK DEF Exists
  <2>2. OnlyMoves(w) /\ pc[w] = "save"
    BY <1>2, <1>4, <2>1, SavesValues
  <2>3. /\ mappings'[m] = MappingRow(request[w].scope, request[w].stream, mappings[m].rule)
        /\ \A k \in Mapping : k # m => mappings'[k] = mappings[k]
    BY <1>2, <1>4, <2>1 DEF IInv, TypeOK
  <2>4. /\ mappings'[m].scope = request[w].scope /\ mappings'[m].stream = request[w].stream
        /\ mappings'[m].rule = mappings[m].rule
    BY <2>3 DEF MappingRow
  <2>5. RulesFor(m)' = RulesFor(m) /\ Linked(m)' = Linked(m)
    BY <1>2, <2>4 DEF oci, RulesFor, Alive, Linked
  <2>6. CASE AfterSave(w) = "idle" /\ Ends(w, "save")
    <3>1. pc'[w] = "idle"
      BY <1>2, <2>6, EndsPc
    <3>2. ASSUME StepOK(w, m) PROVE Managed(m)'
      <4>1. RulesFor(m) = Linked(m) /\ request[w].rule = mappings[m].rule
        BY <2>2, <3>2 DEF StepOK, Managed
      <4>2. request[w].rule = 0
        BY <1>2, <2>6, CurrentRequest DEF AfterSave
      <4>3. RulesFor(m) = {}
        BY <4>1, <4>2 DEF Linked
      <4>. QED BY <2>5, <4>1, <4>3 DEF Managed, Follows
    <3>. QED BY <1>1, <1>2, <2>2, <2>3, <3>1, <3>2, RowStep
  <2>7. CASE Go(w, "save", AfterSave(w)) /\ Learns(w, m, request[w].rule) /\ AfterSave(w) # "idle"
    <3>1. AfterSave(w) \in {"create", "check", "find"} /\ request[w].rule \in 0..MaxRules
      BY <1>2, <2>7, CurrentRequest DEF AfterSave
    <3>2. AfterSave(w) \in Steps
      BY <3>1 DEF Steps
    <3>3. /\ pc'[w] = AfterSave(w) /\ request'[w].mapping = m /\ request'[w].rule = request[w].rule
          /\ request'[w].kind = "edit" /\ request'[w].scope = request[w].scope
          /\ request'[w].stream = request[w].stream
      BY <1>2, <2>1, <2>7, <3>1, <3>2, LearnsValues
    <3>4. ASSUME StepOK(w, m) PROVE StepOK(w, m)'
      <4>1. /\ RulesFor(m)' = Linked(m) /\ Linked(m)' = Linked(m)
            /\ request'[w].rule = mappings'[m].rule /\ mappings'[m].rule = mappings[m].rule
        BY <2>2, <2>4, <2>5, <3>3, <3>4 DEF StepOK, Managed
      <4>2. SavedAs(w, m)'
        BY <2>4, <3>3 DEF SavedAs
      <4>3. AfterSave(w) = "create" => request[w].rule = 0
        BY DEF AfterSave
      <4>4. AfterSave(w) = "check" => request[w].rule # 0
        BY DEF AfterSave
      <4>5. AfterSave(w) = "create" => RulesFor(m)' = {}
        BY <4>1, <4>3, <3>3 DEF Linked
      <4>6. AfterSave(w) = "check" => RulesFor(m)' = {request'[w].rule}
        BY <4>1, <4>4, <3>3 DEF Linked
      <4>. QED BY <3>1, <3>3, <4>1, <4>2, <4>5, <4>6 DEF StepOK
    <3>5. pc'[w] # "idle"
      BY <3>1, <3>3
    <3>. QED BY <1>1, <1>2, <2>2, <2>3, <3>3, <3>4, <3>5, RowStep
  <2>. QED BY <1>4, <2>6, <2>7 DEF Saves
<1>. QED BY <1>1, <1>3, <1>4 DEF Update

LEMMA LinkMInv ==
  ASSUME MInv, IInv', NEW w \in Workers, Link(w)
  PROVE  MInv'
<1>1. PICK m : m = request[w].mapping
  OBVIOUS
<1>2. PICK r : r = request[w].rule
  OBVIOUS
<1>3. IInv /\ UNCHANGED <<oci, disturbed>> /\ mappings' = WithRule(m, r)
  BY <1>1, <1>2 DEF MInv, Link
<1>4. OnlyMoves(w) /\ pc[w] = "link" /\ pc'[w] = "idle"
  BY <1>3, EndsPc DEF Link
<1>5. \A k \in Mapping : k # m => mappings'[k] = mappings[k]
  BY <1>3 DEF WithRule, IInv, TypeOK
<1>6. ASSUME m \in Mapping, StepOK(w, m) PROVE Managed(m)'
  <2>1. /\ SavedAs(w, m) /\ RulesFor(m) = {r}
        /\ rules[r].condition = ConditionOf[request[w].scope]
    BY <1>2, <1>4, <1>6 DEF StepOK
  <2>2. r # 0
    BY <2>1 DEF RulesFor, Rule
  <2>3. mappings'[m] = MappingRow(mappings[m].scope, mappings[m].stream, r)
    <3>1. mappings[m].scope \in Scopes
      BY <1>1, <1>2, <1>3, <1>4, <2>1, CurrentTypes DEF RequestOK, SavedAs
    <3>2. Exists(m)
      BY <1>6, <3>1, ConstantsAssumption DEF Exists, NoMapping, MappingRow
    <3>. QED BY <1>3, <1>6, <3>2 DEF WithRule, IInv, TypeOK
  <2>4. /\ mappings'[m].scope = request[w].scope /\ mappings'[m].rule = r
    BY <2>1, <2>3 DEF MappingRow, SavedAs
  <2>5. RulesFor(m)' = {r} /\ rules' = rules
    BY <1>3, <2>1 DEF oci, RulesFor, Alive
  <2>. QED BY <2>1, <2>2, <2>4, <2>5 DEF Managed, Linked, Follows
<1>. QED BY <1>1, <1>3, <1>4, <1>5, <1>6, RowStep

LEMMA UnlinkMInv ==
  ASSUME MInv, IInv', NEW w \in Workers, Unlink(w)
  PROVE  MInv'
<1>1. PICK m : m = request[w].mapping
  OBVIOUS
<1>2. PICK r : r = request[w].rule
  OBVIOUS
<1>3. IInv /\ UNCHANGED <<oci, disturbed>>
  BY DEF MInv, Unlink
<1>4. OnlyMoves(w) /\ pc[w] = "unlink" /\ pc'[w] = "idle"
  BY <1>3, EndsPc DEF Unlink
<1>5. request[w].kind \in {"edit", "delete", "delete rule"} /\ (r # 0 => rules[r].tag = m)
  BY <1>1, <1>2, <1>3, <1>4, CurrentTypes DEF RequestOK
<1>6. ASSUME StepOK(w, m)
      PROVE  /\ RulesFor(m)' = Linked(m) \ {r}
             /\ IF request[w].kind = "delete rule" THEN Follows(m) ELSE r = mappings[m].rule
  <2>1. RulesFor(m)' = RulesFor(m)
    BY <1>3 DEF oci, RulesFor, Alive
  <2>. QED BY <1>2, <1>4, <1>6, <2>1 DEF StepOK
<1>7. CASE request[w].kind \in {"edit", "delete"}
  <2>1. \A k \in Mapping : k # m => mappings'[k] = mappings[k]
    BY <1>1, <1>3, <1>7 DEF Unlink, WithRule, IInv, TypeOK
  <2>2. m \in Mapping => mappings'[m].rule = 0
    <3>1. mappings' = WithRule(m, 0) \/ mappings' = [mappings EXCEPT ![m] = NoMapping]
      BY <1>1, <1>7 DEF Unlink
    <3>. QED BY <1>3, <3>1, EmptyRecords DEF WithRule, Exists, MappingRow, IInv, TypeOK
  <2>3. ASSUME m \in Mapping, StepOK(w, m) PROVE Managed(m)'
    <3>1. RulesFor(m)' = {}
      BY <1>6, <1>7, <2>3 DEF Linked
    <3>. QED BY <2>2, <2>3, <3>1 DEF Managed, Linked, Follows
  <2>. QED BY <1>1, <1>3, <1>4, <2>1, <2>3, RowStep
<1>8. CASE request[w].kind = "delete rule"
  <2>1. mappings' = WithoutRule(r) /\ r # 0
    <3>1. mappings' = WithoutRule(r)
      BY <1>2, <1>8 DEF Unlink
    <3>2. r # 0
      BY <1>2, <1>3, <1>4, <1>8, CurrentTypes DEF RequestOK
    <3>. QED BY <3>1, <3>2
  <2>2. \A k \in Mapping : k # m => mappings'[k] = mappings[k]
    BY <1>3, <1>5, <2>1 DEF WithoutRule, IInv, RuleTagged
  <2>3. ASSUME m \in Mapping, StepOK(w, m) PROVE Managed(m)'
    <3>1. RulesFor(m)' = Linked(m) \ {r} /\ Follows(m) /\ rules' = rules
      BY <1>3, <1>6, <1>8, <2>3 DEF oci
    <3>2. /\ mappings'[m].scope = mappings[m].scope /\ mappings'[m].stream = mappings[m].stream
          /\ mappings'[m].rule = IF mappings[m].rule = r THEN 0 ELSE mappings[m].rule
      BY <2>1, <2>3 DEF WithoutRule, MappingRow
    <3>3. RulesFor(m)' = Linked(m)'
      BY <3>1, <3>2 DEF Linked
    <3>4. RulesFor(m)' = RulesFor(m)
      BY <1>3 DEF oci, RulesFor, Alive
    <3>. QED BY <3>1, <3>2, <3>3, <3>4 DEF Managed, Follows
  <2>. QED BY <1>1, <1>3, <1>4, <2>2, <2>3, RowStep
<1>. QED BY <1>5, <1>7, <1>8

-----------------------------------------------------------------------------
(* The steps that change rules, for OneManagedRule.                        *)

\* One rule of the mapping that w works on is written, or a new one is.
LEMMA RuleStep ==
  ASSUME MInv, IInv', NEW w \in Workers, OnlyMoves(w), UNCHANGED <<store, disturbed>>,
         pc[w] # "idle", pc'[w] # "idle", request'[w].mapping = request[w].mapping,
         NEW r \in Rule, NEW rule, rules' = [rules EXCEPT ![r] = rule],
         rule.tag = request[w].mapping, rules[r].tag \in {0, request[w].mapping},
         \A m \in Mapping : m = request[w].mapping /\ StepOK(w, m) => StepOK(w, m)'
  PROVE  MInv'
<1>1. \A k \in Mapping : k # request[w].mapping => KeepsMapping(k)
  BY DEF KeepsMapping, store, Mapping, MInv, IInv, TypeOK
<1>. QED BY <1>1, WorkStep

\* The rules of the mapping after rule r of it was written.
LEMMA WrittenRules ==
  ASSUME IInv, NEW m \in Mapping, NEW r \in Rule, NEW rule,
         rules' = [rules EXCEPT ![r] = rule], rule.tag = m
  PROVE  RulesFor(m)' = IF rule.condition # Nothing THEN RulesFor(m) \cup {r} ELSE RulesFor(m) \ {r}
<1>1. \A k \in Rule : rules'[k] = IF k = r THEN rule ELSE rules[k]
  BY DEF IInv, TypeOK
<1>2. RulesFor(m)' = {k \in Rule : rules'[k].condition # Nothing /\ rules'[k].tag = m}
  BY DEF RulesFor, Alive
<1>3. RulesFor(m) = {k \in Rule : rules[k].condition # Nothing /\ rules[k].tag = m}
  BY DEF RulesFor, Alive
<1>. QED BY <1>1, <1>2, <1>3

LEMMA UpdateRuleMInv ==
  ASSUME MInv, IInv', NEW w \in Workers, UpdateRule(w)
  PROVE  MInv'
<1>1. PICK m, r : m = request[w].mapping /\ r = request[w].rule
  OBVIOUS
<1>2. IInv /\ UNCHANGED <<store, disturbed>> /\ nextRule' = nextRule
  BY DEF MInv, UpdateRule
<1>3. CASE Ends(w, "update") /\ ~Alive(r)
  <2>1. OnlyMoves(w) /\ pc[w] = "update" /\ pc'[w] = "idle" /\ rules' = rules
    BY <1>1, <1>2, <1>3, EndsPc DEF UpdateRule
  <2>2. ASSUME NEW k \in Mapping, k = m, StepOK(w, k) PROVE FALSE
    <3>1. RulesFor(k) = {r}
      BY <1>1, <2>1, <2>2 DEF StepOK
    <3>. QED BY <1>3, <3>1 DEF RulesFor
  <2>3. UNCHANGED <<store, oci>>
    BY <1>2, <2>1 DEF oci
  <2>. QED BY <1>1, <1>2, <2>1, <2>2, <2>3, ReadStep
<1>4. CASE /\ Alive(r) /\ Go(w, "update", "link") /\ UNCHANGED request
           /\ rules' = [rules EXCEPT ![r] = Wanted(w, m)]
  <2>1. OnlyMoves(w) /\ pc[w] = "update" /\ pc'[w] = "link" /\ request'[w] = request[w]
    BY <1>2, <1>4, GoesOn DEF Steps
  <2>2. r \in Rule /\ rules[r].tag = m /\ request[w].scope \in Scopes
    BY <1>1, <1>2, <1>4, <2>1, CurrentTypes DEF RequestOK, Alive
  <2>3. /\ Wanted(w, m).tag = m /\ Wanted(w, m).condition = ConditionOf[request[w].scope]
        /\ Wanted(w, m).condition # Nothing
    BY <2>2, ConstantsAssumption DEF Wanted, EventRule
  <2>4. ASSUME m \in Mapping, StepOK(w, m) PROVE StepOK(w, m)'
    <3>1. SavedAs(w, m) /\ RulesFor(m) = {r}
      BY <1>1, <2>1, <2>4 DEF StepOK
    <3>2. SavedAs(w, m)'
      BY <1>2, <2>1, <3>1 DEF store, SavedAs
    <3>3. RulesFor(m)' = {r}
      BY <1>2, <1>4, <2>2, <2>3, <2>4, <3>1, WrittenRules
    <3>4. rules'[r].condition = ConditionOf[request[w].scope]
      BY <1>2, <1>4, <2>2, <2>3 DEF IInv, TypeOK
    <3>. QED BY <1>1, <2>1, <3>2, <3>3, <3>4 DEF StepOK
  <2>. QED BY <1>1, <1>2, <1>4, <2>1, <2>2, <2>3, <2>4, RuleStep
<1>. QED BY <1>1, <1>3, <1>4 DEF UpdateRule

LEMMA CreateRuleMInv ==
  ASSUME MInv, IInv', NEW w \in Workers, CreateRule(w)
  PROVE  MInv'
<1>1. PICK m, r : m = request[w].mapping /\ r = nextRule
  OBVIOUS
<1>2. /\ IInv /\ UNCHANGED <<store, disturbed>> /\ r \in Rule
      /\ rules' = [rules EXCEPT ![r] = Wanted(w, m)]
      /\ Go(w, "create", "link") /\ Learns(w, m, r)
  BY <1>1 DEF MInv, CreateRule
<1>3. m \in 0..MaxMappings /\ r \in 0..MaxRules
  BY <1>1, <1>2, CurrentRequest, ConstantsAssumption DEF Rule
<1>4. /\ OnlyMoves(w) /\ pc[w] = "create" /\ pc'[w] = "link"
      /\ request'[w].mapping = m /\ request'[w].rule = r
      /\ request'[w].scope = request[w].scope /\ request'[w].stream = request[w].stream
  BY <1>2, <1>3, LearnsValues DEF Go, Steps
<1>5. request[w].scope \in Scopes
  BY <1>2, <1>4, CurrentTypes DEF RequestOK
<1>6. rules[r] = NoRule /\ NoRule.tag = 0
  <2>1. ~(r < nextRule)
    BY <1>1, <1>2 DEF Rule
  <2>. QED BY <1>2, <2>1 DEF IInv, TypeOK, NoRule, EventRule
<1>7. /\ Wanted(w, m).tag = m /\ Wanted(w, m).condition = ConditionOf[request[w].scope]
      /\ Wanted(w, m).condition # Nothing
  BY <1>5, ConstantsAssumption DEF Wanted, EventRule
<1>8. ASSUME m \in Mapping, StepOK(w, m) PROVE StepOK(w, m)'
  <2>1. SavedAs(w, m) /\ RulesFor(m) = {}
    BY <1>4, <1>8 DEF StepOK
  <2>2. SavedAs(w, m)'
    BY <1>2, <1>4, <2>1 DEF store, SavedAs
  <2>3. RulesFor(m)' = {r}
    BY <1>2, <1>7, <1>8, <2>1, WrittenRules
  <2>4. rules'[r].condition = ConditionOf[request[w].scope]
    BY <1>2, <1>7 DEF IInv, TypeOK
  <2>. QED BY <1>4, <2>2, <2>3, <2>4 DEF StepOK
<1>. QED BY <1>1, <1>2, <1>4, <1>6, <1>7, <1>8, RuleStep

LEMMA RemoveRuleMInv ==
  ASSUME MInv, IInv', NEW w \in Workers, RemoveRule(w)
  PROVE  MInv'
<1>1. PICK m, r : m = request[w].mapping /\ r = request[w].rule
  OBVIOUS
<1>2. IInv /\ UNCHANGED <<store, disturbed>> /\ nextRule' = nextRule
  BY DEF MInv, RemoveRule
<1>3. CASE Ends(w, "remove") /\ UNCHANGED rules /\ ~Alive(r)
  <2>1. OnlyMoves(w) /\ pc[w] = "remove" /\ pc'[w] = "idle" /\ UNCHANGED <<store, oci>>
    BY <1>2, <1>3, EndsPc DEF oci
  <2>2. r # 0
    BY <1>1, <1>2, <2>1, CurrentTypes DEF RequestOK
  <2>3. ASSUME NEW k \in Mapping, k = m, StepOK(w, k) PROVE Managed(k)
    <3>1. /\ IF request[w].kind = "delete rule" THEN Follows(k) ELSE r = mappings[k].rule
          /\ RulesFor(k) = Linked(k)
      BY <1>1, <2>1, <2>3 DEF StepOK
    <3>2. r = mappings[k].rule => RulesFor(k) = {r}
      BY <2>2, <3>1 DEF Linked
    <3>3. request[w].kind = "delete rule"
      BY <1>3, <3>1, <3>2 DEF RulesFor
    <3>. QED BY <3>1, <3>3 DEF Managed
  <2>. QED BY <1>1, <1>2, <2>1, <2>3, ReadStep
<1>4. CASE /\ Alive(r) /\ Go(w, "remove", "unlink") /\ UNCHANGED request
           /\ rules' = [rules EXCEPT ![r] = EventRule(rules[r].tag, Nothing, Nothing)]
  <2>1. OnlyMoves(w) /\ pc[w] = "remove" /\ pc'[w] = "unlink" /\ request'[w] = request[w]
    BY <1>2, <1>4, GoesOn DEF Steps
  <2>2. r \in Rule /\ r # 0 /\ rules[r].tag = m
    BY <1>1, <1>2, <1>4, <2>1, CurrentTypes DEF RequestOK, Alive
  <2>. DEFINE rule == EventRule(m, Nothing, Nothing)
  <2>3. rule.tag = m /\ rule.condition = Nothing /\ rules' = [rules EXCEPT ![r] = rule]
    BY <1>4, <2>2 DEF EventRule
  <2>. HIDE DEF rule
  <2>4. ASSUME m \in Mapping, StepOK(w, m) PROVE StepOK(w, m)'
    <3>1. /\ RulesFor(m) = Linked(m)
          /\ request[w].kind = "delete rule" => Follows(m)
      BY <1>1, <2>1, <2>4 DEF StepOK
    <3>2. mappings[m].rule = r
      BY <1>4, <2>2, <3>1 DEF RulesFor, Linked
    <3>3. RulesFor(m)' = {} /\ Linked(m)' = {r} /\ mappings'[m].rule = r
      <4>1. RulesFor(m)' = RulesFor(m) \ {r}
        BY <1>2, <2>2, <2>3, <2>4, WrittenRules
      <4>. QED BY <1>2, <2>2, <3>1, <3>2, <4>1 DEF store, Linked
    <3>4. Follows(m)'
      BY <3>3 DEF Follows
    <3>. QED BY <1>1, <2>1, <3>3, <3>4 DEF StepOK
  <2>. QED BY <1>1, <1>2, <2>1, <2>2, <2>3, <2>4, RuleStep
<1>. QED BY <1>1, <1>2, <1>3, <1>4 DEF RemoveRule

-----------------------------------------------------------------------------
LEMMA NextMInv == MInv /\ [Next]_vars => MInv'
<1> SUFFICES ASSUME MInv, [Next]_vars PROVE MInv'
  OBVIOUS
<1>1. IInv'
  BY NextIInv DEF MInv
<1>2. ASSUME NEW w \in Workers, Begin(w) PROVE MInv'
  BY <1>1, <1>2, BeginAddMInv, BeginEditMInv, BeginDeleteMInv, BeginDeleteRuleMInv DEF Begin
<1>3. CASE UNCHANGED vars
  <2>1. \A v \in Workers, m \in Mapping :
          KeepsMapping(m) /\ pc'[v] = pc[v] /\ request'[v] = request[v] /\ (Busy(v, m)' <=> Busy(v, m))
    BY <1>3, StoreKept DEF vars, Busy
  <2> SUFFICES ASSUME NEW m \in Mapping PROVE Undisturbed(m)'
    BY <1>1 DEF MInv
  <2>2. \A v \in Workers : StepOK(v, m) => StepOK(v, m)'
    BY <2>1, KeptStep
  <2>3. Managed(m)' <=> Managed(m)
    BY <1>3, StoreKept, KeptRules DEF vars
  <2>4. Undisturbed(m) /\ disturbed' = disturbed
    BY <1>3 DEF MInv, vars
  <2>. QED BY <2>1, <2>2, <2>3, <2>4 DEF Undisturbed
<1>. QED
  BY <1>1, <1>2, <1>3, ValidateMInv, InsertMInv, UpdateMInv, CheckRuleMInv, UpdateRuleMInv,
     CreateRuleMInv, LinkMInv, FindRuleMInv, RemoveRuleMInv, UnlinkMInv, BreaksOffMInv
     DEF Next

LEMMA SpecMInv == Spec => []MInv
BY InitMInv, NextMInv, PTL DEF Spec

\* "The one managed OCI rule owned by a mapping" of ensure_mapping_rule: as
\* long as the requests on a mapping neither overlap nor break off, OCI has
\* the rule the mapping refers to and no other for it, with any number of
\* workers busy on other mappings and rules.
THEOREM SpecOneManagedRule == Spec => []OneManagedRule
<1>1. MInv => OneManagedRule
  BY DEF MInv, Undisturbed, OneManagedRule, Settled, Managed, Linked
<1>. QED BY <1>1, SpecMInv, PTL

\* ... and it selects the objects of the mapping as it was saved last, unless
\* it still feeds the stream the mapping had before.
THEOREM SpecRuleFollowsMapping == Spec => []RuleFollowsMapping
<1>1. MInv => RuleFollowsMapping
  BY DEF MInv, Undisturbed, RuleFollowsMapping, Settled, Managed, Follows
<1>. QED BY <1>1, SpecMInv, PTL
=============================================================================
