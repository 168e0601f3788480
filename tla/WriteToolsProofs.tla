-------------------------- MODULE WriteToolsProofs --------------------------
(***************************************************************************)
(* The write tools (tools_write.py to write_client.py): what becomes of a  *)
(* call, for any modes, keys and number of tries.                          *)
(***************************************************************************)
EXTENDS WriteTools, SequenceTheorems, TLAPS

-----------------------------------------------------------------------------
(* Looking up a row in a table that is put together from parts.            *)
LEMMA RowOfOne ==
    ASSUME NEW tables, NEW t \in tables, NEW x \in DOMAIN t,
           \A s \in tables : x \in DOMAIN s => s = t
    PROVE  x \in DOMAIN Joined(tables) /\ Joined(tables)[x] = t[x]
BY DEF Joined

LEMMA RowsOfAll ==
    ASSUME NEW tables PROVE DOMAIN Joined(tables) = UNION {DOMAIN t : t \in tables}
BY DEF Joined

(* What a call of Calls looks like.                                        *)
LEMMA CallShape ==
    ASSUME NEW c \in Calls
    PROVE  /\ c.tool \in Tools
           /\ c.args \in Given(c.tool)
           /\ Schemas[c.tool].required \subseteq c.args
           /\ c.args \subseteq Schemas[c.tool].required \cup Schemas[c.tool].optional
           /\ c.args \cap (Credential \ Credentials) \subseteq Schemas[c.tool].required
           /\ c.mode \in IF "mode" \in c.args THEN Modes ELSE {"create"}
           /\ c.key \in IF "idempotency_key" \in c.args THEN Keys ELSE {"generated"}
           /\ c.idMatches \in IF "id" \in c.args THEN BOOLEAN ELSE {TRUE}
           /\ c = [tool |-> c.tool, args |-> c.args, mode |-> c.mode, key |-> c.key,
                   idMatches |-> c.idMatches]
<1>0. PICK t \in Tools : \E g \in Given(t) : c \in CallsWith(t, g)
  BY DEF Calls
<1>1. PICK g \in Given(t) : c \in CallsWith(t, g)
  BY <1>0
<1>2. PICK S \in SUBSET (Schemas[t].optional \ (Credential \ Credentials)) :
          g = Schemas[t].required \cup S
  BY <1>1 DEF Given
<1>3. c.tool = t /\ c.args = g
  BY <1>1 DEF CallsWith
<1>4. QED  BY <1>1, <1>2, <1>3 DEF CallsWith

-----------------------------------------------------------------------------
(* The caller.  Only a key of Keys can be remembered, and a call that is   *)
(* sent with one is remembered once it is carried out.                     *)
Judged ==
    /\ Sent => ~ Refused(call)
    /\ last = "refused" => Refused(call)

Once ==
    SendsKey(call) /\ KeyOf(call) \in Keys =>
        effects <= 1 /\ (effects = 1 => KeyOf(call) \in remembered)

WInv == call \in Calls /\ TypeOK /\ Judged /\ Once

LEMMA CallsAreTyped == call \in Calls =>
    call \in [tool : Tools, args : SUBSET UNION {UNION Given(t) : t \in Tools},
              mode : Modes \cup {"create"}, key : Keys \cup {"generated"},
              idMatches : BOOLEAN]
<1> SUFFICES ASSUME call \in Calls
             PROVE  call \in [tool : Tools, args : SUBSET UNION {UNION Given(t) : t \in Tools},
                              mode : Modes \cup {"create"}, key : Keys \cup {"generated"},
                              idMatches : BOOLEAN]
  OBVIOUS
<1>1. call.tool \in Tools /\ call.args \in Given(call.tool)
  BY CallShape
<1>2. call.args \in SUBSET UNION {UNION Given(t) : t \in Tools}
  BY <1>1
<1>3. call.mode \in Modes \cup {"create"} /\ call.key \in Keys \cup {"generated"}
      /\ call.idMatches \in BOOLEAN
  BY CallShape
<1>4. call = [tool |-> call.tool, args |-> call.args, mode |-> call.mode, key |-> call.key,
              idMatches |-> call.idMatches]
  BY CallShape
<1>5. QED  BY <1>1, <1>2, <1>3, <1>4

LEMMA StartsUntried == Init => WInv
BY CallsAreTyped, TriesAssumption DEF Init, WInv, TypeOK, Judged, Once, Sent

LEMMA OneMore ==
    ASSUME NEW t \in Nat, NEW e \in Nat, NEW m \in Nat, e <= t, t < m
    PROVE  t + 1 \in 0..m /\ e \in 0..(t + 1) /\ e + 1 \in 0..(t + 1)
OBVIOUS

LEMMA TriedAgain == WInv /\ [Next]_vars => WInv'
<1> SUFFICES ASSUME WInv, [Next]_vars PROVE WInv'
  OBVIOUS
<1>1. call' = call
  BY DEF Next, Reject, CarryOut, Replay, Fail, Try, vars
<1>2. /\ Refused(call)' <=> Refused(call)
      /\ SendsKey(call)' <=> SendsKey(call)
      /\ KeyOf(call)' = KeyOf(call)
  BY <1>1
<1>0. tries \in 0..MaxTries /\ effects \in 0..tries /\ remembered \subseteq Keys
  BY DEF WInv, TypeOK
<1>a. tries \in Nat /\ effects \in Nat /\ tries <= MaxTries /\ effects <= tries
  BY <1>0, TriesAssumption
<1>3. TypeOK'
  <2>1. /\ tries' \in 0..MaxTries /\ effects' \in 0..tries'
        /\ remembered' \subseteq Keys
        /\ last' \in {"none", "refused", "answered", "no answer"}
    <3>1. CASE Reject
      BY <1>0, <3>1, TriesAssumption DEF Reject, Try
    <3>2. CASE CarryOut
      <4>1. tries' = tries + 1 /\ effects' = effects + 1 /\ tries < MaxTries
            /\ last' \in {"answered", "no answer"}
        BY <3>2 DEF CarryOut, Try
      <4>2. remembered' \subseteq Keys
        BY <1>0, <3>2 DEF CarryOut
      <4>3. QED  BY <1>a, <4>1, <4>2, TriesAssumption, OneMore
    <3>3. CASE Replay
      <4>1. tries' = tries + 1 /\ effects' = effects /\ tries < MaxTries
            /\ last' \in {"answered", "no answer"} /\ remembered' = remembered
        BY <3>3 DEF Replay, Try
      <4>2. QED  BY <1>0, <1>a, <4>1, TriesAssumption, OneMore
    <3>4. CASE Fail
      <4>1. tries' = tries + 1 /\ effects' = effects /\ tries < MaxTries
            /\ last' = "no answer" /\ remembered' = remembered
        BY <3>4 DEF Fail, Try
      <4>2. QED  BY <1>0, <1>a, <4>1, TriesAssumption, OneMore
    <3>5. CASE UNCHANGED vars
      BY <1>0, <3>5 DEF vars, WInv, TypeOK
    <3>6. QED  BY <3>1, <3>2, <3>3, <3>4, <3>5 DEF Next
  <2>2. QED  BY <1>1, <2>1 DEF WInv, TypeOK
<1>4. Judged'
  BY <1>2 DEF WInv, Judged, Sent, Next, Reject, CarryOut, Replay, Fail, Try, vars
<1>5. Once'
  <2>1. CASE CarryOut
    <3>1. effects \in Nat /\ effects' = effects + 1
      BY <1>a, <2>1 DEF CarryOut
    <3>2. SUFFICES ASSUME SendsKey(call), KeyOf(call) \in Keys
                   PROVE  effects' = 1 /\ KeyOf(call) \in remembered'
      BY <1>2, <3>1 DEF Once
    <3>3. KeyOf(call) \notin remembered /\ KeyOf(call) \in remembered'
      BY <2>1, <3>2 DEF CarryOut, Remembers
    <3>4. effects <= 1 /\ effects # 1
      BY <3>2, <3>3 DEF WInv, Once
    <3>5. QED  BY <3>1, <3>3, <3>4
  <2>2. CASE UNCHANGED <<effects, remembered>>
    BY <1>2, <2>2 DEF WInv, Once
  <2>3. QED  BY <2>1, <2>2 DEF Next, Reject, Replay, Fail, vars
<1>6. QED  BY <1>1, <1>3, <1>4, <1>5 DEF WInv

LEMMA CallerInductive == Spec => []WInv
BY StartsUntried, TriedAgain, PTL DEF Spec

-----------------------------------------------------------------------------
(* The rows of the four constant tables: which part each is in.            *)
LEMMA SchemaRows ==
    \A part \in {ProjectSchemas, RmdSchemas, GroupSchemas, FactTableSchemas,
                 FilterSchemas, RelationshipSchemas, AccessSchemas, TransferSchemas,
                 GitSchemas} :
        \A x \in DOMAIN part : x \in DOMAIN Schemas /\ Schemas[x] = part[x]
<1> DEFINE Parts == {ProjectSchemas, RmdSchemas, GroupSchemas, FactTableSchemas,
                     FilterSchemas, RelationshipSchemas, AccessSchemas, TransferSchemas,
                     GitSchemas}
<1>1. /\ DOMAIN ProjectSchemas = {"df_create_project", "df_update_project",
            "df_delete_project", "df_create_version", "df_update_version",
            "df_delete_version"}
      /\ DOMAIN RmdSchemas = {"df_write_measure", "df_write_dimension", "df_write_fact",
            "df_delete_measure", "df_delete_dimension", "df_delete_fact",
            "df_bulk_write_measures", "df_bulk_write_dimensions", "df_bulk_write_facts"}
      /\ DOMAIN GroupSchemas = {"df_write_dimension_group", "df_delete_dimension_group",
            "df_set_group_dimensions", "df_remove_group_dimension"}
      /\ DOMAIN FactTableSchemas = {"df_write_fact_table", "df_delete_fact_table",
            "df_assign_to_fact_table", "df_unassign_from_fact_table"}
      /\ DOMAIN FilterSchemas = {"df_write_verification_filter",
            "df_delete_verification_filter"}
      /\ DOMAIN RelationshipSchemas = {"df_write_relationship",
            "df_delete_relationship"}
      /\ DOMAIN AccessSchemas = {"df_set_project_access", "df_revoke_project_access",
            "df_transfer_project_ownership"}
      /\ DOMAIN TransferSchemas = {"df_export_version_to_git",
            "df_export_version_to_file", "df_check_import_source", "df_preview_import",
            "df_import_version_from_git", "df_import_version_from_file"}
      /\ DOMAIN GitSchemas = {"df_create_git_connection", "df_update_git_connection",
            "df_delete_git_connection", "df_test_git_connection"}
  BY DEF ProjectSchemas, RmdSchemas, GroupSchemas, FactTableSchemas, FilterSchemas,
         RelationshipSchemas, AccessSchemas, TransferSchemas, GitSchemas
<1>2. \A s, t \in Parts : \A x \in DOMAIN t : x \in DOMAIN s => s = t
  BY <1>1
<1>3. Schemas = Joined(Parts)
  BY DEF Schemas
<1> HIDE DEF Parts
<1>4. \A part \in Parts : \A x \in DOMAIN part : x \in DOMAIN Schemas /\ Schemas[x] = part[x]
  BY <1>2, <1>3, RowOfOne
<1>5. QED  BY <1>4 DEF Parts

LEMMA HandlerRows ==
    \A part \in {ProjectHandlers, RmdHandlers, ModelHandlers, TransferHandlers,
                 GitHandlers} :
        \A x \in DOMAIN part : x \in DOMAIN Handlers /\ Handlers[x] = part[x]
<1> DEFINE Parts == {ProjectHandlers, RmdHandlers, ModelHandlers, TransferHandlers,
                     GitHandlers}
<1>1. /\ DOMAIN ProjectHandlers = {"df_create_project", "df_update_project",
            "df_delete_project", "df_create_version", "df_update_version",
            "df_delete_version"}
      /\ DOMAIN RmdHandlers = {"df_write_measure", "df_write_dimension",
            "df_write_fact", "df_delete_measure", "df_delete_dimension",
            "df_delete_fact", "df_bulk_write_measures", "df_bulk_write_dimensions",
            "df_bulk_write_facts"}
      /\ DOMAIN ModelHandlers = {"df_write_dimension_group",
            "df_delete_dimension_group", "df_set_group_dimensions",
            "df_remove_group_dimension", "df_write_fact_table", "df_delete_fact_table",
            "df_assign_to_fact_table", "df_unassign_from_fact_table",
            "df_write_verification_filter", "df_delete_verification_filter",
            "df_write_relationship", "df_delete_relationship"}
      /\ DOMAIN TransferHandlers = {"df_set_project_access", "df_revoke_project_access",
            "df_transfer_project_ownership", "df_export_version_to_git",
            "df_export_version_to_file", "df_check_import_source", "df_preview_import",
            "df_import_version_from_git", "df_import_version_from_file"}
      /\ DOMAIN GitHandlers = {"df_create_git_connection", "df_update_git_connection",
            "df_delete_git_connection", "df_test_git_connection"}
  BY DEF ProjectHandlers, RmdHandlers, ModelHandlers, TransferHandlers, GitHandlers
<1>2. \A s, t \in Parts : \A x \in DOMAIN t : x \in DOMAIN s => s = t
  BY <1>1
<1>3. Handlers = Joined(Parts)
  BY DEF Handlers
<1> HIDE DEF Parts
<1>4. \A part \in Parts : \A x \in DOMAIN part : x \in DOMAIN Handlers /\ Handlers[x] = part[x]
  BY <1>2, <1>3, RowOfOne
<1>5. QED  BY <1>4 DEF Parts

LEMMA UseCaseRows ==
    \A part \in {ProjectUseCases, RmdUseCases, GroupUseCases, FactTableUseCases,
                 FilterUseCases, RelationshipUseCases, AccessUseCases, TransferUseCases,
                 GitUseCases} :
        \A x \in DOMAIN part : x \in DOMAIN UseCases /\ UseCases[x] = part[x]
<1> DEFINE Parts == {ProjectUseCases, RmdUseCases, GroupUseCases, FactTableUseCases,
                     FilterUseCases, RelationshipUseCases, AccessUseCases,
                     TransferUseCases, GitUseCases}
<1>1. /\ DOMAIN ProjectUseCases = {"df_create_project", "df_update_project",
            "df_delete_project", "df_create_version", "df_update_version",
            "df_delete_version"}
      /\ DOMAIN RmdUseCases = {"df_write_measure", "df_write_dimension",
            "df_write_fact", "df_delete_measure", "df_delete_dimension",
            "df_delete_fact", "df_bulk_write_measures", "df_bulk_write_dimensions",
            "df_bulk_write_facts"}
      /\ DOMAIN GroupUseCases = {"df_write_dimension_group",
            "df_delete_dimension_group", "df_set_group_dimensions",
            "df_remove_group_dimension"}
      /\ DOMAIN FactTableUseCases = {"df_write_fact_table", "df_delete_fact_table",
            "df_assign_to_fact_table", "df_unassign_from_fact_table"}
      /\ DOMAIN FilterUseCases = {"df_write_verification_filter",
            "df_delete_verification_filter"}
      /\ DOMAIN RelationshipUseCases = {"df_write_relationship",
            "df_delete_relationship"}
      /\ DOMAIN AccessUseCases = {"df_set_project_access", "df_revoke_project_access",
            "df_transfer_project_ownership"}
      /\ DOMAIN TransferUseCases = {"df_export_version_to_git",
            "df_export_version_to_file", "df_check_import_source", "df_preview_import",
            "df_import_version_from_git", "df_import_version_from_file"}
      /\ DOMAIN GitUseCases = {"df_create_git_connection", "df_update_git_connection",
            "df_delete_git_connection", "df_test_git_connection"}
  BY DEF ProjectUseCases, RmdUseCases, GroupUseCases, FactTableUseCases, FilterUseCases,
         RelationshipUseCases, AccessUseCases, TransferUseCases, GitUseCases
<1>2. \A s, t \in Parts : \A x \in DOMAIN t : x \in DOMAIN s => s = t
  BY <1>1
<1>3. UseCases = Joined(Parts)
  BY DEF UseCases
<1> HIDE DEF Parts
<1>4. \A part \in Parts : \A x \in DOMAIN part : x \in DOMAIN UseCases /\ UseCases[x] = part[x]
  BY <1>2, <1>3, RowOfOne
<1>5. QED  BY <1>4 DEF Parts

LEMMA BodyRows ==
    \A part \in {EntityBodies, OtherBodies} :
        \A x \in DOMAIN part : x \in DOMAIN Bodies /\ Bodies[x] = part[x]
<1> DEFINE Parts == {EntityBodies, OtherBodies}
<1>1. /\ DOMAIN EntityBodies = {"ProjectWrite", "VersionWrite", "MeasureWrite",
            "DimensionWrite", "FactWrite", "DimensionGroupWrite", "FactTableWrite",
            "VerificationFilterWrite", "RelationshipWrite"}
      /\ DOMAIN OtherBodies = {"MeasuresBulk", "DimensionsBulk", "FactsBulk",
            "GroupMembersBody", "ProjectAccessWrite", "TransferOwnerBody", "ElementIds",
            "ExportGitBody", "ExportFileBody", "ImportSourceBody", "ImportGitBody",
            "ImportForm", "GitConnectionWrite", "None"}
  BY DEF EntityBodies, OtherBodies
<1>2. \A s, t \in Parts : \A x \in DOMAIN t : x \in DOMAIN s => s = t
  BY <1>1
<1>3. Bodies = Joined(Parts)
  BY DEF Bodies
<1> HIDE DEF Parts
<1>4. \A part \in Parts : \A x \in DOMAIN part : x \in DOMAIN Bodies /\ Bodies[x] = part[x]
  BY <1>2, <1>3, RowOfOne
<1>5. QED  BY <1>4 DEF Parts



-----------------------------------------------------------------------------
(* What the four tables say of a tool together.                            *)
Req(t) == Schemas[t].required
Opt(t) == Schemas[t].optional
Names(t) == Handlers[t].names
BodyOf(t) == Bodies[UseCases[t].body]
Accepted(t) == BodyOf(t).required \cup BodyOf(t).optional
AsFields(t) ==
    IF Handlers[t].fields THEN (Req(t) \cup Opt(t)) \ (ControlKeys \cup Names(t)) ELSE {}
IntoBody(t) == AsFields(t) \cup (Names(t) \cap Accepted(t))
GitTransfers == {"df_export_version_to_git", "df_import_version_from_git"}
KeylessMethods ==
    {"export_version_to_file", "validate_import_source", "preview_import",
     "test_git_connection"}

MethodNames ==
    {"create_project", "update_project", "delete_project", "create_version",
     "update_version", "delete_version", "create_measure", "replace_measure",
     "update_measure", "delete_measure", "bulk_write_measures", "create_dimension",
     "replace_dimension", "update_dimension", "delete_dimension",
     "bulk_write_dimensions", "create_fact", "replace_fact", "update_fact",
     "delete_fact", "bulk_write_facts", "create_dimension_group",
     "replace_dimension_group", "update_dimension_group", "delete_dimension_group",
     "add_group_dimensions", "remove_group_dimension", "create_fact_table",
     "replace_fact_table", "update_fact_table", "delete_fact_table",
     "assign_to_fact_table", "unassign_from_fact_table", "create_relationship",
     "replace_relationship", "update_relationship", "delete_relationship",
     "set_project_access", "revoke_project_access", "transfer_project_ownership",
     "export_version_to_git", "export_version_to_file", "validate_import_source",
     "preview_import", "import_version_from_git", "import_version_from_file",
     "create_git_connection", "update_git_connection", "delete_git_connection",
     "test_git_connection", "create_verification_filter", "replace_verification_filter",
     "update_verification_filter", "delete_verification_filter"}

(* The key is optional and passed on; what the schema declares and the     *)
(* handler passes on, the strict body admits; what the body cannot do      *)
(* without, the schema requires or the mode asks for; an id in the body    *)
(* only comes with an id that is its target; credentials are asked of the  *)
(* tools that transfer to Git, which can give them; the key is dropped     *)
(* only where it is known to be, and every method is one of the client's.  *)
KeyAgrees(t) ==
    /\ "idempotency_key" \notin Req(t)
    /\ "idempotency_key" \in Opt(t) => "idempotency_key" \in Names(t)
    /\ \A m \in DOMAIN UseCases[t].methods :
          /\ UseCases[t].methods[m] \in MethodNames
          /\ UseCases[t].methods[m] \in KeylessMethods => t \in IgnoreTheKey

BodyAgrees(t) ==
    /\ AsFields(t) \subseteq Accepted(t)
    /\ BodyOf(t).required \subseteq Req(t) \cap IntoBody(t)
    /\ IF t \in GitTransfers
       THEN /\ UseCases[t].body \in NeedCredentials
            /\ "authentication" \in IntoBody(t) /\ Credential \cap Req(t) = {}
       ELSE UseCases[t].body \notin NeedCredentials

ModeAgrees(t) ==
    LET use == UseCases[t] IN
    /\ \/ use.mode = "any" /\ use.mode \in DOMAIN use.methods
       \/ /\ use.mode = "create" /\ use.mode \in DOMAIN use.methods
          /\ BodyOf(t).mandatory \subseteq Req(t) \cap IntoBody(t)
       \/ /\ use.mode = "update" /\ use.mode \in DOMAIN use.methods
          /\ use.target \in Req(t)
       \/ /\ use.mode = "given"
          /\ DOMAIN use.methods = {"create", "replace", "update"}
    /\ IF use.mode = "given"
       THEN /\ t \in DOMAIN TargetIds /\ use.target = TargetIds[t]
            /\ BodyOf(t).mandatory = MandatoryFields[t]
            /\ MandatoryFields[t] \subseteq IntoBody(t)
            /\ "mode" \in Opt(t)
       ELSE t \notin DOMAIN TargetIds /\ "id" \notin Opt(t)
    /\ "id" \notin Req(t)
    /\ "id" \in Opt(t) => "id" \in IntoBody(t)

Agree(t) == KeyAgrees(t) /\ BodyAgrees(t) /\ ModeAgrees(t)


LEMMA ProjectToolsAgree == \A t \in DOMAIN ProjectSchemas : Agree(t)
<1>1. DOMAIN ProjectSchemas = {"df_create_project", "df_update_project",
          "df_delete_project", "df_create_version", "df_update_version",
          "df_delete_version"}
  BY DEF ProjectSchemas
<1>2. \A t \in DOMAIN ProjectSchemas :
        /\ Schemas[t] = ProjectSchemas[t]
        /\ Handlers[t] = ProjectHandlers[t]
        /\ UseCases[t] = ProjectUseCases[t]
  BY <1>1, SchemaRows, HandlerRows, UseCaseRows DEF ProjectHandlers, ProjectUseCases
<1>3. /\ \A b \in DOMAIN EntityBodies : Bodies[b] = EntityBodies[b]
      /\ \A b \in DOMAIN OtherBodies : Bodies[b] = OtherBodies[b]
  BY BodyRows
<1> USE DEF Agree, KeyAgrees, BodyAgrees, ModeAgrees, Req, Opt, Names, BodyOf, Accepted,
            AsFields, IntoBody, GitTransfers, KeylessMethods, MethodNames, IgnoreTheKey,
            ControlKeys, NeedCredentials, Credential, TargetIds, MandatoryFields
<1>4. Agree("df_create_project")
  <2>1. /\ Schemas["df_create_project"] = ProjectSchemas["df_create_project"]
        /\ Handlers["df_create_project"] = ProjectHandlers["df_create_project"]
        /\ UseCases["df_create_project"] = ProjectUseCases["df_create_project"]
        /\ Bodies["ProjectWrite"] = EntityBodies["ProjectWrite"]
    BY <1>1, <1>2, <1>3 DEF EntityBodies
  <2>2. QED  BY <2>1 DEF ProjectSchemas, ProjectHandlers, ProjectUseCases, EntityBodies,
                         Key, Schema, WithFields, Creates, Entity, Use, Body
<1>5. Agree("df_update_project")
  <2>1. /\ Schemas["df_update_project"] = ProjectSchemas["df_update_project"]
        /\ Handlers["df_update_project"] = ProjectHandlers["df_update_project"]
        /\ UseCases["df_update_project"] = ProjectUseCases["df_update_project"]
        /\ Bodies["ProjectWrite"] = EntityBodies["ProjectWrite"]
    BY <1>1, <1>2, <1>3 DEF EntityBodies
  <2>2. QED  BY <2>1 DEF ProjectSchemas, ProjectHandlers, ProjectUseCases, EntityBodies,
                         Schema, WithFields, Updates, Entity, Use, Body
<1>6. Agree("df_delete_project")
  <2>1. /\ Schemas["df_delete_project"] = ProjectSchemas["df_delete_project"]
        /\ Handlers["df_delete_project"] = ProjectHandlers["df_delete_project"]
        /\ UseCases["df_delete_project"] = ProjectUseCases["df_delete_project"]
        /\ Bodies["None"] = OtherBodies["None"]
    BY <1>1, <1>2, <1>3 DEF OtherBodies
  <2>2. QED  BY <2>1 DEF ProjectSchemas, ProjectHandlers, ProjectUseCases, OtherBodies,
                         Schema, Named, Does, NoBody, Use, Body
<1>7. Agree("df_create_version")
  <2>1. /\ Schemas["df_create_version"] = ProjectSchemas["df_create_version"]
        /\ Handlers["df_create_version"] = ProjectHandlers["df_create_version"]
        /\ UseCases["df_create_version"] = ProjectUseCases["df_create_version"]
        /\ Bodies["VersionWrite"] = EntityBodies["VersionWrite"]
    BY <1>1, <1>2, <1>3 DEF EntityBodies
  <2>2. QED  BY <2>1 DEF ProjectSchemas, ProjectHandlers, ProjectUseCases, EntityBodies,
                         Key, Schema, WithFields, Creates, Entity, Use, Body
<1>8. Agree("df_update_version")
  <2>1. /\ Schemas["df_update_version"] = ProjectSchemas["df_update_version"]
        /\ Handlers["df_update_version"] = ProjectHandlers["df_update_version"]
        /\ UseCases["df_update_version"] = ProjectUseCases["df_update_version"]
        /\ Bodies["VersionWrite"] = EntityBodies["VersionWrite"]
    BY <1>1, <1>2, <1>3 DEF EntityBodies
  <2>2. QED  BY <2>1 DEF ProjectSchemas, ProjectHandlers, ProjectUseCases, EntityBodies,
                         PV, Schema, WithFields, Updates, Entity, Use, Body
<1>9. Agree("df_delete_version")
  <2>1. /\ Schemas["df_delete_version"] = ProjectSchemas["df_delete_version"]
        /\ Handlers["df_delete_version"] = ProjectHandlers["df_delete_version"]
        /\ UseCases["df_delete_version"] = ProjectUseCases["df_delete_version"]
        /\ Bodies["None"] = OtherBodies["None"]
    BY <1>1, <1>2, <1>3 DEF OtherBodies
  <2>2. QED  BY <2>1 DEF ProjectSchemas, ProjectHandlers, ProjectUseCases, OtherBodies,
                         PV, Schema, Named, Does, NoBody, Use, Body
<1> HIDE DEF Agree
<1>10. QED  BY <1>1, <1>4, <1>5, <1>6, <1>7, <1>8, <1>9

LEMMA RmdToolsAgree == \A t \in DOMAIN RmdSchemas : Agree(t)
<1>1. DOMAIN RmdSchemas = {"df_write_measure", "df_write_dimension", "df_write_fact",
          "df_delete_measure", "df_delete_dimension", "df_delete_fact",
          "df_bulk_write_measures", "df_bulk_write_dimensions", "df_bulk_write_facts"}
  BY DEF RmdSchemas
<1>2. \A t \in DOMAIN RmdSchemas :
        /\ Schemas[t] = RmdSchemas[t]
        /\ Handlers[t] = RmdHandlers[t]
        /\ UseCases[t] = RmdUseCases[t]
  BY <1>1, SchemaRows, HandlerRows, UseCaseRows DEF RmdHandlers, RmdUseCases
<1>3. /\ \A b \in DOMAIN EntityBodies : Bodies[b] = EntityBodies[b]
      /\ \A b \in DOMAIN OtherBodies : Bodies[b] = OtherBodies[b]
  BY BodyRows
<1> USE DEF Agree, KeyAgrees, BodyAgrees, ModeAgrees, Req, Opt, Names, BodyOf, Accepted,
            AsFields, IntoBody, GitTransfers, KeylessMethods, MethodNames, IgnoreTheKey,
            ControlKeys, NeedCredentials, Credential, TargetIds, MandatoryFields
<1>4. Agree("df_write_measure")
  <2>1. /\ Schemas["df_write_measure"] = RmdSchemas["df_write_measure"]
        /\ Handlers["df_write_measure"] = RmdHandlers["df_write_measure"]
        /\ UseCases["df_write_measure"] = RmdUseCases["df_write_measure"]
        /\ Bodies["MeasureWrite"] = EntityBodies["MeasureWrite"]
    BY <1>1, <1>2, <1>3 DEF EntityBodies
  <2>2. QED  BY <2>1 DEF RmdSchemas, RmdHandlers, RmdUseCases, EntityBodies,
                         RmdWriteTool, Modal, ByMode, Entity, PV, Key, Schema,
                         WithFields, Use, Body, RelationshipFields
<1>5. Agree("df_write_dimension")
  <2>1. /\ Schemas["df_write_dimension"] = RmdSchemas["df_write_dimension"]
        /\ Handlers["df_write_dimension"] = RmdHandlers["df_write_dimension"]
        /\ UseCases["df_write_dimension"] = RmdUseCases["df_write_dimension"]
        /\ Bodies["DimensionWrite"] = EntityBodies["DimensionWrite"]
    BY <1>1, <1>2, <1>3 DEF EntityBodies
  <2>2. QED  BY <2>1 DEF RmdSchemas, RmdHandlers, RmdUseCases, EntityBodies,
                         RmdWriteTool, Modal, ByMode, Entity, PV, Key, Schema,
                         WithFields, Use, Body, RelationshipFields
<1>6. Agree("df_write_fact")
  <2>1. /\ Schemas["df_write_fact"] = RmdSchemas["df_write_fact"]
        /\ Handlers["df_write_fact"] = RmdHandlers["df_write_fact"]
        /\ UseCases["df_write_fact"] = RmdUseCases["df_write_fact"]
        /\ Bodies["FactWrite"] = EntityBodies["FactWrite"]
    BY <1>1, <1>2, <1>3 DEF EntityBodies
  <2>2. QED  BY <2>1 DEF RmdSchemas, RmdHandlers, RmdUseCases, EntityBodies,
                         RmdWriteTool, Modal, ByMode, Entity, PV, Key, Schema,
                         WithFields, Use, Body, RelationshipFields
<1>7. Agree("df_delete_measure")
  <2>1. /\ Schemas["df_delete_measure"] = RmdSchemas["df_delete_measure"]
        /\ Handlers["df_delete_measure"] = RmdHandlers["df_delete_measure"]
        /\ UseCases["df_delete_measure"] = RmdUseCases["df_delete_measure"]
        /\ Bodies["None"] = OtherBodies["None"]
    BY <1>1, <1>2, <1>3 DEF OtherBodies
  <2>2. QED  BY <2>1 DEF RmdSchemas, RmdHandlers, RmdUseCases, OtherBodies, PV, Schema,
                         Named, Does, NoBody, Use, Body
<1>8. Agree("df_delete_dimension")
  <2>1. /\ Schemas["df_delete_dimension"] = RmdSchemas["df_delete_dimension"]
        /\ Handlers["df_delete_dimension"] = RmdHandlers["df_delete_dimension"]
        /\ UseCases["df_delete_dimension"] = RmdUseCases["df_delete_dimension"]
        /\ Bodies["None"] = OtherBodies["None"]
    BY <1>1, <1>2, <1>3 DEF OtherBodies
  <2>2. QED  BY <2>1 DEF RmdSchemas, RmdHandlers, RmdUseCases, OtherBodies, PV, Schema,
                         Named, Does, NoBody, Use, Body
<1>9. Agree("df_delete_fact")
  <2>1. /\ Schemas["df_delete_fact"] = RmdSchemas["df_delete_fact"]
        /\ Handlers["df_delete_fact"] = RmdHandlers["df_delete_fact"]
        /\ UseCases["df_delete_fact"] = RmdUseCases["df_delete_fact"]
        /\ Bodies["None"] = OtherBodies["None"]
    BY <1>1, <1>2, <1>3 DEF OtherBodies
  <2>2. QED  BY <2>1 DEF RmdSchemas, RmdHandlers, RmdUseCases, OtherBodies, PV, Schema,
                         Named, Does, NoBody, Use, Body
<1>10. Agree("df_bulk_write_measures")
  <2>1. /\ Schemas["df_bulk_write_measures"] = RmdSchemas["df_bulk_write_measures"]
        /\ Handlers["df_bulk_write_measures"] = RmdHandlers["df_bulk_write_measures"]
        /\ UseCases["df_bulk_write_measures"] = RmdUseCases["df_bulk_write_measures"]
        /\ Bodies["MeasuresBulk"] = OtherBodies["MeasuresBulk"]
    BY <1>1, <1>2, <1>3 DEF OtherBodies
  <2>2. QED  BY <2>1 DEF RmdSchemas, RmdHandlers, RmdUseCases, OtherBodies, PV, Key,
                         Schema, Named, Does, Body, Use
<1>11. Agree("df_bulk_write_dimensions")
  <2>1. /\ Schemas["df_bulk_write_dimensions"] = RmdSchemas["df_bulk_write_dimensions"]
        /\ Handlers["df_bulk_write_dimensions"] = RmdHandlers["df_bulk_write_dimensions"]
        /\ UseCases["df_bulk_write_dimensions"] = RmdUseCases["df_bulk_write_dimensions"]
        /\ Bodies["DimensionsBulk"] = OtherBodies["DimensionsBulk"]
    BY <1>1, <1>2, <1>3 DEF OtherBodies
  <2>2. QED  BY <2>1 DEF RmdSchemas, RmdHandlers, RmdUseCases, OtherBodies, PV, Key,
                         Schema, Named, Does, Body, Use
<1>12. Agree("df_bulk_write_facts")
  <2>1. /\ Schemas["df_bulk_write_facts"] = RmdSchemas["df_bulk_write_facts"]
        /\ Handlers["df_bulk_write_facts"] = RmdHandlers["df_bulk_write_facts"]
        /\ UseCases["df_bulk_write_facts"] = RmdUseCases["df_bulk_write_facts"]
        /\ Bodies["FactsBulk"] = OtherBodies["FactsBulk"]
    BY <1>1, <1>2, <1>3 DEF OtherBodies
  <2>2. QED  BY <2>1 DEF RmdSchemas, RmdHandlers, RmdUseCases, OtherBodies, PV, Key,
                         Schema, Named, Does, Body, Use
<1> HIDE DEF Agree
<1>13. QED  BY <1>1, <1>4, <1>5, <1>6, <1>7, <1>8, <1>9, <1>10, <1>11, <1>12

LEMMA GroupToolsAgree == \A t \in DOMAIN GroupSchemas : Agree(t)
<1>1. DOMAIN GroupSchemas = {"df_write_dimension_group", "df_delete_dimension_group",
          "df_set_group_dimensions", "df_remove_group_dimension"}
  BY DEF GroupSchemas
<1>2. \A t \in DOMAIN GroupSchemas :
        /\ Schemas[t] = GroupSchemas[t]
        /\ Handlers[t] = ModelHandlers[t]
        /\ UseCases[t] = GroupUseCases[t]
  BY <1>1, SchemaRows, HandlerRows, UseCaseRows DEF ModelHandlers, GroupUseCases
<1>3. /\ \A b \in DOMAIN EntityBodies : Bodies[b] = EntityBodies[b]
      /\ \A b \in DOMAIN OtherBodies : Bodies[b] = OtherBodies[b]
  BY BodyRows
<1> USE DEF Agree, KeyAgrees, BodyAgrees, ModeAgrees, Req, Opt, Names, BodyOf, Accepted,
            AsFields, IntoBody, GitTransfers, KeylessMethods, MethodNames, IgnoreTheKey,
            ControlKeys, NeedCredentials, Credential, TargetIds, MandatoryFields
<1>4. Agree("df_write_dimension_group")
  <2>1. /\ Schemas["df_write_dimension_group"] = GroupSchemas["df_write_dimension_group"]
        /\ Handlers["df_write_dimension_group"] = ModelHandlers["df_write_dimension_group"]
        /\ UseCases["df_write_dimension_group"] = GroupUseCases["df_write_dimension_group"]
        /\ Bodies["DimensionGroupWrite"] = EntityBodies["DimensionGroupWrite"]
    BY <1>1, <1>2, <1>3 DEF EntityBodies
  <2>2. QED  BY <2>1 DEF GroupSchemas, ModelHandlers, GroupUseCases, EntityBodies, PV,
                         Key, Schema, Modal, ByMode, Entity, WithFields, Use, Body,
                         RelationshipFields
<1>5. Agree("df_delete_dimension_group")
  <2>1. /\ Schemas["df_delete_dimension_group"] = GroupSchemas["df_delete_dimension_group"]
        /\ Handlers["df_delete_dimension_group"] = ModelHandlers["df_delete_dimension_group"]
        /\ UseCases["df_delete_dimension_group"] = GroupUseCases["df_delete_dimension_group"]
        /\ Bodies["None"] = OtherBodies["None"]
    BY <1>1, <1>2, <1>3 DEF OtherBodies
  <2>2. QED  BY <2>1 DEF GroupSchemas, ModelHandlers, GroupUseCases, OtherBodies, PV,
                         Schema, Named, Does, NoBody, Use, Body
<1>6. Agree("df_set_group_dimensions")
  <2>1. /\ Schemas["df_set_group_dimensions"] = GroupSchemas["df_set_group_dimensions"]
        /\ Handlers["df_set_group_dimensions"] = ModelHandlers["df_set_group_dimensions"]
        /\ UseCases["df_set_group_dimensions"] = GroupUseCases["df_set_group_dimensions"]
        /\ Bodies["GroupMembersBody"] = OtherBodies["GroupMembersBody"]
    BY <1>1, <1>2, <1>3 DEF OtherBodies
  <2>2. QED  BY <2>1 DEF GroupSchemas, ModelHandlers, GroupUseCases, OtherBodies, PV,
                         Key, Schema, Named, Does, Body, Use
<1>7. Agree("df_remove_group_dimension")
  <2>1. /\ Schemas["df_remove_group_dimension"] = GroupSchemas["df_remove_group_dimension"]
        /\ Handlers["df_remove_group_dimension"] = ModelHandlers["df_remove_group_dimension"]
        /\ UseCases["df_remove_group_dimension"] = GroupUseCases["df_remove_group_dimension"]
        /\ Bodies["None"] = OtherBodies["None"]
    BY <1>1, <1>2, <1>3 DEF OtherBodies
  <2>2. QED  BY <2>1 DEF GroupSchemas, ModelHandlers, GroupUseCases, OtherBodies, PV,
                         Schema, Named, Does, NoBody, Use, Body
<1> HIDE DEF Agree
<1>8. QED  BY <1>1, <1>4, <1>5, <1>6, <1>7

LEMMA FactTableToolsAgree == \A t \in DOMAIN FactTableSchemas : Agree(t)
<1>1. DOMAIN FactTableSchemas = {"df_write_fact_table", "df_delete_fact_table",
          "df_assign_to_fact_table", "df_unassign_from_fact_table"}
  BY DEF FactTableSchemas
<1>2. \A t \in DOMAIN FactTableSchemas :
        /\ Schemas[t] = FactTableSchemas[t]
        /\ Handlers[t] = ModelHandlers[t]
        /\ UseCases[t] = FactTableUseCases[t]
  BY <1>1, SchemaRows, HandlerRows, UseCaseRows DEF ModelHandlers, FactTableUseCases
<1>3. /\ \A b \in DOMAIN EntityBodies : Bodies[b] = EntityBodies[b]
      /\ \A b \in DOMAIN OtherBodies : Bodies[b] = OtherBodies[b]
  BY BodyRows
<1> USE DEF Agree, KeyAgrees, BodyAgrees, ModeAgrees, Req, Opt, Names, BodyOf, Accepted,
            AsFields, IntoBody, GitTransfers, KeylessMethods, MethodNames, IgnoreTheKey,
            ControlKeys, NeedCredentials, Credential, TargetIds, MandatoryFields
<1>4. Agree("df_write_fact_table")
  <2>1. /\ Schemas["df_write_fact_table"] = FactTableSchemas["df_write_fact_table"]
        /\ Handlers["df_write_fact_table"] = ModelHandlers["df_write_fact_table"]
        /\ UseCases["df_write_fact_table"] = FactTableUseCases["df_write_fact_table"]
        /\ Bodies["FactTableWrite"] = EntityBodies["FactTableWrite"]
    BY <1>1, <1>2, <1>3 DEF EntityBodies
  <2>2. QED  BY <2>1 DEF FactTableSchemas, ModelHandlers, FactTableUseCases,
                         EntityBodies, PV, Key, Schema, Modal, ByMode, Entity,
                         WithFields, Use, Body, RelationshipFields
<1>5. Agree("df_delete_fact_table")
  <2>1. /\ Schemas["df_delete_fact_table"] = FactTableSchemas["df_delete_fact_table"]
        /\ Handlers["df_delete_fact_table"] = ModelHandlers["df_delete_fact_table"]
        /\ UseCases["df_delete_fact_table"] = FactTableUseCases["df_delete_fact_table"]
        /\ Bodies["None"] = OtherBodies["None"]
    BY <1>1, <1>2, <1>3 DEF OtherBodies
  <2>2. QED  BY <2>1 DEF FactTableSchemas, ModelHandlers, FactTableUseCases,
                         OtherBodies, PV, Schema, Named, Does, NoBody, Use, Body
<1>6. Agree("df_assign_to_fact_table")
  <2>1. /\ Schemas["df_assign_to_fact_table"] = FactTableSchemas["df_assign_to_fact_table"]
        /\ Handlers["df_assign_to_fact_table"] = ModelHandlers["df_assign_to_fact_table"]
        /\ UseCases["df_assign_to_fact_table"] = FactTableUseCases["df_assign_to_fact_table"]
        /\ Bodies["ElementIds"] = OtherBodies["ElementIds"]
    BY <1>1, <1>2, <1>3 DEF OtherBodies
  <2>2. QED  BY <2>1 DEF FactTableSchemas, ModelHandlers, FactTableUseCases,
                         OtherBodies, PV, Key, Schema, Named, Does, Body, Use
<1>7. Agree("df_unassign_from_fact_table")
  <2>1. /\ Schemas["df_unassign_from_fact_table"] = FactTableSchemas["df_unassign_from_fact_table"]
        /\ Handlers["df_unassign_from_fact_table"] = ModelHandlers["df_unassign_from_fact_table"]
        /\ UseCases["df_unassign_from_fact_table"] = FactTableUseCases["df_unassign_from_fact_table"]
        /\ Bodies["None"] = OtherBodies["None"]
    BY <1>1, <1>2, <1>3 DEF OtherBodies
  <2>2. QED  BY <2>1 DEF FactTableSchemas, ModelHandlers, FactTableUseCases,
                         OtherBodies, PV, Schema, Named, Does, NoBody, Use, Body
<1> HIDE DEF Agree
<1>8. QED  BY <1>1, <1>4, <1>5, <1>6, <1>7

LEMMA FilterToolsAgree == \A t \in DOMAIN FilterSchemas : Agree(t)
<1>1. DOMAIN FilterSchemas = {"df_write_verification_filter",
          "df_delete_verification_filter"}
  BY DEF FilterSchemas
<1>2. \A t \in DOMAIN FilterSchemas :
        /\ Schemas[t] = FilterSchemas[t]
        /\ Handlers[t] = ModelHandlers[t]
        /\ UseCases[t] = FilterUseCases[t]
  BY <1>1, SchemaRows, HandlerRows, UseCaseRows DEF ModelHandlers, FilterUseCases
<1>3. /\ \A b \in DOMAIN EntityBodies : Bodies[b] = EntityBodies[b]
      /\ \A b \in DOMAIN OtherBodies : Bodies[b] = OtherBodies[b]
  BY BodyRows
<1> USE DEF Agree, KeyAgrees, BodyAgrees, ModeAgrees, Req, Opt, Names, BodyOf, Accepted,
            AsFields, IntoBody, GitTransfers, KeylessMethods, MethodNames, IgnoreTheKey,
            ControlKeys, NeedCredentials, Credential, TargetIds, MandatoryFields
<1>4. Agree("df_write_verification_filter")
  <2>1. /\ Schemas["df_write_verification_filter"] = FilterSchemas["df_write_verification_filter"]
        /\ Handlers["df_write_verification_filter"] = ModelHandlers["df_write_verification_filter"]
        /\ UseCases["df_write_verification_filter"] = FilterUseCases["df_write_verification_filter"]
        /\ Bodies["VerificationFilterWrite"] = EntityBodies["VerificationFilterWrite"]
    BY <1>1, <1>2, <1>3 DEF EntityBodies
  <2>2. QED  BY <2>1 DEF FilterSchemas, ModelHandlers, FilterUseCases, EntityBodies, PV,
                         Key, Schema, WithFields, ByMode, Entity, Use, Body,
                         RelationshipFields
<1>5. Agree("df_delete_verification_filter")
  <2>1. /\ Schemas["df_delete_verification_filter"] = FilterSchemas["df_delete_verification_filter"]
        /\ Handlers["df_delete_verification_filter"] = ModelHandlers["df_delete_verification_filter"]
        /\ UseCases["df_delete_verification_filter"] = FilterUseCases["df_delete_verification_filter"]
        /\ Bodies["None"] = OtherBodies["None"]
    BY <1>1, <1>2, <1>3 DEF OtherBodies
  <2>2. QED  BY <2>1 DEF FilterSchemas, ModelHandlers, FilterUseCases, OtherBodies, PV,
                         Schema, Named, Does, NoBody, Use, Body
<1> HIDE DEF Agree
<1>6. QED  BY <1>1, <1>4, <1>5

LEMMA RelationshipToolsAgree == \A t \in DOMAIN RelationshipSchemas : Agree(t)
<1>1. DOMAIN RelationshipSchemas = {"df_write_relationship", "df_delete_relationship"}
  BY DEF RelationshipSchemas
<1>2. \A t \in DOMAIN RelationshipSchemas :
        /\ Schemas[t] = RelationshipSchemas[t]
        /\ Handlers[t] = ModelHandlers[t]
        /\ UseCases[t] = RelationshipUseCases[t]
  BY <1>1, SchemaRows, HandlerRows, UseCaseRows DEF ModelHandlers, RelationshipUseCases
<1>3. /\ \A b \in DOMAIN EntityBodies : Bodies[b] = EntityBodies[b]
      /\ \A b \in DOMAIN OtherBodies : Bodies[b] = OtherBodies[b]
  BY BodyRows
<1> USE DEF Agree, KeyAgrees, BodyAgrees, ModeAgrees, Req, Opt, Names, BodyOf, Accepted,
            AsFields, IntoBody, GitTransfers, KeylessMethods, MethodNames, IgnoreTheKey,
            ControlKeys, NeedCredentials, Credential, TargetIds, MandatoryFields
<1>4. Agree("df_write_relationship")
  <2>1. /\ Schemas["df_write_relationship"] = RelationshipSchemas["df_write_relationship"]
        /\ Handlers["df_write_relationship"] = ModelHandlers["df_write_relationship"]
        /\ UseCases["df_write_relationship"] = RelationshipUseCases["df_write_relationship"]
        /\ Bodies["RelationshipWrite"] = EntityBodies["RelationshipWrite"]
    BY <1>1, <1>2, <1>3 DEF EntityBodies
  <2>2. QED  BY <2>1 DEF RelationshipSchemas, ModelHandlers, RelationshipUseCases,
                         EntityBodies, PV, Key, Schema, RelationshipFields, Modal,
                         ByMode, Entity, WithFields, Use, Body
<1>5. Agree("df_delete_relationship")
  <2>1. /\ Schemas["df_delete_relationship"] = RelationshipSchemas["df_delete_relationship"]
        /\ Handlers["df_delete_relationship"] = ModelHandlers["df_delete_relationship"]
        /\ UseCases["df_delete_relationship"] = RelationshipUseCases["df_delete_relationship"]
        /\ Bodies["None"] = OtherBodies["None"]
    BY <1>1, <1>2, <1>3 DEF OtherBodies
  <2>2. QED  BY <2>1 DEF RelationshipSchemas, ModelHandlers, RelationshipUseCases,
                         OtherBodies, PV, Schema, Named, Does, NoBody, Use, Body
<1> HIDE DEF Agree
<1>6. QED  BY <1>1, <1>4, <1>5

LEMMA AccessToolsAgree == \A t \in DOMAIN AccessSchemas : Agree(t)
<1>1. DOMAIN AccessSchemas = {"df_set_project_access", "df_revoke_project_access",
          "df_transfer_project_ownership"}
  BY DEF AccessSchemas
<1>2. \A t \in DOMAIN AccessSchemas :
        /\ Schemas[t] = AccessSchemas[t]
        /\ Handlers[t] = TransferHandlers[t]
        /\ UseCases[t] = AccessUseCases[t]
  BY <1>1, SchemaRows, HandlerRows, UseCaseRows DEF TransferHandlers, AccessUseCases
<1>3. /\ \A b \in DOMAIN OtherBodies : Bodies[b] = OtherBodies[b]
  BY BodyRows
<1> USE DEF Agree, KeyAgrees, BodyAgrees, ModeAgrees, Req, Opt, Names, BodyOf, Accepted,
            AsFields, IntoBody, GitTransfers, KeylessMethods, MethodNames, IgnoreTheKey,
            ControlKeys, NeedCredentials, Credential, TargetIds, MandatoryFields
<1>4. Agree("df_set_project_access")
  <2>1. /\ Schemas["df_set_project_access"] = AccessSchemas["df_set_project_access"]
        /\ Handlers["df_set_project_access"] = TransferHandlers["df_set_project_access"]
        /\ UseCases["df_set_project_access"] = AccessUseCases["df_set_project_access"]
        /\ Bodies["ProjectAccessWrite"] = OtherBodies["ProjectAccessWrite"]
    BY <1>1, <1>2, <1>3 DEF OtherBodies
  <2>2. QED  BY <2>1 DEF AccessSchemas, TransferHandlers, AccessUseCases, OtherBodies,
                         Key, Schema, Named, Does, Body, Use
<1>5. Agree("df_revoke_project_access")
  <2>1. /\ Schemas["df_revoke_project_access"] = AccessSchemas["df_revoke_project_access"]
        /\ Handlers["df_revoke_project_access"] = TransferHandlers["df_revoke_project_access"]
        /\ UseCases["df_revoke_project_access"] = AccessUseCases["df_revoke_project_access"]
        /\ Bodies["None"] = OtherBodies["None"]
    BY <1>1, <1>2, <1>3 DEF OtherBodies
  <2>2. QED  BY <2>1 DEF AccessSchemas, TransferHandlers, AccessUseCases, OtherBodies,
                         Schema, Named, Does, NoBody, Use, Body
<1>6. Agree("df_transfer_project_ownership")
  <2>1. /\ Schemas["df_transfer_project_ownership"] = AccessSchemas["df_transfer_project_ownership"]
        /\ Handlers["df_transfer_project_ownership"] = TransferHandlers["df_transfer_project_ownership"]
        /\ UseCases["df_transfer_project_ownership"] = AccessUseCases["df_transfer_project_ownership"]
        /\ Bodies["TransferOwnerBody"] = OtherBodies["TransferOwnerBody"]
    BY <1>1, <1>2, <1>3 DEF OtherBodies
  <2>2. QED  BY <2>1 DEF AccessSchemas, TransferHandlers, AccessUseCases, OtherBodies,
                         Schema, Named, Does, Body, Use
<1> HIDE DEF Agree
<1>7. QED  BY <1>1, <1>4, <1>5, <1>6

LEMMA TransferToolsAgree == \A t \in DOMAIN TransferSchemas : Agree(t)
<1>1. DOMAIN TransferSchemas = {"df_export_version_to_git", "df_export_version_to_file",
          "df_check_import_source", "df_preview_import", "df_import_version_from_git",
          "df_import_version_from_file"}
  BY DEF TransferSchemas
<1>2. \A t \in DOMAIN TransferSchemas :
        /\ Schemas[t] = TransferSchemas[t]
        /\ Handlers[t] = TransferHandlers[t]
        /\ UseCases[t] = TransferUseCases[t]
  BY <1>1, SchemaRows, HandlerRows, UseCaseRows DEF TransferHandlers, TransferUseCases
<1>3. /\ \A b \in DOMAIN OtherBodies : Bodies[b] = OtherBodies[b]
  BY BodyRows
<1> USE DEF Agree, KeyAgrees, BodyAgrees, ModeAgrees, Req, Opt, Names, BodyOf, Accepted,
            AsFields, IntoBody, GitTransfers, KeylessMethods, MethodNames, IgnoreTheKey,
            ControlKeys, NeedCredentials, Credential, TargetIds, MandatoryFields
<1>4. Agree("df_export_version_to_git")
  <2>1. /\ Schemas["df_export_version_to_git"] = TransferSchemas["df_export_version_to_git"]
        /\ Handlers["df_export_version_to_git"] = TransferHandlers["df_export_version_to_git"]
        /\ UseCases["df_export_version_to_git"] = TransferUseCases["df_export_version_to_git"]
        /\ Bodies["ExportGitBody"] = OtherBodies["ExportGitBody"]
    BY <1>1, <1>2, <1>3 DEF OtherBodies
  <2>2. QED  BY <2>1 DEF TransferSchemas, TransferHandlers, TransferUseCases,
                         OtherBodies, PV, Key, Schema, GitSource, WithFields, Does,
                         Body, Use
<1>5. Agree("df_export_version_to_file")
  <2>1. /\ Schemas["df_export_version_to_file"] = TransferSchemas["df_export_version_to_file"]
        /\ Handlers["df_export_version_to_file"] = TransferHandlers["df_export_version_to_file"]
        /\ UseCases["df_export_version_to_file"] = TransferUseCases["df_export_version_to_file"]
        /\ Bodies["ExportFileBody"] = OtherBodies["ExportFileBody"]
    BY <1>1, <1>2, <1>3 DEF OtherBodies
  <2>2. QED  BY <2>1 DEF TransferSchemas, TransferHandlers, TransferUseCases,
                         OtherBodies, PV, Schema, WithFields, Does, Body, Use
<1>6. Agree("df_check_import_source")
  <2>1. /\ Schemas["df_check_import_source"] = TransferSchemas["df_check_import_source"]
        /\ Handlers["df_check_import_source"] = TransferHandlers["df_check_import_source"]
        /\ UseCases["df_check_import_source"] = TransferUseCases["df_check_import_source"]
        /\ Bodies["ImportSourceBody"] = OtherBodies["ImportSourceBody"]
    BY <1>1, <1>2, <1>3 DEF OtherBodies
  <2>2. QED  BY <2>1 DEF TransferSchemas, TransferHandlers, TransferUseCases,
                         OtherBodies, PV, Schema, GitSource, WithFields, Does, Body, Use
<1>7. Agree("df_preview_import")
  <2>1. /\ Schemas["df_preview_import"] = TransferSchemas["df_preview_import"]
        /\ Handlers["df_preview_import"] = TransferHandlers["df_preview_import"]
        /\ UseCases["df_preview_import"] = TransferUseCases["df_preview_import"]
        /\ Bodies["ImportSourceBody"] = OtherBodies["ImportSourceBody"]
    BY <1>1, <1>2, <1>3 DEF OtherBodies
  <2>2. QED  BY <2>1 DEF TransferSchemas, TransferHandlers, TransferUseCases,
                         OtherBodies, PV, Schema, GitSource, WithFields, Does, Body, Use
<1>8. Agree("df_import_version_from_git")
  <2>1. /\ Schemas["df_import_version_from_git"] = TransferSchemas["df_import_version_from_git"]
        /\ Handlers["df_import_version_from_git"] = TransferHandlers["df_import_version_from_git"]
        /\ UseCases["df_import_version_from_git"] = TransferUseCases["df_import_version_from_git"]
        /\ Bodies["ImportGitBody"] = OtherBodies["ImportGitBody"]
    BY <1>1, <1>2, <1>3 DEF OtherBodies
  <2>2. QED  BY <2>1 DEF TransferSchemas, TransferHandlers, TransferUseCases,
                         OtherBodies, PV, Key, Schema, GitSource, WithFields, Does,
                         Body, Use
<1>9. Agree("df_import_version_from_file")
  <2>1. /\ Schemas["df_import_version_from_file"] = TransferSchemas["df_import_version_from_file"]
        /\ Handlers["df_import_version_from_file"] = TransferHandlers["df_import_version_from_file"]
        /\ UseCases["df_import_version_from_file"] = TransferUseCases["df_import_version_from_file"]
        /\ Bodies["ImportForm"] = OtherBodies["ImportForm"]
    BY <1>1, <1>2, <1>3 DEF OtherBodies
  <2>2. QED  BY <2>1 DEF TransferSchemas, TransferHandlers, TransferUseCases,
                         OtherBodies, PV, Key, Schema, Named, Does, Body, Use
<1> HIDE DEF Agree
<1>10. QED  BY <1>1, <1>4, <1>5, <1>6, <1>7, <1>8, <1>9

LEMMA GitToolsAgree == \A t \in DOMAIN GitSchemas : Agree(t)
<1>1. DOMAIN GitSchemas = {"df_create_git_connection", "df_update_git_connection",
          "df_delete_git_connection", "df_test_git_connection"}
  BY DEF GitSchemas
<1>2. \A t \in DOMAIN GitSchemas :
        /\ Schemas[t] = GitSchemas[t]
        /\ Handlers[t] = GitHandlers[t]
        /\ UseCases[t] = GitUseCases[t]
  BY <1>1, SchemaRows, HandlerRows, UseCaseRows DEF GitHandlers, GitUseCases
<1>3. /\ \A b \in DOMAIN OtherBodies : Bodies[b] = OtherBodies[b]
  BY BodyRows
<1> USE DEF Agree, KeyAgrees, BodyAgrees, ModeAgrees, Req, Opt, Names, BodyOf, Accepted,
            AsFields, IntoBody, GitTransfers, KeylessMethods, MethodNames, IgnoreTheKey,
            ControlKeys, NeedCredentials, Credential, TargetIds, MandatoryFields
<1>4. Agree("df_create_git_connection")
  <2>1. /\ Schemas["df_create_git_connection"] = GitSchemas["df_create_git_connection"]
        /\ Handlers["df_create_git_connection"] = GitHandlers["df_create_git_connection"]
        /\ UseCases["df_create_git_connection"] = GitUseCases["df_create_git_connection"]
        /\ Bodies["GitConnectionWrite"] = OtherBodies["GitConnectionWrite"]
    BY <1>1, <1>2, <1>3 DEF OtherBodies
  <2>2. QED  BY <2>1 DEF GitSchemas, GitHandlers, GitUseCases, OtherBodies, Key, Schema,
                         GitSource, WithFields, Creates, Entity, Use, Body
<1>5. Agree("df_update_git_connection")
  <2>1. /\ Schemas["df_update_git_connection"] = GitSchemas["df_update_git_connection"]
        /\ Handlers["df_update_git_connection"] = GitHandlers["df_update_git_connection"]
        /\ UseCases["df_update_git_connection"] = GitUseCases["df_update_git_connection"]
        /\ Bodies["GitConnectionWrite"] = OtherBodies["GitConnectionWrite"]
    BY <1>1, <1>2, <1>3 DEF OtherBodies
  <2>2. QED  BY <2>1 DEF GitSchemas, GitHandlers, GitUseCases, OtherBodies, Schema,
                         GitSource, WithFields, Does, Entity, Use, Body
<1>6. Agree("df_delete_git_connection")
  <2>1. /\ Schemas["df_delete_git_connection"] = GitSchemas["df_delete_git_connection"]
        /\ Handlers["df_delete_git_connection"] = GitHandlers["df_delete_git_connection"]
        /\ UseCases["df_delete_git_connection"] = GitUseCases["df_delete_git_connection"]
        /\ Bodies["None"] = OtherBodies["None"]
    BY <1>1, <1>2, <1>3 DEF OtherBodies
  <2>2. QED  BY <2>1 DEF GitSchemas, GitHandlers, GitUseCases, OtherBodies, Schema,
                         Named, Does, NoBody, Use, Body
<1>7. Agree("df_test_git_connection")
  <2>1. /\ Schemas["df_test_git_connection"] = GitSchemas["df_test_git_connection"]
        /\ Handlers["df_test_git_connection"] = GitHandlers["df_test_git_connection"]
        /\ UseCases["df_test_git_connection"] = GitUseCases["df_test_git_connection"]
        /\ Bodies["None"] = OtherBodies["None"]
    BY <1>1, <1>2, <1>3 DEF OtherBodies
  <2>2. QED  BY <2>1 DEF GitSchemas, GitHandlers, GitUseCases, OtherBodies, Schema,
                         Named, Does, NoBody, Use, Body
<1> HIDE DEF Agree
<1>8. QED  BY <1>1, <1>4, <1>5, <1>6, <1>7

LEMMA ToolsAgree == \A t \in Tools : Agree(t)
<1>1. Tools = UNION {DOMAIN part : part \in
         {ProjectSchemas, RmdSchemas, GroupSchemas, FactTableSchemas, FilterSchemas,
          RelationshipSchemas, AccessSchemas, TransferSchemas, GitSchemas}}
  BY RowsOfAll DEF Tools, Schemas
<1>2. QED  BY <1>1, ProjectToolsAgree, RmdToolsAgree, GroupToolsAgree,
            FactTableToolsAgree, FilterToolsAgree, RelationshipToolsAgree,
            AccessToolsAgree, TransferToolsAgree, GitToolsAgree

-----------------------------------------------------------------------------
(* The endpoints: a POST hands the key on and its path admits one, but for *)
(* the four methods that ignore the key.                                   *)
Fits(e) == e.method = "POST" => e.keyed /\ AcceptsKey(e.path)

LEMMA ProjectEndpointsFit ==
    /\ DOMAIN ProjectEndpoints = {"create_project", "update_project", "delete_project",
          "create_version", "update_version", "delete_version"}
    /\ \A m \in DOMAIN ProjectEndpoints \ KeylessMethods : Fits(ProjectEndpoints[m])
<1>1. /\ AcceptsKey(<<"projects">>)
      /\ AcceptsKey(Project \o <<"versions">>)
  BY DEF AcceptsKey, Project
<1>2. /\ Fits(ProjectEndpoints["create_project"])
      /\ Fits(ProjectEndpoints["update_project"])
      /\ Fits(ProjectEndpoints["delete_project"])
      /\ Fits(ProjectEndpoints["create_version"])
      /\ Fits(ProjectEndpoints["update_version"])
      /\ Fits(ProjectEndpoints["delete_version"])
  BY <1>1 DEF Fits, ProjectEndpoints, Post, Patch, Delete, Write
<1>3. DOMAIN ProjectEndpoints = {"create_project", "update_project", "delete_project",
          "create_version", "update_version", "delete_version"}
  BY DEF ProjectEndpoints
<1>4. QED  BY <1>2, <1>3 DEF KeylessMethods

LEMMA MeasureEndpointsFit ==
    /\ DOMAIN MeasureEndpoints = {"create_measure", "replace_measure", "update_measure",
          "delete_measure", "bulk_write_measures"}
    /\ \A m \in DOMAIN MeasureEndpoints \ KeylessMethods : Fits(MeasureEndpoints[m])
<1>1. /\ AcceptsKey(Measures)
      /\ AcceptsKey(Measures \o <<"bulk">>)
  BY DEF AcceptsKey, Measures, Version, Project
<1>2. /\ Fits(MeasureEndpoints["create_measure"])
      /\ Fits(MeasureEndpoints["replace_measure"])
      /\ Fits(MeasureEndpoints["update_measure"])
      /\ Fits(MeasureEndpoints["delete_measure"])
      /\ Fits(MeasureEndpoints["bulk_write_measures"])
  BY <1>1 DEF Fits, MeasureEndpoints, Post, Put, Patch, Delete, Write
<1>3. DOMAIN MeasureEndpoints = {"create_measure", "replace_measure", "update_measure",
          "delete_measure", "bulk_write_measures"}
  BY DEF MeasureEndpoints
<1>4. QED  BY <1>2, <1>3 DEF KeylessMethods

LEMMA DimensionEndpointsFit ==
    /\ DOMAIN DimensionEndpoints = {"create_dimension", "replace_dimension",
          "update_dimension", "delete_dimension", "bulk_write_dimensions"}
    /\ \A m \in DOMAIN DimensionEndpoints \ KeylessMethods : Fits(DimensionEndpoints[m])
<1>1. /\ AcceptsKey(Dimensions)
      /\ AcceptsKey(Dimensions \o <<"bulk">>)
  BY DEF AcceptsKey, Dimensions, Version, Project
<1>2. /\ Fits(DimensionEndpoints["create_dimension"])
      /\ Fits(DimensionEndpoints["replace_dimension"])
      /\ Fits(DimensionEndpoints["update_dimension"])
      /\ Fits(DimensionEndpoints["delete_dimension"])
      /\ Fits(DimensionEndpoints["bulk_write_dimensions"])
  BY <1>1 DEF Fits, DimensionEndpoints, Post, Put, Patch, Delete, Write
<1>3. DOMAIN DimensionEndpoints = {"create_dimension", "replace_dimension",
          "update_dimension", "delete_dimension", "bulk_write_dimensions"}
  BY DEF DimensionEndpoints
<1>4. QED  BY <1>2, <1>3 DEF KeylessMethods

LEMMA FactEndpointsFit ==
    /\ DOMAIN FactEndpoints = {"create_fact", "replace_fact", "update_fact",
          "delete_fact", "bulk_write_facts"}
    /\ \A m \in DOMAIN FactEndpoints \ KeylessMethods : Fits(FactEndpoints[m])
<1>1. /\ AcceptsKey(Facts)
      /\ AcceptsKey(Facts \o <<"bulk">>)
  BY DEF AcceptsKey, Facts, Version, Project
<1>2. /\ Fits(FactEndpoints["create_fact"])
      /\ Fits(FactEndpoints["replace_fact"])
      /\ Fits(FactEndpoints["update_fact"])
      /\ Fits(FactEndpoints["delete_fact"])
      /\ Fits(FactEndpoints["bulk_write_facts"])
  BY <1>1 DEF Fits, FactEndpoints, Post, Put, Patch, Delete, Write
<1>3. DOMAIN FactEndpoints = {"create_fact", "replace_fact", "update_fact",
          "delete_fact", "bulk_write_facts"}
  BY DEF FactEndpoints
<1>4. QED  BY <1>2, <1>3 DEF KeylessMethods

LEMMA GroupEndpointsFit ==
    /\ DOMAIN GroupEndpoints = {"create_dimension_group", "replace_dimension_group",
          "update_dimension_group", "delete_dimension_group", "add_group_dimensions",
          "remove_group_dimension"}
    /\ \A m \in DOMAIN GroupEndpoints \ KeylessMethods : Fits(GroupEndpoints[m])
<1>1. /\ AcceptsKey(Groups)
      /\ AcceptsKey(Group \o <<"dimensions">>)
  BY DEF AcceptsKey, Groups, Group, Version, Project
<1>2. /\ Fits(GroupEndpoints["create_dimension_group"])
      /\ Fits(GroupEndpoints["replace_dimension_group"])
      /\ Fits(GroupEndpoints["update_dimension_group"])
      /\ Fits(GroupEndpoints["delete_dimension_group"])
      /\ Fits(GroupEndpoints["add_group_dimensions"])
      /\ Fits(GroupEndpoints["remove_group_dimension"])
  BY <1>1 DEF Fits, GroupEndpoints, Post, Put, Patch, Delete, Write
<1>3. DOMAIN GroupEndpoints = {"create_dimension_group", "replace_dimension_group",
          "update_dimension_group", "delete_dimension_group", "add_group_dimensions",
          "remove_group_dimension"}
  BY DEF GroupEndpoints
<1>4. QED  BY <1>2, <1>3 DEF KeylessMethods

LEMMA FactTableEndpointsFit ==
    /\ DOMAIN FactTableEndpoints = {"create_fact_table", "replace_fact_table",
          "update_fact_table", "delete_fact_table", "assign_to_fact_table",
          "unassign_from_fact_table"}
    /\ \A m \in DOMAIN FactTableEndpoints \ KeylessMethods : Fits(FactTableEndpoints[m])
<1>1. /\ AcceptsKey(FactTables)
      /\ AcceptsKey(FactTable \o <<"element_type">>)
  BY DEF AcceptsKey, FactTables, FactTable, Version, Project
<1>2. /\ Fits(FactTableEndpoints["create_fact_table"])
      /\ Fits(FactTableEndpoints["replace_fact_table"])
      /\ Fits(FactTableEndpoints["update_fact_table"])
      /\ Fits(FactTableEndpoints["delete_fact_table"])
      /\ Fits(FactTableEndpoints["assign_to_fact_table"])
      /\ Fits(FactTableEndpoints["unassign_from_fact_table"])
  BY <1>1 DEF Fits, FactTableEndpoints, Post, Put, Patch, Delete, Write
<1>3. DOMAIN FactTableEndpoints = {"create_fact_table", "replace_fact_table",
          "update_fact_table", "delete_fact_table", "assign_to_fact_table",
          "unassign_from_fact_table"}
  BY DEF FactTableEndpoints
<1>4. QED  BY <1>2, <1>3 DEF KeylessMethods

LEMMA RelationshipEndpointsFit ==
    /\ DOMAIN RelationshipEndpoints = {"create_relationship", "replace_relationship",
          "update_relationship", "delete_relationship"}
    /\ \A m \in DOMAIN RelationshipEndpoints \ KeylessMethods : Fits(RelationshipEndpoints[m])
<1>1. AcceptsKey(Relationships)
  BY DEF AcceptsKey, Relationships, Version, Project
<1>2. /\ Fits(RelationshipEndpoints["create_relationship"])
      /\ Fits(RelationshipEndpoints["replace_relationship"])
      /\ Fits(RelationshipEndpoints["update_relationship"])
      /\ Fits(RelationshipEndpoints["delete_relationship"])
  BY <1>1 DEF Fits, RelationshipEndpoints, Post, Put, Patch, Delete, Write
<1>3. DOMAIN RelationshipEndpoints = {"create_relationship", "replace_relationship",
          "update_relationship", "delete_relationship"}
  BY DEF RelationshipEndpoints
<1>4. QED  BY <1>2, <1>3 DEF KeylessMethods

LEMMA AccessEndpointsFit ==
    /\ DOMAIN AccessEndpoints = {"set_project_access", "revoke_project_access",
          "transfer_project_ownership"}
    /\ \A m \in DOMAIN AccessEndpoints \ KeylessMethods : Fits(AccessEndpoints[m])
<1>1. AcceptsKey(Project \o <<"access">>)
  BY DEF AcceptsKey, Project
<1>2. /\ Fits(AccessEndpoints["set_project_access"])
      /\ Fits(AccessEndpoints["revoke_project_access"])
      /\ Fits(AccessEndpoints["transfer_project_ownership"])
  BY <1>1 DEF Fits, AccessEndpoints, Post, Put, Delete, Write
<1>3. DOMAIN AccessEndpoints = {"set_project_access", "revoke_project_access",
          "transfer_project_ownership"}
  BY DEF AccessEndpoints
<1>4. QED  BY <1>2, <1>3 DEF KeylessMethods

LEMMA TransferEndpointsFit ==
    /\ DOMAIN TransferEndpoints = {"export_version_to_git", "export_version_to_file",
          "validate_import_source", "preview_import", "import_version_from_git",
          "import_version_from_file"}
    /\ \A m \in DOMAIN TransferEndpoints \ KeylessMethods : Fits(TransferEndpoints[m])
<1>1. /\ AcceptsKey(Version \o <<"export", "git">>)
      /\ AcceptsKey(Version \o <<"import", "git">>)
      /\ AcceptsKey(Version \o <<"import", "file">>)
  BY DEF AcceptsKey, Version, Project
<1>2. /\ Fits(TransferEndpoints["export_version_to_git"])
      /\ Fits(TransferEndpoints["import_version_from_git"])
      /\ Fits(TransferEndpoints["import_version_from_file"])
  BY <1>1 DEF Fits, TransferEndpoints, Post, PostKeyless, Write
<1>3. DOMAIN TransferEndpoints = {"export_version_to_git", "export_version_to_file",
          "validate_import_source", "preview_import", "import_version_from_git",
          "import_version_from_file"}
  BY DEF TransferEndpoints
<1>4. QED  BY <1>2, <1>3 DEF KeylessMethods

LEMMA GitEndpointsFit ==
    /\ DOMAIN GitEndpoints = {"create_git_connection", "update_git_connection",
          "delete_git_connection", "test_git_connection"}
    /\ \A m \in DOMAIN GitEndpoints \ KeylessMethods : Fits(GitEndpoints[m])
<1>1. AcceptsKey(<<"git-connections">>)
  BY DEF AcceptsKey
<1>2. /\ Fits(GitEndpoints["create_git_connection"])
      /\ Fits(GitEndpoints["update_git_connection"])
      /\ Fits(GitEndpoints["delete_git_connection"])
  BY <1>1 DEF Fits, GitEndpoints, Post, PostKeyless, Put, Delete, Write
<1>3. DOMAIN GitEndpoints = {"create_git_connection", "update_git_connection",
          "delete_git_connection", "test_git_connection"}
  BY DEF GitEndpoints
<1>4. QED  BY <1>2, <1>3 DEF KeylessMethods

LEMMA FilterEndpointsFit ==
    ASSUME NEW c
    PROVE
    /\ DOMAIN FilterEndpoints(c) = {"create_verification_filter",
          "replace_verification_filter", "update_verification_filter",
          "delete_verification_filter"}
    /\ \A m \in DOMAIN FilterEndpoints(c) \ KeylessMethods : Fits(FilterEndpoints(c)[m])
<1>1. AcceptsKey(FilterPath(c))
  BY DEF AcceptsKey, FilterPath, FactTable, Version, FactTables, Project
<1>2. /\ Fits(FilterEndpoints(c)["create_verification_filter"])
      /\ Fits(FilterEndpoints(c)["replace_verification_filter"])
      /\ Fits(FilterEndpoints(c)["update_verification_filter"])
      /\ Fits(FilterEndpoints(c)["delete_verification_filter"])
  BY <1>1 DEF Fits, FilterEndpoints, Post, Put, Patch, Delete, Write
<1>3. DOMAIN FilterEndpoints(c) = {"create_verification_filter",
          "replace_verification_filter", "update_verification_filter",
          "delete_verification_filter"}
  BY DEF FilterEndpoints
<1>4. QED  BY <1>2, <1>3 DEF KeylessMethods

LEMMA EndpointRows ==
    ASSUME NEW c
    PROVE  \A part \in {ProjectEndpoints, MeasureEndpoints, DimensionEndpoints, FactEndpoints,
                        GroupEndpoints, FactTableEndpoints, RelationshipEndpoints,
                        AccessEndpoints, TransferEndpoints, GitEndpoints,
                        FilterEndpoints(c)} :
             \A m \in DOMAIN part : Endpoints(c)[m] = part[m]
<1> DEFINE Parts == {ProjectEndpoints, MeasureEndpoints, DimensionEndpoints, FactEndpoints,
                     GroupEndpoints, FactTableEndpoints, RelationshipEndpoints,
                     AccessEndpoints, TransferEndpoints, GitEndpoints, FilterEndpoints(c)}
<1>1. \A s, t \in Parts : \A x \in DOMAIN t : x \in DOMAIN s => s = t
  BY ProjectEndpointsFit, MeasureEndpointsFit, DimensionEndpointsFit, FactEndpointsFit,
     GroupEndpointsFit, FactTableEndpointsFit, RelationshipEndpointsFit,
     AccessEndpointsFit, TransferEndpointsFit, GitEndpointsFit, FilterEndpointsFit
<1>2. Endpoints(c) = Joined(Parts)
  BY DEF Endpoints
<1> HIDE DEF Parts
<1>3. \A part \in Parts : \A m \in DOMAIN part : Endpoints(c)[m] = part[m]
  BY <1>1, <1>2, RowOfOne
<1>4. QED  BY <1>3 DEF Parts

LEMMA EndpointsFit ==
    ASSUME NEW c
    PROVE  /\ DOMAIN Endpoints(c) = MethodNames
           /\ \A m \in MethodNames \ KeylessMethods : Fits(Endpoints(c)[m])
<1> DEFINE Parts == {ProjectEndpoints, MeasureEndpoints, DimensionEndpoints, FactEndpoints,
                     GroupEndpoints, FactTableEndpoints, RelationshipEndpoints,
                     AccessEndpoints, TransferEndpoints, GitEndpoints, FilterEndpoints(c)}
<1>1. UNION {DOMAIN t : t \in Parts} = MethodNames
  BY ProjectEndpointsFit, MeasureEndpointsFit, DimensionEndpointsFit, FactEndpointsFit,
     GroupEndpointsFit, FactTableEndpointsFit, RelationshipEndpointsFit,
     AccessEndpointsFit, TransferEndpointsFit, GitEndpointsFit, FilterEndpointsFit
  DEF MethodNames
<1>2. \A t \in Parts : \A m \in DOMAIN t \ KeylessMethods : Fits(t[m])
  BY ProjectEndpointsFit, MeasureEndpointsFit, DimensionEndpointsFit, FactEndpointsFit,
     GroupEndpointsFit, FactTableEndpointsFit, RelationshipEndpointsFit,
     AccessEndpointsFit, TransferEndpointsFit, GitEndpointsFit, FilterEndpointsFit
<1>3. Endpoints(c) = Joined(Parts)
  BY DEF Endpoints
<1> HIDE DEF Parts
<1>4. DOMAIN Endpoints(c) = MethodNames
  BY <1>1, <1>3, RowsOfAll
<1>5. ASSUME NEW m \in MethodNames \ KeylessMethods PROVE Fits(Endpoints(c)[m])
  <2>1. PICK t \in Parts : m \in DOMAIN t
    BY <1>1
  <2>2. Endpoints(c)[m] = t[m]
    BY <2>1, EndpointRows DEF Parts
  <2>3. QED  BY <1>2, <2>1, <2>2
<1>6. QED  BY <1>4, <1>5

-----------------------------------------------------------------------------
(* What the tables say of a call: its fields are the arguments that the    *)
(* body takes, its key and its mode are the caller's, its method is one of *)
(* the client's.                                                           *)
LEMMA FieldsOfACall ==
    ASSUME NEW c \in Calls
    PROVE  /\ c.tool \in Tools /\ Agree(c.tool) /\ Known(c)
           /\ Req(c.tool) \subseteq c.args
           /\ c.args \subseteq Req(c.tool) \cup Opt(c.tool)
           /\ Fields(c) = c.args \cap IntoBody(c.tool)
           /\ Admitted(c) = Accepted(c.tool)
<1>1. /\ c.tool \in Tools /\ Agree(c.tool)
      /\ Req(c.tool) \subseteq c.args
      /\ c.args \subseteq Req(c.tool) \cup Opt(c.tool)
  BY CallShape, ToolsAgree DEF Req, Opt
<1>2. Known(c)
  BY <1>1 DEF Known, Req, Opt
<1>3. Admitted(c) = Accepted(c.tool)
  BY DEF Admitted, Accepted, BodyOf
<1>4. EntityFields(c) = c.args \cap AsFields(c.tool)
  BY <1>1 DEF EntityFields, AsFields, Names
<1>5. NamedArguments(c) \cap Admitted(c) = c.args \cap (Names(c.tool) \cap Accepted(c.tool))
  BY <1>3 DEF NamedArguments, Names
<1>6. Fields(c) = c.args \cap IntoBody(c.tool)
  BY <1>4, <1>5 DEF Fields, IntoBody
<1>7. QED  BY <1>1, <1>2, <1>3, <1>6

LEMMA KeyOfACall ==
    ASSUME NEW c \in Calls
    PROVE  /\ KeyOf(c) \in {c.key, "generated"}
           /\ c.key = "own" => KeyOf(c) = "own" /\ "own" \in Keys
<1>1. KeyOf(c) \in {c.key, "generated"}
  BY DEF KeyOf
<1>2. ASSUME c.key = "own" PROVE KeyOf(c) = "own" /\ "own" \in Keys
  <2>1. "idempotency_key" \in c.args /\ "own" \in Keys
    BY <1>2, CallShape
  <2>2. "idempotency_key" \in Names(c.tool)
    BY <2>1, FieldsOfACall DEF Agree, KeyAgrees
  <2>3. QED  BY <1>2, <2>1, <2>2 DEF KeyOf, NamedArguments, Names
<1>3. QED  BY <1>1, <1>2

LEMMA MethodOfACall ==
    ASSUME NEW c \in Calls
    PROVE  /\ MethodOf(c) \in MethodNames
           /\ MethodOf(c) \in KeylessMethods => c.tool \in IgnoreTheKey
<1> DEFINE methods == UseCases[c.tool].methods
<1>1. PICK m \in DOMAIN methods : MethodOf(c) = methods[m]
  <2>1. ModeAgrees(c.tool)
    BY FieldsOfACall DEF Agree
  <2>2. CASE UseCases[c.tool].mode = "given"
    BY <2>1, <2>2 DEF ModeAgrees, MethodOf
  <2>3. CASE UseCases[c.tool].mode # "given"
    BY <2>1, <2>3 DEF ModeAgrees, MethodOf, ModeOf
  <2>4. QED  BY <2>2, <2>3
<1>2. QED  BY <1>1, FieldsOfACall DEF Agree, KeyAgrees

(* A POST of a tool that is not known to ignore the key sends it.          *)
LEMMA PostsSendTheKey ==
    ASSUME NEW c \in Calls, Endpoint(c).method = "POST", c.tool \notin IgnoreTheKey
    PROVE  SendsKey(c)
<1>1. MethodOf(c) \in MethodNames \ KeylessMethods
  BY MethodOfACall
<1>2. Fits(Endpoint(c))
  BY <1>1, EndpointsFit DEF Endpoint
<1>3. QED  BY <1>2 DEF Fits, SendsKey

-----------------------------------------------------------------------------
(* Every state of the caller is of the declared types, and no call is      *)
(* carried out more often than it is tried (write_use_cases.py).           *)
THEOREM CallersAreTyped == Spec => []TypeOK
<1>1. WInv => TypeOK
  BY DEF WInv
<1>2. QED  BY <1>1, CallerInductive, PTL

(* A POST repeated with a key of the caller's own takes effect at most     *)
(* once, for any keys and any number of tries: every tool whose key is not *)
(* known to be ignored hands it down to a request that carries it          *)
(* (write_use_cases.py, write_client.py, client.py).                       *)
THEOREM RepeatsTakeEffectOnce == Spec => []RepeatIsHarmless
<1>1. WInv => RepeatIsHarmless
  <2> SUFFICES ASSUME WInv, call.key = "own", Request(call).method = "POST",
                      call.tool \notin IgnoreTheKey
               PROVE  effects <= 1
    BY DEF RepeatIsHarmless
  <2>1. call \in Calls
    BY DEF WInv
  <2>2. Endpoint(call).method = "POST"
    BY DEF Request
  <2>3. SendsKey(call)
    BY <2>1, <2>2, PostsSendTheKey
  <2>4. KeyOf(call) \in Keys
    BY <2>1, KeyOfACall
  <2>5. QED  BY <2>3, <2>4 DEF WInv, Once
<1>2. QED  BY <1>1, CallerInductive, PTL

LEMMA CompleteIsAdmitted ==
    ASSUME NEW c \in Calls, "connection_id" \notin Credentials, Complete(c),
           c.key # "malformed"
    PROVE  ~ Refused(c)
<1> DEFINE use == UseCases[c.tool]
<1>0. /\ c.tool \in Tools /\ KeyAgrees(c.tool) /\ BodyAgrees(c.tool) /\ ModeAgrees(c.tool)
      /\ Req(c.tool) \subseteq c.args
      /\ c.args \subseteq Req(c.tool) \cup Opt(c.tool)
      /\ Fields(c) = c.args \cap IntoBody(c.tool)
      /\ Admitted(c) = Accepted(c.tool)
  BY FieldsOfACall DEF Agree
<1>1. Known(c)
  BY FieldsOfACall
<1>2. ~ BadBody(c)
  <2>1. Fields(c) \subseteq Admitted(c)
    BY <1>0 DEF BodyAgrees, IntoBody
  <2>2. Bodies[use.body].required \subseteq Fields(c)
    BY <1>0 DEF BodyAgrees, BodyOf
  <2>3. ASSUME use.body \in NeedCredentials
        PROVE  Fields(c) \cap {"connection_id", "authentication"} # {}
    <3>1. c.tool \in GitTransfers
      BY <1>0, <2>3 DEF BodyAgrees
    <3>2. Credential \cap c.args # {}
      BY <3>1 DEF Complete, GitTransfers
    <3>3. Credential \cap Req(c.tool) = {} /\ "authentication" \in IntoBody(c.tool)
      BY <1>0, <3>1 DEF BodyAgrees
    <3>4. c.args \cap (Credential \ Credentials) \subseteq Req(c.tool)
      BY CallShape DEF Req
    <3>5. "authentication" \in c.args
      BY <3>2, <3>3, <3>4 DEF Credential
    <3>6. QED  BY <1>0, <3>3, <3>5
  <2>4. QED  BY <2>1, <2>2, <2>3 DEF BadBody
<1>3. ~ LacksFields(c)
  <2> SUFFICES ASSUME ModeOf(c) \notin {"any", "update"}
               PROVE  Bodies[use.body].mandatory \subseteq Fields(c)
    BY DEF LacksFields
  <2>1. CASE use.mode = "given"
    <3>1. /\ c.tool \in DOMAIN TargetIds
          /\ BodyOf(c.tool).mandatory = MandatoryFields[c.tool]
          /\ MandatoryFields[c.tool] \subseteq IntoBody(c.tool)
      BY <1>0, <2>1 DEF ModeAgrees
    <3>2. Mode(c) # "update"
      BY <2>1 DEF ModeOf, Mode
    <3>3. MandatoryFields[c.tool] \subseteq c.args
      BY <3>1, <3>2 DEF Complete
    <3>4. QED  BY <1>0, <3>1, <3>3 DEF BodyOf
  <2>2. CASE use.mode # "given"
    BY <1>0, <2>2 DEF ModeAgrees, ModeOf, BodyOf
  <2>3. QED  BY <2>1, <2>2
<1>4. ~ BadTarget(c)
  <2>1. ASSUME ModeOf(c) \in {"replace", "update"} PROVE use.target \in c.args
    <3>1. CASE use.mode = "given"
      BY <1>0, <2>1, <3>1 DEF ModeAgrees, ModeOf, Mode, Complete
    <3>2. CASE use.mode # "given"
      BY <1>0, <2>1, <3>2 DEF ModeAgrees, ModeOf
    <3>3. QED  BY <3>1, <3>2
  <2>2. ASSUME "id" \in Fields(c), use.target \in c.args PROVE c.idMatches
    <3>1. "id" \in Opt(c.tool) /\ "id" \in c.args
      BY <1>0, <2>2 DEF ModeAgrees
    <3>2. c.tool \in DOMAIN TargetIds /\ use.target = TargetIds[c.tool]
      BY <1>0, <3>1 DEF ModeAgrees
    <3>3. QED  BY <2>2, <3>1, <3>2 DEF Complete
  <2>3. QED  BY <2>1, <2>2 DEF BadTarget
<1>5. KeyOf(c) # "malformed"
  BY KeyOfACall
<1>6. QED  BY <1>1, <1>2, <1>3, <1>4, <1>5 DEF Refused

(* A call that gives what its mode asks for reaches the API, whatever else *)
(* it gives: no table drops or rejects what another one admits.  A Git     *)
(* connection given by its id is the exception (docs/api/tools-write.md    *)
(* promises it, _entity_fields drops it).                                  *)
THEOREM CompleteCallsReachTheApi ==
    ASSUME "connection_id" \notin Credentials
    PROVE  Spec => []CompleteCallsAreSent
<1>1. WInv => CompleteCallsAreSent
  BY CompleteIsAdmitted DEF WInv, Judged, CompleteCallsAreSent
<1>2. QED  BY <1>1, CallerInductive, PTL

LEMMA AdmittedIsComplete ==
    ASSUME NEW c \in Calls, Modes \subseteq {"create", "replace", "update"}, ~ Refused(c)
    PROVE  Complete(c)
<1> DEFINE use == UseCases[c.tool]
<1>0. /\ c.tool \in Tools /\ KeyAgrees(c.tool) /\ BodyAgrees(c.tool) /\ ModeAgrees(c.tool)
      /\ Req(c.tool) \subseteq c.args
      /\ c.args \subseteq Req(c.tool) \cup Opt(c.tool)
      /\ Fields(c) = c.args \cap IntoBody(c.tool)
  BY FieldsOfACall DEF Agree
<1>1. ~ BadBody(c) /\ ~ LacksFields(c) /\ ~ BadTarget(c)
  BY DEF Refused
<1>2. ASSUME c.tool \in DOMAIN TargetIds
      PROVE  /\ Mode(c) # "update" => MandatoryFields[c.tool] \subseteq c.args
             /\ Mode(c) # "create" => TargetIds[c.tool] \in c.args
             /\ {"id", TargetIds[c.tool]} \subseteq c.args => c.idMatches
  <2>1. /\ use.mode = "given" /\ use.target = TargetIds[c.tool]
        /\ BodyOf(c.tool).mandatory = MandatoryFields[c.tool]
    BY <1>0, <1>2 DEF ModeAgrees
  <2>2. ModeOf(c) = Mode(c) /\ Mode(c) \in {"create", "replace", "update"}
    BY <2>1, CallShape DEF ModeOf, Mode
  <2>3. Mode(c) # "update" => MandatoryFields[c.tool] \subseteq c.args
    BY <1>0, <1>1, <2>1, <2>2 DEF LacksFields, BodyOf
  <2>4. Mode(c) # "create" => TargetIds[c.tool] \in c.args
    BY <1>1, <2>1, <2>2 DEF BadTarget
  <2>5. "id" \in c.args => "id" \in Fields(c)
    BY <1>0 DEF ModeAgrees
  <2>6. QED  BY <1>1, <2>1, <2>3, <2>4, <2>5 DEF BadTarget
<1>3. ASSUME c.tool \in GitTransfers PROVE Credential \cap c.args # {}
  <2>1. use.body \in NeedCredentials
    BY <1>0, <1>3 DEF BodyAgrees
  <2>2. Fields(c) \cap {"connection_id", "authentication"} # {}
    BY <1>1, <2>1 DEF BadBody
  <2>3. QED  BY <1>0, <2>2 DEF Credential
<1>4. QED  BY <1>2, <1>3 DEF Complete, GitTransfers

(* A call that lacks what its mode asks for, or names two entities at once *)
(* (write_schemas.py, _check_target_id), never gets past the checks, when  *)
(* the mode is one that the schemas declare.                               *)
THEOREM IncompleteCallsCostNothing ==
    ASSUME Modes \subseteq {"create", "replace", "update"}
    PROVE  Spec => []IncompleteCallsAreRefused
<1>1. WInv => IncompleteCallsAreRefused
  BY AdmittedIsComplete DEF WInv, Judged, IncompleteCallsAreRefused
<1>2. QED  BY <1>1, CallerInductive, PTL

(* What the paths are made of.                                             *)
Words == PathArguments \cup
    {"projects", "versions", "measures", "dimensions", "facts", "dimension-groups",
     "fact-tables", "relationships", "verification-filters", "git-connections", "access",
     "owner", "export", "import", "git", "file", "validate", "preview", "test", "bulk"}

(* A path that leads, through the ids ids each after its own collection,   *)
(* to the subject word, and ends with end.                                 *)
Leads(path, ids, word, end) ==
    /\ path \in Seq(Words) /\ path # <<>> /\ path[Len(path)] = end
    /\ Ids(path) = ids
    /\ \A i \in DOMAIN path : path[i] \in PathArguments =>
          i - 1 \in DOMAIN path /\ path[i - 1] = Under[path[i]]
    /\ \E i \in DOMAIN path :
          /\ path[i] = word
          /\ \A j \in i + 1..Len(path) : path[j] \in PathArguments \cup {"bulk"}

LEMMA LeadsFurther ==
    ASSUME NEW path \in Seq(Words), NEW x \in Words
    PROVE  /\ path \o <<x>> \in Seq(Words)
           /\ Len(path \o <<x>>) = Len(path) + 1
           /\ (path \o <<x>>)[Len(path) + 1] = x
           /\ \A i \in DOMAIN path : (path \o <<x>>)[i] = path[i]
           /\ DOMAIN (path \o <<x>>) = DOMAIN path \cup {Len(path) + 1}
           /\ Ids(path \o <<x>>) = Ids(path) \cup ({x} \cap PathArguments)
<1>0. <<x>> \in Seq(Words) /\ Len(<<x>>) = 1 /\ <<x>>[1] = x
  OBVIOUS
<1>a. Len(path) \in Nat /\ DOMAIN path = 1..Len(path)
  BY LenProperties
<1>b. /\ path \o <<x>> \in Seq(Words)
      /\ Len(path \o <<x>>) = Len(path) + 1
      /\ \A i \in 1..Len(path) + 1 :
            (path \o <<x>>)[i] = IF i <= Len(path) THEN path[i] ELSE <<x>>[i - Len(path)]
  BY <1>0, ConcatProperties
<1>c. /\ Len(path) + 1 \in 1..Len(path) + 1 /\ ~ Len(path) + 1 <= Len(path)
      /\ Len(path) + 1 - Len(path) = 1
  BY <1>a
<1>1. /\ (path \o <<x>>)[Len(path) + 1] = x
      /\ \A i \in DOMAIN path : (path \o <<x>>)[i] = path[i]
  BY <1>0, <1>a, <1>b, <1>c
<1>2. DOMAIN (path \o <<x>>) = DOMAIN path \cup {Len(path) + 1}
  <2>1. DOMAIN (path \o <<x>>) = 1..Len(path) + 1
    BY <1>b, LenProperties
  <2>2. QED  BY <1>a, <2>1
<1> DEFINE more == path \o <<x>>
<1> HIDE DEF more
<1>3. {more[i] : i \in DOMAIN more} = {path[i] : i \in DOMAIN path} \cup {x}
  BY <1>1, <1>2 DEF more
<1>4. Ids(more) = Ids(path) \cup ({x} \cap PathArguments)
  BY <1>3 DEF Ids
<1>5. QED  BY <1>1, <1>2, <1>4, <1>b DEF more

LEMMA ThenAnId ==
    ASSUME NEW path, NEW ids, NEW word, NEW x \in PathArguments,
           Leads(path, ids, word, Under[x])
    PROVE  Leads(path \o <<x>>, ids \cup {x}, word, x)
<1> DEFINE more == path \o <<x>>
<1>1. /\ path \in Seq(Words) /\ Len(path) \in Nat \ {0} /\ path[Len(path)] = Under[x]
      /\ DOMAIN path = 1..Len(path)
  BY DEF Leads
<1>2. /\ more \in Seq(Words) /\ Len(more) = Len(path) + 1
      /\ more[Len(path) + 1] = x
      /\ \A i \in DOMAIN path : more[i] = path[i]
      /\ DOMAIN more = DOMAIN path \cup {Len(path) + 1}
      /\ Ids(more) = Ids(path) \cup ({x} \cap PathArguments)
  BY <1>1, LeadsFurther DEF Words
<1> HIDE DEF more
<1>3. more # <<>> /\ more[Len(more)] = x
  BY <1>1, <1>2
<1>4. ASSUME NEW i \in DOMAIN more, more[i] \in PathArguments
      PROVE  i - 1 \in DOMAIN more /\ more[i - 1] = Under[more[i]]
  <2>1. CASE i \in DOMAIN path
    BY <1>2, <1>4, <2>1 DEF Leads
  <2>2. CASE i = Len(path) + 1
    <3>1. i - 1 = Len(path) /\ Len(path) \in DOMAIN path
      BY <1>1, <2>2
    <3>2. QED  BY <1>1, <1>2, <2>2, <3>1
  <2>3. QED  BY <1>2, <2>1, <2>2
<1>5. PICK i \in DOMAIN path :
        /\ path[i] = word
        /\ \A j \in i + 1..Len(path) : path[j] \in PathArguments \cup {"bulk"}
  BY DEF Leads
<1>6. \A j \in i + 1..Len(more) : more[j] \in PathArguments \cup {"bulk"}
  <2> TAKE j \in i + 1..Len(more)
  <2>1. (j \in i + 1..Len(path) /\ j \in DOMAIN path) \/ j = Len(path) + 1
    BY <1>1, <1>2
  <2>2. QED  BY <1>2, <1>5, <2>1
<1>7. Ids(more) = ids \cup {x}
  BY <1>2 DEF Leads
<1>8. QED  BY <1>2, <1>3, <1>4, <1>5, <1>6, <1>7 DEF Leads, more

LEMMA ThenBulk ==
    ASSUME NEW path, NEW ids, NEW word, NEW end, Leads(path, ids, word, end)
    PROVE  Leads(path \o <<"bulk">>, ids, word, "bulk")
<1> DEFINE more == path \o <<"bulk">>
<1>a. "bulk" \in Words /\ "bulk" \notin PathArguments
  BY DEF Words, PathArguments, ControlKeys
<1>1. path \in Seq(Words) /\ Len(path) \in Nat \ {0} /\ DOMAIN path = 1..Len(path)
  BY DEF Leads
<1>2. /\ more \in Seq(Words) /\ Len(more) = Len(path) + 1
      /\ more[Len(path) + 1] = "bulk"
      /\ \A i \in DOMAIN path : more[i] = path[i]
      /\ DOMAIN more = DOMAIN path \cup {Len(path) + 1}
      /\ Ids(more) = Ids(path) \cup ({"bulk"} \cap PathArguments)
  BY <1>1, <1>a, LeadsFurther
<1> HIDE DEF more
<1>3. more # <<>> /\ more[Len(more)] = "bulk"
  BY <1>1, <1>2
<1>4. ASSUME NEW i \in DOMAIN more, more[i] \in PathArguments
      PROVE  i - 1 \in DOMAIN more /\ more[i - 1] = Under[more[i]]
  BY <1>2, <1>4, <1>a DEF Leads
<1>5. PICK i \in DOMAIN path :
        /\ path[i] = word
        /\ \A j \in i + 1..Len(path) : path[j] \in PathArguments \cup {"bulk"}
  BY DEF Leads
<1>6. \A j \in i + 1..Len(more) : more[j] \in PathArguments \cup {"bulk"}
  <2> TAKE j \in i + 1..Len(more)
  <2>1. (j \in i + 1..Len(path) /\ j \in DOMAIN path) \/ j = Len(path) + 1
    BY <1>1, <1>2
  <2>2. QED  BY <1>2, <1>5, <2>1
<1>7. Ids(more) = ids
  BY <1>2, <1>a DEF Leads
<1>8. QED  BY <1>2, <1>3, <1>4, <1>5, <1>6, <1>7 DEF Leads, more

LEMMA ThenASubject ==
    ASSUME NEW path, NEW ids, NEW word, NEW end, NEW x \in Words, x \notin PathArguments,
           Leads(path, ids, word, end)
    PROVE  Leads(path \o <<x>>, ids, x, x)
<1> DEFINE more == path \o <<x>>
<1>1. path \in Seq(Words) /\ Len(path) \in Nat \ {0} /\ DOMAIN path = 1..Len(path)
  BY DEF Leads
<1>2. /\ more \in Seq(Words) /\ Len(more) = Len(path) + 1
      /\ more[Len(path) + 1] = x
      /\ \A i \in DOMAIN path : more[i] = path[i]
      /\ DOMAIN more = DOMAIN path \cup {Len(path) + 1}
      /\ Ids(more) = Ids(path) \cup ({x} \cap PathArguments)
  BY <1>1, LeadsFurther
<1> HIDE DEF more
<1>3. more # <<>> /\ more[Len(more)] = x
  BY <1>1, <1>2
<1>4. ASSUME NEW i \in DOMAIN more, more[i] \in PathArguments
      PROVE  i - 1 \in DOMAIN more /\ more[i - 1] = Under[more[i]]
  BY <1>2, <1>4 DEF Leads
<1>5. \E i \in DOMAIN more :
         /\ more[i] = x
         /\ \A j \in i + 1..Len(more) : more[j] \in PathArguments \cup {"bulk"}
  <2>1. Len(path) + 1 \in DOMAIN more /\ more[Len(path) + 1] = x
    BY <1>1, <1>2
  <2>2. \A j \in Len(path) + 1 + 1..Len(more) : FALSE
    BY <1>1, <1>2
  <2>3. QED  BY <2>1, <2>2
<1>6. Ids(more) = ids
  BY <1>2 DEF Leads
<1>7. QED  BY <1>1, <1>2, <1>3, <1>4, <1>5, <1>6 DEF Leads, more

LEMMA TwoWords ==
    ASSUME NEW x \in Words, NEW y \in Words PROVE <<x, y>> = <<x>> \o <<y>>
<1>1. /\ <<x, y>> \in Seq(Words) /\ <<x>> \o <<y>> \in Seq(Words)
      /\ Len(<<x, y>>) = 2 /\ Len(<<x>> \o <<y>>) = 2
      /\ (<<x>> \o <<y>>)[1] = x /\ (<<x>> \o <<y>>)[2] = y
  OBVIOUS
<1>2. \A i \in 1..Len(<<x, y>>) : <<x, y>>[i] = (<<x>> \o <<y>>)[i]
  BY <1>1
<1>3. QED  BY <1>1, <1>2, SeqEqual

LEMMA ThenTwo ==
    ASSUME NEW path, NEW ids, NEW word, NEW end, Leads(path, ids, word, end),
           NEW x \in Words, NEW y \in Words
    PROVE  /\ x \notin PathArguments /\ y \notin PathArguments =>
                Leads(path \o <<x, y>>, ids, y, y)
           /\ x \notin PathArguments /\ y \in PathArguments /\ Under[y] = x =>
                Leads(path \o <<x, y>>, ids \cup {y}, x, y)
           /\ x \in PathArguments /\ y \in PathArguments /\ Under[x] = end /\ Under[y] = x =>
                Leads(path \o <<x, y>>, ids \cup {x, y}, word, y)
<1>1. path \o <<x, y>> = (path \o <<x>>) \o <<y>>
  <2>1. path \in Seq(Words) /\ <<x>> \in Seq(Words) /\ <<y>> \in Seq(Words)
    BY DEF Leads
  <2>2. QED  BY <2>1, TwoWords, ConcatAssociative
<1>2. ASSUME x \notin PathArguments PROVE Leads(path \o <<x>>, ids, x, x)
  BY <1>2, ThenASubject
<1>3. ASSUME x \in PathArguments, Under[x] = end
      PROVE  Leads(path \o <<x>>, ids \cup {x}, word, x)
  BY <1>3, ThenAnId
<1>4. ASSUME x \notin PathArguments, y \notin PathArguments
      PROVE  Leads(path \o <<x, y>>, ids, y, y)
  BY <1>1, <1>2, <1>4, ThenASubject
<1>5. ASSUME x \notin PathArguments, y \in PathArguments, Under[y] = x
      PROVE  Leads(path \o <<x, y>>, ids \cup {y}, x, y)
  BY <1>1, <1>2, <1>5, ThenAnId
<1>6. ASSUME x \in PathArguments, y \in PathArguments, Under[x] = end, Under[y] = x
      PROVE  Leads(path \o <<x, y>>, ids \cup {x, y}, word, y)
  <2>1. Leads((path \o <<x>>) \o <<y>>, (ids \cup {x}) \cup {y}, word, y)
    BY <1>3, <1>6, ThenAnId
  <2>2. (ids \cup {x}) \cup {y} = ids \cup {x, y}
    OBVIOUS
  <2>3. QED  BY <1>1, <2>1, <2>2
<1>7. QED  BY <1>4, <1>5, <1>6

LEMMA PathsStart ==
    ASSUME NEW x \in Words, x \notin PathArguments
    PROVE  /\ Leads(<<x>>, {}, x, x)
           /\ \A y \in PathArguments : Under[y] = x => Leads(<<x, y>>, {y}, x, y)
<1>1. /\ <<x>> \in Seq(Words) /\ <<x>> # <<>> /\ Len(<<x>>) = 1 /\ <<x>>[1] = x
      /\ DOMAIN <<x>> = {1}
  OBVIOUS
<1> DEFINE one == <<x>>
<1>2. Leads(one, {}, x, x)
  <2>1. one[Len(one)] = x /\ 1 \in DOMAIN one /\ one \in Seq(Words) /\ one # <<>>
    BY <1>1
  <2>2. Ids(one) = {}
    BY <1>1 DEF Ids
  <2>3. \A i \in DOMAIN one : one[i] \notin PathArguments
    BY <1>1
  <2>4. \A j \in 1 + 1..Len(one) : FALSE
    BY <1>1
  <2> HIDE DEF one
  <2>5. \E i \in DOMAIN one :
           /\ one[i] = x
           /\ \A j \in i + 1..Len(one) : one[j] \in PathArguments \cup {"bulk"}
    BY <1>1, <2>1, <2>4 DEF one
  <2>6. QED  BY <2>1, <2>2, <2>3, <2>5 DEF Leads
<1>3. ASSUME NEW y \in PathArguments, Under[y] = x PROVE Leads(<<x, y>>, {y}, x, y)
  <2>1. Leads(<<x>> \o <<y>>, {} \cup {y}, x, y)
    BY <1>2, <1>3, ThenAnId
  <2>2. <<x, y>> = <<x>> \o <<y>> /\ {} \cup {y} = {y}
    BY TwoWords DEF Words
  <2>3. QED  BY <2>1, <2>2
<1>4. QED  BY <1>2, <1>3

(* The paths of the endpoint methods lead where their names say.          *)
LEMMA PathsLead ==
    /\ Leads(<<"projects">>, {}, "projects", "projects")
    /\ Leads(<<"git-connections">>, {}, "git-connections", "git-connections")
    /\ Leads(Project, {"project_id"}, "projects", "project_id")
    /\ Leads(Project \o <<"versions">>, {"project_id"}, "versions", "versions")
    /\ Leads(Version, PV, "versions", "version_id")
    /\ Leads(Measures, PV, "measures", "measures")
    /\ Leads(Measures \o <<"measure_id">>,
             PV \cup {"measure_id"}, "measures", "measure_id")
    /\ Leads(Measures \o <<"bulk">>, PV, "measures", "bulk")
    /\ Leads(Dimensions, PV, "dimensions", "dimensions")
    /\ Leads(Dimensions \o <<"dimension_id">>,
             PV \cup {"dimension_id"}, "dimensions", "dimension_id")
    /\ Leads(Dimensions \o <<"bulk">>, PV, "dimensions", "bulk")
    /\ Leads(Facts, PV, "facts", "facts")
    /\ Leads(Facts \o <<"fact_id">>, PV \cup {"fact_id"}, "facts", "fact_id")
    /\ Leads(Facts \o <<"bulk">>, PV, "facts", "bulk")
    /\ Leads(Groups, PV, "dimension-groups", "dimension-groups")
    /\ Leads(Group,
             PV \cup {"dimension_group_id"}, "dimension-groups", "dimension_group_id")
    /\ Leads(Group \o <<"dimensions">>,
             PV \cup {"dimension_group_id"}, "dimensions", "dimensions")
    /\ Leads(Group \o <<"dimensions", "dimension_id">>,
             PV \cup {"dimension_group_id", "dimension_id"}, "dimensions", "dimension_id")
    /\ Leads(FactTables, PV, "fact-tables", "fact-tables")
    /\ Leads(FactTable, PV \cup {"fact_table_id"}, "fact-tables", "fact_table_id")
    /\ Leads(FactTable \o <<"element_type">>,
             PV \cup {"fact_table_id", "element_type"}, "fact-tables", "element_type")
    /\ Leads(FactTable \o <<"element_type", "element_id">>,
             PV \cup {"fact_table_id", "element_type", "element_id"},
             "fact-tables", "element_id")
    /\ Leads(Relationships, PV, "relationships", "relationships")
    /\ Leads(Relationships \o <<"relationship_id">>,
             PV \cup {"relationship_id"}, "relationships", "relationship_id")
    /\ Leads(Project \o <<"access">>, {"project_id"}, "access", "access")
    /\ Leads(Project \o <<"access", "user_id">>,
             {"project_id", "user_id"}, "access", "user_id")
    /\ Leads(Project \o <<"owner">>, {"project_id"}, "owner", "owner")
    /\ Leads(Version \o <<"export", "git">>, PV, "git", "git")
    /\ Leads(Version \o <<"export", "file">>, PV, "file", "file")
    /\ Leads(Version \o <<"import", "validate">>, PV, "validate", "validate")
    /\ Leads(Version \o <<"import", "preview">>, PV, "preview", "preview")
    /\ Leads(Version \o <<"import", "git">>, PV, "git", "git")
    /\ Leads(Version \o <<"import", "file">>, PV, "file", "file")
    /\ Leads(GitConnection, {"connection_id"}, "git-connections", "connection_id")
    /\ Leads(GitConnection \o <<"test">>, {"connection_id"}, "test", "test")
<1>1. /\ \A x \in {"projects", "versions", "measures", "dimensions", "facts",
               "dimension-groups", "fact-tables", "relationships",
               "verification-filters", "git-connections",
               "access", "owner", "export", "import", "git", "file", "validate", "preview",
               "test"} : x \in Words /\ x \notin PathArguments
      /\ \A x \in DOMAIN Under : x \in Words /\ x \in PathArguments
  BY DEF Words, PathArguments, ControlKeys, Under
<1>2. Leads(<<"projects">>, {}, "projects", "projects")
  BY <1>1, PathsStart
<1>3. Leads(<<"git-connections">>, {}, "git-connections", "git-connections")
  BY <1>1, PathsStart
<1>4. Leads(Project, {"project_id"}, "projects", "project_id")
  BY <1>1, PathsStart DEF Under, Project
<1>5. Leads(Project \o <<"versions">>, {"project_id"}, "versions", "versions")
  BY <1>1, <1>4, ThenASubject
<1>6. Leads(Version, PV, "versions", "version_id")
  <2>1. Leads(Project \o <<"versions", "version_id">>,
              {"project_id"} \cup {"version_id"}, "versions", "version_id")
    BY <1>1, <1>4, ThenTwo DEF Under
  <2>2. {"project_id"} \cup {"version_id"} = PV
    BY DEF PV
  <2>3. QED  BY <2>1, <2>2 DEF Version
<1>7. Leads(Measures, PV, "measures", "measures")
  BY <1>1, <1>6, ThenASubject DEF Measures
<1>8. Leads(Measures \o <<"measure_id">>, PV \cup {"measure_id"}, "measures", "measure_id")
  BY <1>1, <1>7, ThenAnId DEF Under
<1>9. Leads(Measures \o <<"bulk">>, PV, "measures", "bulk")
  BY <1>7, ThenBulk
<1>10. Leads(Dimensions, PV, "dimensions", "dimensions")
  BY <1>1, <1>6, ThenASubject DEF Dimensions
<1>11. Leads(Dimensions \o <<"dimension_id">>,
             PV \cup {"dimension_id"}, "dimensions", "dimension_id")
  BY <1>1, <1>10, ThenAnId DEF Under
<1>12. Leads(Dimensions \o <<"bulk">>, PV, "dimensions", "bulk")
  BY <1>10, ThenBulk
<1>13. Leads(Facts, PV, "facts", "facts")
  BY <1>1, <1>6, ThenASubject DEF Facts
<1>14. Leads(Facts \o <<"fact_id">>, PV \cup {"fact_id"}, "facts", "fact_id")
  BY <1>1, <1>13, ThenAnId DEF Under
<1>15. Leads(Facts \o <<"bulk">>, PV, "facts", "bulk")
  BY <1>13, ThenBulk
<1>16. Leads(Groups, PV, "dimension-groups", "dimension-groups")
  BY <1>1, <1>6, ThenASubject DEF Groups
<1>17. Leads(Group,
             PV \cup {"dimension_group_id"}, "dimension-groups", "dimension_group_id")
  BY <1>1, <1>16, ThenAnId DEF Under, Group
<1>18. Leads(Group \o <<"dimensions">>,
             PV \cup {"dimension_group_id"}, "dimensions", "dimensions")
  BY <1>1, <1>17, ThenASubject
<1>19. Leads(Group \o <<"dimensions", "dimension_id">>,
             PV \cup {"dimension_group_id", "dimension_id"}, "dimensions", "dimension_id")
  <2>1. Leads(Group \o <<"dimensions", "dimension_id">>,
              (PV \cup {"dimension_group_id"}) \cup {"dimension_id"},
              "dimensions", "dimension_id")
    BY <1>1, <1>17, ThenTwo DEF Under
  <2>2. (PV \cup {"dimension_group_id"}) \cup {"dimension_id"} =
          PV \cup {"dimension_group_id", "dimension_id"}
    BY DEF PV
  <2>3. QED  BY <2>1, <2>2
<1>20. Leads(FactTables, PV, "fact-tables", "fact-tables")
  BY <1>1, <1>6, ThenASubject DEF FactTables
<1>21. Leads(FactTable, PV \cup {"fact_table_id"}, "fact-tables", "fact_table_id")
  BY <1>1, <1>20, ThenAnId DEF Under, FactTable
<1>22. Leads(FactTable \o <<"element_type">>,
             PV \cup {"fact_table_id", "element_type"}, "fact-tables", "element_type")
  BY <1>1, <1>21, ThenAnId DEF Under
<1>23. Leads(FactTable \o <<"element_type", "element_id">>,
             PV \cup {"fact_table_id", "element_type", "element_id"},
             "fact-tables", "element_id")
  <2>1. Leads(FactTable \o <<"element_type", "element_id">>,
              (PV \cup {"fact_table_id"}) \cup {"element_type", "element_id"},
              "fact-tables", "element_id")
    BY <1>1, <1>21, ThenTwo DEF Under
  <2>2. (PV \cup {"fact_table_id"}) \cup {"element_type", "element_id"} =
          PV \cup {"fact_table_id", "element_type", "element_id"}
    BY DEF PV
  <2>3. QED  BY <2>1, <2>2
<1>24. Leads(Relationships, PV, "relationships", "relationships")
  BY <1>1, <1>6, ThenASubject DEF Relationships
<1>25. Leads(Relationships \o <<"relationship_id">>,
             PV \cup {"relationship_id"}, "relationships", "relationship_id")
  BY <1>1, <1>24, ThenAnId DEF Under
<1>26. Leads(Project \o <<"access">>, {"project_id"}, "access", "access")
  BY <1>1, <1>4, ThenASubject
<1>27. Leads(Project \o <<"access", "user_id">>,
             {"project_id", "user_id"}, "access", "user_id")
  <2>1. Leads(Project \o <<"access", "user_id">>,
              {"project_id"} \cup {"user_id"}, "access", "user_id")
    BY <1>1, <1>4, ThenTwo DEF Under
  <2>2. {"project_id"} \cup {"user_id"} = {"project_id", "user_id"}
    BY DEF PV
  <2>3. QED  BY <2>1, <2>2
<1>28. Leads(Project \o <<"owner">>, {"project_id"}, "owner", "owner")
  BY <1>1, <1>4, ThenASubject
<1>29. Leads(Version \o <<"export", "git">>, PV, "git", "git")
  BY <1>1, <1>6, ThenTwo DEF Under
<1>30. Leads(Version \o <<"export", "file">>, PV, "file", "file")
  BY <1>1, <1>6, ThenTwo DEF Under
<1>31. Leads(Version \o <<"import", "validate">>, PV, "validate", "validate")
  BY <1>1, <1>6, ThenTwo DEF Under
<1>32. Leads(Version \o <<"import", "preview">>, PV, "preview", "preview")
  BY <1>1, <1>6, ThenTwo DEF Under
<1>33. Leads(Version \o <<"import", "git">>, PV, "git", "git")
  BY <1>1, <1>6, ThenTwo DEF Under
<1>34. Leads(Version \o <<"import", "file">>, PV, "file", "file")
  BY <1>1, <1>6, ThenTwo DEF Under
<1>35. Leads(GitConnection, {"connection_id"}, "git-connections", "connection_id")
  BY <1>1, PathsStart DEF Under, GitConnection
<1>36. Leads(GitConnection \o <<"test">>, {"connection_id"}, "test", "test")
  BY <1>1, <1>35, ThenASubject
<1>37. QED  BY <1>2, <1>3, <1>4, <1>5, <1>6, <1>7, <1>8, <1>9, <1>10, <1>11, <1>12, <1>13, <1>14, <1>15, <1>16, <1>17, <1>18, <1>19, <1>20, <1>21, <1>22, <1>23, <1>24, <1>25, <1>26, <1>27, <1>28, <1>29, <1>30, <1>31, <1>32, <1>33, <1>34, <1>35, <1>36

-----------------------------------------------------------------------------
(* What becomes of the arguments of a tool: the ids of its path are        *)
(* required, its path ends at its subject, and every other argument goes   *)
(* into the content, apart from the mode, the key and the spare ones.      *)
Settled(t, ids, word, spare) ==
    /\ ids \subseteq Req(t)
    /\ Req(t) \cup Opt(t) \subseteq
          ids \cup IntoBody(t) \cup (Names(t) \cap {"file_path"}) \cup spare
          \cup {"mode", "idempotency_key"} \cup ({"connection_id"} \ Req(t))
    /\ \A s \in Subjects : t \in s[2] => s[1] = word

(* What ArgumentsReachTheRequest asks for the call c.                      *)
TargetOf(c) == IF c.tool \in DOMAIN TargetIds THEN TargetIds[c.tool] ELSE "none"
ArgumentsArrive(c) ==
    LET r == Request(c)
        path == r.path
    IN /\ c.args \ {"mode", "idempotency_key"} \subseteq
            Ids(path) \cup r.content \cup (IF Mode(c) =
          "create" THEN {TargetOf(c)} ELSE {})
       /\ r.content \subseteq c.args \cup {"target_method"}
       /\ \A i \in DOMAIN path : path[i] \in Ids(path) => path[i - 1] = Under[path[i]]
       /\ \A s \in Subjects : c.tool \in s[2] =>
            \E i \in DOMAIN path : path[i] = s[1] /\ \A j \in i + 1..Len(path) :
                                       path[j] \in PathArguments \cup {"bulk"}
       /\ c.tool \in DOMAIN TargetIds => r.method = Methods[Mode(c)]

LEMMA ContentOfACall ==
    ASSUME NEW c \in Calls
    PROVE  /\ Content(c) \subseteq c.args \cup {"target_method"}
           /\ c.args \cap (IntoBody(c.tool) \cup (Names(c.tool) \cap {"file_path"}))
                \subseteq Content(c)
<1>1. Fields(c) = c.args \cap IntoBody(c.tool)
  BY FieldsOfACall
<1>2. NamedArguments(c) = c.args \cap Names(c.tool)
  BY DEF NamedArguments, Names
<1>3. QED  BY <1>1, <1>2 DEF Content

LEMMA ArgumentsSettled ==
    ASSUME NEW c \in Calls, "connection_id" \notin Credentials,
           NEW ids, NEW word, NEW spare, Settled(c.tool, ids, word, spare)
    PROVE  /\ ids \subseteq c.args
           /\ c.args \ {"mode", "idempotency_key"} \subseteq
                ids \cup Content(c) \cup (spare \cap c.args)
<1>1. /\ Req(c.tool) \subseteq c.args
      /\ c.args \subseteq Req(c.tool) \cup Opt(c.tool)
  BY FieldsOfACall
<1>2. "connection_id" \in c.args => "connection_id" \in Req(c.tool)
  BY CallShape DEF Credential, Req
<1>3. ids \subseteq c.args
  BY <1>1 DEF Settled
<1>4. ASSUME NEW x \in c.args, x \notin {"mode", "idempotency_key"}
      PROVE  x \in ids \cup Content(c) \cup (spare \cap c.args)
  <2>1. x \in ids \cup IntoBody(c.tool) \cup (Names(c.tool) \cap {"file_path"}) \cup spare
    BY <1>1, <1>2, <1>4 DEF Settled
  <2>2. QED  BY <2>1, ContentOfACall
<1>5. QED  BY <1>3, <1>4

(* When every id of the path is given, the path is sent as it is.          *)
LEMMA PathsAreSent ==
    ASSUME NEW c, NEW ids \in SUBSET c.args, NEW word, NEW end,
           Leads(Endpoint(c).path, ids, word, end)
    PROVE  Request(c).path = Endpoint(c).path
<1> DEFINE path == Endpoint(c).path
<1>1. path \in Seq(Words) /\ Ids(path) = ids
  BY DEF Leads
<1>2. ASSUME NEW i \in DOMAIN path PROVE Printed(c, path[i]) = path[i]
  <2>1. path[i] \in PathArguments => path[i] \in c.args
    BY <1>1 DEF Ids
  <2>2. QED  BY <2>1 DEF Printed
<1>3. path = [i \in DOMAIN path |-> path[i]]
  BY <1>1
<1>4. Request(c).path = [i \in DOMAIN path |-> Printed(c, path[i])]
  BY DEF Request
<1> HIDE DEF path
<1>5. QED  BY <1>2, <1>3, <1>4 DEF path

LEMMA Arrival ==
    ASSUME NEW c \in Calls, NEW ids \in SUBSET c.args, NEW word, NEW end,
           Leads(Endpoint(c).path, ids, word, end),
           \A s \in Subjects : c.tool \in s[2] => s[1] = word,
           c.args \ {"mode", "idempotency_key"} \subseteq
              ids \cup Content(c) \cup (IF Mode(c) = "create" THEN {TargetOf(c)} ELSE {}),
           c.tool \in DOMAIN TargetIds => Endpoint(c).method = Methods[Mode(c)]
    PROVE  ArgumentsArrive(c)
<1> DEFINE path == Endpoint(c).path
<1>1. /\ Request(c).path = path /\ Request(c).content = Content(c)
      /\ Request(c).method = Endpoint(c).method
  BY PathsAreSent DEF Request
<1>2. /\ Ids(path) = ids
      /\ \A i \in DOMAIN path : path[i] \in PathArguments => path[i - 1] = Under[path[i]]
      /\ \E i \in DOMAIN path : /\ path[i] = word
                                /\ \A j \in i + 1..Len(path) :
                                      path[j] \in PathArguments \cup {"bulk"}
  BY DEF Leads
<1>3. \A i \in DOMAIN path : path[i] \in Ids(path) => path[i] \in PathArguments
  BY DEF Ids
<1>4. Content(c) \subseteq c.args \cup {"target_method"}
  BY ContentOfACall
<1> HIDE DEF path
<1>5. QED  BY <1>1, <1>2, <1>3, <1>4 DEF ArgumentsArrive

(* A tool whose path is always the same.                                   *)
LEMMA PlainArrival ==
    ASSUME NEW c \in Calls, "connection_id" \notin Credentials, c.tool \notin DOMAIN TargetIds,
           NEW ids, NEW word, NEW end, Settled(c.tool, ids, word, {}),
           Leads(Endpoint(c).path, ids, word, end)
    PROVE  ArgumentsArrive(c)
<1>1. /\ ids \subseteq c.args
      /\ c.args \ {"mode", "idempotency_key"} \subseteq ids \cup Content(c) \cup ({} \cap c.args)
  BY ArgumentsSettled
<1>2. \A s \in Subjects : c.tool \in s[2] => s[1] = word
  BY DEF Settled
<1>3. QED  BY <1>1, <1>2, Arrival

(* A tool with a mode: its path ends with the target but in a create.  A   *)
(* filter hangs below its fact table when one is given.                    *)
FilterIds(c) == PV \cup (c.args \cap {"fact_table_id"})
PathIds(c) == IF c.tool = "df_write_verification_filter" THEN FilterIds(c) ELSE PV

LEMMA ModalArrival ==
    ASSUME NEW c \in Calls, "connection_id" \notin Credentials, ~ Refused(c),
           Modes \subseteq {"create", "replace", "update"}, c.tool \in DOMAIN TargetIds,
           NEW word, NEW spare, Settled(c.tool, PV, word, spare),
           spare \cap c.args \subseteq PathIds(c) \cup {TargetOf(c)},
           Mode(c) = "create" =>
              /\ Endpoint(c).method = "POST"
              /\ Leads(Endpoint(c).path, PathIds(c), word, word),
           Mode(c) # "create" /\ TargetOf(c) \in c.args =>
              /\ Endpoint(c).method = Methods[Mode(c)]
              /\ Leads(Endpoint(c).path, PathIds(c) \cup {TargetOf(c)}, word, TargetOf(c))
    PROVE  ArgumentsArrive(c)
<1>1. /\ PV \subseteq c.args
      /\ c.args \ {"mode", "idempotency_key"} \subseteq
           PV \cup Content(c) \cup (spare \cap c.args)
  BY ArgumentsSettled
<1>2. \A s \in Subjects : c.tool \in s[2] => s[1] = word
  BY DEF Settled
<1>3. PV \subseteq PathIds(c) /\ PathIds(c) \in SUBSET c.args
  BY <1>1 DEF PathIds, FilterIds
<1>4. CASE Mode(c) = "create"
  <2>1. Endpoint(c).method = Methods[Mode(c)]
    BY <1>4 DEF Methods
  <2>2. c.args \ {"mode", "idempotency_key"} \subseteq
           PathIds(c) \cup Content(c) \cup (IF Mode(c) =
          "create" THEN {TargetOf(c)} ELSE {})
    BY <1>1, <1>3, <1>4
  <2>3. QED  BY <1>2, <1>3, <1>4, <2>1, <2>2, Arrival
<1>5. CASE Mode(c) # "create"
  <2>1. TargetOf(c) \in c.args
    BY <1>5, AdmittedIsComplete DEF Complete, TargetOf
  <2>2. PathIds(c) \cup {TargetOf(c)} \in SUBSET c.args
    BY <1>3, <2>1
  <2>3. c.args \ {"mode", "idempotency_key"} \subseteq
           (PathIds(c) \cup {TargetOf(c)}) \cup Content(c)
           \cup (IF Mode(c) = "create" THEN {TargetOf(c)} ELSE {})
    BY <1>1, <1>3
  <2>4. QED  BY <1>2, <1>5, <2>1, <2>2, <2>3, Arrival
<1>6. QED  BY <1>4, <1>5

LEMMA FiltersLead ==
    ASSUME NEW c
    PROVE  /\ Leads(FilterPath(c),
                    FilterIds(c), "verification-filters", "verification-filters")
           /\ "filter_id" \in c.args =>
                Leads(OneFilterPath(c), FilterIds(c) \cup {"filter_id"},
                      "verification-filters", "filter_id")
<1>1. /\ "verification-filters" \in Words /\ "verification-filters" \notin PathArguments
      /\ "filter_id" \in PathArguments /\ Under["filter_id"] = "verification-filters"
  BY DEF Words, PathArguments, ControlKeys, Under
<1>2. Leads(FilterPath(c), FilterIds(c), "verification-filters", "verification-filters")
  <2>1. CASE "fact_table_id" \in c.args
    <3>1. FilterIds(c) = PV \cup {"fact_table_id"}
      BY <2>1 DEF FilterIds
    <3>2. Leads(FactTable, FilterIds(c), "fact-tables", "fact_table_id")
      BY <3>1, PathsLead
    <3>3. QED  BY <1>1, <2>1, <3>2, ThenASubject DEF FilterPath
  <2>2. CASE "fact_table_id" \notin c.args
    <3>1. FilterIds(c) = PV
      BY <2>2 DEF FilterIds
    <3>2. Leads(Version, FilterIds(c), "versions", "version_id")
      BY <3>1, PathsLead
    <3>3. QED  BY <1>1, <2>2, <3>2, ThenASubject DEF FilterPath
  <2>3. QED  BY <2>1, <2>2
<1>3. ASSUME "filter_id" \in c.args
      PROVE  Leads(OneFilterPath(c), FilterIds(c) \cup {"filter_id"},
                   "verification-filters", "filter_id")
  <2>1. OneFilterPath(c) = FilterPath(c) \o <<"filter_id">>
    BY <1>3 DEF OneFilterPath
  <2>2. QED  BY <1>1, <1>2, <2>1, ThenAnId
<1>4. QED  BY <1>2, <1>3

LEMMA ProjectArgumentsArrive ==
    ASSUME NEW c \in Calls, c.tool \in DOMAIN ProjectSchemas, "connection_id" \notin
           Credentials
    PROVE  ArgumentsArrive(c)
<1>1. DOMAIN ProjectSchemas = {"df_create_project", "df_update_project",
          "df_delete_project", "df_create_version", "df_update_version",
          "df_delete_version"}
  BY DEF ProjectSchemas
<1>2. \A t \in DOMAIN ProjectSchemas :
        /\ Schemas[t] = ProjectSchemas[t]
        /\ Handlers[t] = ProjectHandlers[t]
        /\ UseCases[t] = ProjectUseCases[t]
  BY <1>1, SchemaRows, HandlerRows, UseCaseRows DEF ProjectHandlers, ProjectUseCases
<1>3. /\ \A b \in DOMAIN EntityBodies : Bodies[b] = EntityBodies[b]
      /\ \A b \in DOMAIN OtherBodies : Bodies[b] = OtherBodies[b]
  BY BodyRows
<1>4. CASE c.tool = "df_create_project"
  <2>1. /\ Schemas["df_create_project"] = ProjectSchemas["df_create_project"]
        /\ Handlers["df_create_project"] = ProjectHandlers["df_create_project"]
        /\ UseCases["df_create_project"] = ProjectUseCases["df_create_project"]
        /\ Bodies["ProjectWrite"] = EntityBodies["ProjectWrite"]
    BY <1>1, <1>2, <1>3 DEF EntityBodies
  <2>2. Settled("df_create_project", {}, "projects", {})
    <3>1. \A s \in Subjects : "df_create_project" \in s[2] => s[1] = "projects"
      BY DEF Subjects
    <3>2. QED  BY <2>1, <3>1 DEF Settled, Req, Opt, Names, BodyOf, Accepted, AsFields,
                IntoBody, ControlKeys, ProjectSchemas, ProjectHandlers, ProjectUseCases,
                EntityBodies, Creates, Use, WithFields, Entity, Body, Key, Schema
  <2>3. MethodOf(c) = "create_project"
    BY <1>4, <2>1 DEF MethodOf, ModeOf, ProjectUseCases, Creates, Use
  <2>4. Endpoint(c) = Post(<<"projects">>)
    <3>1. "create_project" \in DOMAIN ProjectEndpoints /\ ProjectEndpoints["create_project"] = Post(<<"projects">>)
      BY DEF ProjectEndpoints
    <3>2. QED  BY <2>3, <3>1, EndpointRows DEF Endpoint
  <2>5. Leads(Endpoint(c).path, {}, "projects", "projects")
    BY <2>4, PathsLead DEF Post, Write
  <2>6. QED  BY <1>4, <2>2, <2>5, PlainArrival DEF TargetIds
<1>5. CASE c.tool = "df_update_project"
  <2>1. /\ Schemas["df_update_project"] = ProjectSchemas["df_update_project"]
        /\ Handlers["df_update_project"] = ProjectHandlers["df_update_project"]
        /\ UseCases["df_update_project"] = ProjectUseCases["df_update_project"]
        /\ Bodies["ProjectWrite"] = EntityBodies["ProjectWrite"]
    BY <1>1, <1>2, <1>3 DEF EntityBodies
  <2>2. Settled("df_update_project", {"project_id"}, "projects", {})
    <3>1. \A s \in Subjects : "df_update_project" \in s[2] => s[1] = "projects"
      BY DEF Subjects
    <3>2. QED  BY <2>1, <3>1 DEF Settled, Req, Opt, Names, BodyOf, Accepted, AsFields,
                IntoBody, ControlKeys, ProjectSchemas, ProjectHandlers, ProjectUseCases,
                EntityBodies, Updates, Use, WithFields, Entity, Body, Schema
  <2>3. MethodOf(c) = "update_project"
    BY <1>5, <2>1 DEF MethodOf, ModeOf, ProjectUseCases, Updates, Use
  <2>4. Endpoint(c) = Patch(Project)
    <3>1. "update_project" \in DOMAIN ProjectEndpoints /\ ProjectEndpoints["update_project"] = Patch(Project)
      BY DEF ProjectEndpoints
    <3>2. QED  BY <2>3, <3>1, EndpointRows DEF Endpoint
  <2>5. Leads(Endpoint(c).path, {"project_id"}, "projects", "project_id")
    BY <2>4, PathsLead DEF Patch, Write
  <2>6. QED  BY <1>5, <2>2, <2>5, PlainArrival DEF TargetIds
<1>6. CASE c.tool = "df_delete_project"
  <2>1. /\ Schemas["df_delete_project"] = ProjectSchemas["df_delete_project"]
        /\ Handlers["df_delete_project"] = ProjectHandlers["df_delete_project"]
        /\ UseCases["df_delete_project"] = ProjectUseCases["df_delete_project"]
        /\ Bodies["None"] = OtherBodies["None"]
    BY <1>1, <1>2, <1>3 DEF OtherBodies
  <2>2. Settled("df_delete_project", {"project_id"}, "projects", {})
    <3>1. \A s \in Subjects : "df_delete_project" \in s[2] => s[1] = "projects"
      BY DEF Subjects
    <3>2. QED  BY <2>1, <3>1 DEF Settled, Req, Opt, Names, BodyOf, Accepted, AsFields,
                IntoBody, ControlKeys, ProjectSchemas, ProjectHandlers, ProjectUseCases,
                OtherBodies, Does, Use, Named, NoBody, Body, Schema
  <2>3. MethodOf(c) = "delete_project"
    BY <1>6, <2>1 DEF MethodOf, ModeOf, ProjectUseCases, Does, Use
  <2>4. Endpoint(c) = Delete(Project)
    <3>1. "delete_project" \in DOMAIN ProjectEndpoints /\ ProjectEndpoints["delete_project"] = Delete(Project)
      BY DEF ProjectEndpoints
    <3>2. QED  BY <2>3, <3>1, EndpointRows DEF Endpoint
  <2>5. Leads(Endpoint(c).path, {"project_id"}, "projects", "project_id")
    BY <2>4, PathsLead DEF Delete, Write
  <2>6. QED  BY <1>6, <2>2, <2>5, PlainArrival DEF TargetIds
<1>7. CASE c.tool = "df_create_version"
  <2>1. /\ Schemas["df_create_version"] = ProjectSchemas["df_create_version"]
        /\ Handlers["df_create_version"] = ProjectHandlers["df_create_version"]
        /\ UseCases["df_create_version"] = ProjectUseCases["df_create_version"]
        /\ Bodies["VersionWrite"] = EntityBodies["VersionWrite"]
    BY <1>1, <1>2, <1>3 DEF EntityBodies
  <2>2. Settled("df_create_version", {"project_id"}, "versions", {})
    <3>1. \A s \in Subjects : "df_create_version" \in s[2] => s[1] = "versions"
      BY DEF Subjects
    <3>2. QED  BY <2>1, <3>1 DEF Settled, Req, Opt, Names, BodyOf, Accepted, AsFields,
                IntoBody, ControlKeys, ProjectSchemas, ProjectHandlers, ProjectUseCases,
                EntityBodies, Creates, Use, WithFields, Entity, Body, Key, Schema
  <2>3. MethodOf(c) = "create_version"
    BY <1>7, <2>1 DEF MethodOf, ModeOf, ProjectUseCases, Creates, Use
  <2>4. Endpoint(c) = Post(Project \o <<"versions">>)
    <3>1. "create_version" \in DOMAIN ProjectEndpoints /\ ProjectEndpoints["create_version"] = Post(Project \o <<"versions">>)
      BY DEF ProjectEndpoints
    <3>2. QED  BY <2>3, <3>1, EndpointRows DEF Endpoint
  <2>5. Leads(Endpoint(c).path, {"project_id"}, "versions", "versions")
    BY <2>4, PathsLead DEF Post, Write
  <2>6. QED  BY <1>7, <2>2, <2>5, PlainArrival DEF TargetIds
<1>8. CASE c.tool = "df_update_version"
  <2>1. /\ Schemas["df_update_version"] = ProjectSchemas["df_update_version"]
        /\ Handlers["df_update_version"] = ProjectHandlers["df_update_version"]
        /\ UseCases["df_update_version"] = ProjectUseCases["df_update_version"]
        /\ Bodies["VersionWrite"] = EntityBodies["VersionWrite"]
    BY <1>1, <1>2, <1>3 DEF EntityBodies
  <2>2. Settled("df_update_version", PV, "versions", {})
    <3>1. \A s \in Subjects : "df_update_version" \in s[2] => s[1] = "versions"
      BY DEF Subjects
    <3>2. QED  BY <2>1, <3>1 DEF Settled, Req, Opt, Names, BodyOf, Accepted, AsFields,
                IntoBody, ControlKeys, ProjectSchemas, ProjectHandlers, ProjectUseCases,
                EntityBodies, Updates, Use, WithFields, Entity, Body, PV, Schema
  <2>3. MethodOf(c) = "update_version"
    BY <1>8, <2>1 DEF MethodOf, ModeOf, ProjectUseCases, Updates, Use
  <2>4. Endpoint(c) = Patch(Version)
    <3>1. "update_version" \in DOMAIN ProjectEndpoints /\ ProjectEndpoints["update_version"] = Patch(Version)
      BY DEF ProjectEndpoints
    <3>2. QED  BY <2>3, <3>1, EndpointRows DEF Endpoint
  <2>5. Leads(Endpoint(c).path, PV, "versions", "version_id")
    BY <2>4, PathsLead DEF Patch, Write
  <2>6. QED  BY <1>8, <2>2, <2>5, PlainArrival DEF TargetIds
<1>9. CASE c.tool = "df_delete_version"
  <2>1. /\ Schemas["df_delete_version"] = ProjectSchemas["df_delete_version"]
        /\ Handlers["df_delete_version"] = ProjectHandlers["df_delete_version"]
        /\ UseCases["df_delete_version"] = ProjectUseCases["df_delete_version"]
        /\ Bodies["None"] = OtherBodies["None"]
    BY <1>1, <1>2, <1>3 DEF OtherBodies
  <2>2. Settled("df_delete_version", PV, "versions", {})
    <3>1. \A s \in Subjects : "df_delete_version" \in s[2] => s[1] = "versions"
      BY DEF Subjects
    <3>2. QED  BY <2>1, <3>1 DEF Settled, Req, Opt, Names, BodyOf, Accepted, AsFields,
                IntoBody, ControlKeys, ProjectSchemas, ProjectHandlers, ProjectUseCases,
                OtherBodies, Does, Use, Named, NoBody, Body, PV, Schema
  <2>3. MethodOf(c) = "delete_version"
    BY <1>9, <2>1 DEF MethodOf, ModeOf, ProjectUseCases, Does, Use
  <2>4. Endpoint(c) = Delete(Version)
    <3>1. "delete_version" \in DOMAIN ProjectEndpoints /\ ProjectEndpoints["delete_version"] = Delete(Version)
      BY DEF ProjectEndpoints
    <3>2. QED  BY <2>3, <3>1, EndpointRows DEF Endpoint
  <2>5. Leads(Endpoint(c).path, PV, "versions", "version_id")
    BY <2>4, PathsLead DEF Delete, Write
  <2>6. QED  BY <1>9, <2>2, <2>5, PlainArrival DEF TargetIds
<1>10. QED  BY <1>1, <1>4, <1>5, <1>6, <1>7, <1>8, <1>9

LEMMA RmdArgumentsArrive ==
    ASSUME NEW c \in Calls, c.tool \in DOMAIN RmdSchemas, "connection_id" \notin
           Credentials, ~ Refused(c), Modes \subseteq {"create", "replace", "update"}
    PROVE  ArgumentsArrive(c)
<1>1. DOMAIN RmdSchemas = {"df_write_measure", "df_write_dimension", "df_write_fact",
          "df_delete_measure", "df_delete_dimension", "df_delete_fact",
          "df_bulk_write_measures", "df_bulk_write_dimensions", "df_bulk_write_facts"}
  BY DEF RmdSchemas
<1>2. \A t \in DOMAIN RmdSchemas :
        /\ Schemas[t] = RmdSchemas[t]
        /\ Handlers[t] = RmdHandlers[t]
        /\ UseCases[t] = RmdUseCases[t]
  BY <1>1, SchemaRows, HandlerRows, UseCaseRows DEF RmdHandlers, RmdUseCases
<1>3. /\ \A b \in DOMAIN EntityBodies : Bodies[b] = EntityBodies[b]
      /\ \A b \in DOMAIN OtherBodies : Bodies[b] = OtherBodies[b]
  BY BodyRows
<1>4. CASE c.tool = "df_write_measure"
  <2>1. /\ Schemas["df_write_measure"] = RmdSchemas["df_write_measure"]
        /\ Handlers["df_write_measure"] = RmdHandlers["df_write_measure"]
        /\ UseCases["df_write_measure"] = RmdUseCases["df_write_measure"]
        /\ Bodies["MeasureWrite"] = EntityBodies["MeasureWrite"]
    BY <1>1, <1>2, <1>3 DEF EntityBodies
  <2>2. Settled("df_write_measure", PV, "measures", {"measure_id"})
    <3>1. \A s \in Subjects : "df_write_measure" \in s[2] => s[1] = "measures"
      BY DEF Subjects
    <3>2. QED  BY <2>1, <3>1 DEF Settled, Req, Opt, Names, BodyOf, Accepted, AsFields,
                IntoBody, ControlKeys, RmdSchemas, RmdHandlers, RmdUseCases,
                EntityBodies, RmdWriteTool, PV, Key, Schema, Modal, WithFields, ByMode,
                Use, Entity, Body
  <2>3. c.tool \in DOMAIN TargetIds /\ TargetOf(c) = "measure_id"
    BY <1>4 DEF TargetOf, TargetIds
  <2>4. Mode(c) \in {"create", "replace", "update"}
    BY CallShape DEF Mode
  <2>5. /\ Mode(c) = "create" => MethodOf(c) = "create_measure"
        /\ Mode(c) = "replace" => MethodOf(c) = "replace_measure"
        /\ Mode(c) = "update" => MethodOf(c) = "update_measure"
    BY <1>4, <2>1 DEF Mode, MethodOf, ModeOf, RmdUseCases, ByMode, Use
  <2>6. /\ Mode(c) = "create" => Endpoint(c) = Post(Measures)
        /\ Mode(c) = "replace" => Endpoint(c) = Put(Measures \o <<"measure_id">>)
        /\ Mode(c) = "update" => Endpoint(c) = Patch(Measures \o <<"measure_id">>)
    <3>1. /\ "create_measure" \in DOMAIN MeasureEndpoints /\ MeasureEndpoints["create_measure"] = Post(Measures)
          /\ "replace_measure" \in DOMAIN MeasureEndpoints /\ MeasureEndpoints["replace_measure"] = Put(Measures \o <<"measure_id">>)
          /\ "update_measure" \in DOMAIN MeasureEndpoints /\ MeasureEndpoints["update_measure"] = Patch(Measures \o <<"measure_id">>)
      BY DEF MeasureEndpoints
    <3>2. QED  BY <2>5, <3>1, EndpointRows DEF Endpoint
  <2>7. PathIds(c) = PV
    BY <1>4 DEF PathIds
  <2>8. Mode(c) = "create" =>
          /\ Endpoint(c).method = "POST"
          /\ Leads(Endpoint(c).path, PathIds(c), "measures", "measures")
    <3>1. Mode(c) = "create" =>
            Endpoint(c).method = "POST" /\ Endpoint(c).path = Measures
      BY <2>6 DEF Post, Write
    <3>2. QED  BY <2>7, <3>1, PathsLead
  <2>9. Mode(c) # "create" /\ TargetOf(c) \in c.args =>
          /\ Endpoint(c).method = Methods[Mode(c)]
          /\ Leads(Endpoint(c).path,
                   PathIds(c) \cup {TargetOf(c)}, "measures", TargetOf(c))
    <3>1. Mode(c) # "create" =>
            /\ Endpoint(c).method = Methods[Mode(c)]
            /\ Endpoint(c).path = Measures \o <<"measure_id">>
      BY <2>4, <2>6 DEF Put, Patch, Write, Methods
    <3>2. QED  BY <2>3, <2>7, <3>1, PathsLead
  <2>10. {"measure_id"} \cap c.args \subseteq PathIds(c) \cup {TargetOf(c)}
    BY <2>3, <2>7
  <2>11. QED  BY <1>4, <2>2, <2>3, <2>8, <2>9, <2>10, ModalArrival
<1>5. CASE c.tool = "df_write_dimension"
  <2>1. /\ Schemas["df_write_dimension"] = RmdSchemas["df_write_dimension"]
        /\ Handlers["df_write_dimension"] = RmdHandlers["df_write_dimension"]
        /\ UseCases["df_write_dimension"] = RmdUseCases["df_write_dimension"]
        /\ Bodies["DimensionWrite"] = EntityBodies["DimensionWrite"]
    BY <1>1, <1>2, <1>3 DEF EntityBodies
  <2>2. Settled("df_write_dimension", PV, "dimensions", {"dimension_id"})
    <3>1. \A s \in Subjects : "df_write_dimension" \in s[2] => s[1] = "dimensions"
      BY DEF Subjects
    <3>2. QED  BY <2>1, <3>1 DEF Settled, Req, Opt, Names, BodyOf, Accepted, AsFields,
                IntoBody, ControlKeys, RmdSchemas, RmdHandlers, RmdUseCases,
                EntityBodies, RmdWriteTool, PV, Key, Schema, Modal, WithFields, ByMode,
                Use, Entity, Body
  <2>3. c.tool \in DOMAIN TargetIds /\ TargetOf(c) = "dimension_id"
    BY <1>5 DEF TargetOf, TargetIds
  <2>4. Mode(c) \in {"create", "replace", "update"}
    BY CallShape DEF Mode
  <2>5. /\ Mode(c) = "create" => MethodOf(c) = "create_dimension"
        /\ Mode(c) = "replace" => MethodOf(c) = "replace_dimension"
        /\ Mode(c) = "update" => MethodOf(c) = "update_dimension"
    BY <1>5, <2>1 DEF Mode, MethodOf, ModeOf, RmdUseCases, ByMode, Use
  <2>6. /\ Mode(c) = "create" => Endpoint(c) = Post(Dimensions)
        /\ Mode(c) = "replace" => Endpoint(c) = Put(Dimensions \o <<"dimension_id">>)
        /\ Mode(c) = "update" => Endpoint(c) = Patch(Dimensions \o <<"dimension_id">>)
    <3>1. /\ "create_dimension" \in DOMAIN DimensionEndpoints /\ DimensionEndpoints["create_dimension"] = Post(Dimensions)
          /\ "replace_dimension" \in DOMAIN DimensionEndpoints /\ DimensionEndpoints["replace_dimension"] = Put(Dimensions \o <<"dimension_id">>)
          /\ "update_dimension" \in DOMAIN DimensionEndpoints /\ DimensionEndpoints["update_dimension"] = Patch(Dimensions \o <<"dimension_id">>)
      BY DEF DimensionEndpoints
    <3>2. QED  BY <2>5, <3>1, EndpointRows DEF Endpoint
  <2>7. PathIds(c) = PV
    BY <1>5 DEF PathIds
  <2>8. Mode(c) = "create" =>
          /\ Endpoint(c).method = "POST"
          /\ Leads(Endpoint(c).path, PathIds(c), "dimensions", "dimensions")
    <3>1. Mode(c) = "create" =>
            Endpoint(c).method = "POST" /\ Endpoint(c).path = Dimensions
      BY <2>6 DEF Post, Write
    <3>2. QED  BY <2>7, <3>1, PathsLead
  <2>9. Mode(c) # "create" /\ TargetOf(c) \in c.args =>
          /\ Endpoint(c).method = Methods[Mode(c)]
          /\ Leads(Endpoint(c).path,
                   PathIds(c) \cup {TargetOf(c)}, "dimensions", TargetOf(c))
    <3>1. Mode(c) # "create" =>
            /\ Endpoint(c).method = Methods[Mode(c)]
            /\ Endpoint(c).path = Dimensions \o <<"dimension_id">>
      BY <2>4, <2>6 DEF Put, Patch, Write, Methods
    <3>2. QED  BY <2>3, <2>7, <3>1, PathsLead
  <2>10. {"dimension_id"} \cap c.args \subseteq PathIds(c) \cup {TargetOf(c)}
    BY <2>3, <2>7
  <2>11. QED  BY <1>5, <2>2, <2>3, <2>8, <2>9, <2>10, ModalArrival
<1>6. CASE c.tool = "df_write_fact"
  <2>1. /\ Schemas["df_write_fact"] = RmdSchemas["df_write_fact"]
        /\ Handlers["df_write_fact"] = RmdHandlers["df_write_fact"]
        /\ UseCases["df_write_fact"] = RmdUseCases["df_write_fact"]
        /\ Bodies["FactWrite"] = EntityBodies["FactWrite"]
    BY <1>1, <1>2, <1>3 DEF EntityBodies
  <2>2. Settled("df_write_fact", PV, "facts", {"fact_id"})
    <3>1. \A s \in Subjects : "df_write_fact" \in s[2] => s[1] = "facts"
      BY DEF Subjects
    <3>2. QED  BY <2>1, <3>1 DEF Settled, Req, Opt, Names, BodyOf, Accepted, AsFields,
                IntoBody, ControlKeys, RmdSchemas, RmdHandlers, RmdUseCases,
                EntityBodies, RmdWriteTool, PV, Key, Schema, Modal, WithFields, ByMode,
                Use, Entity, Body
  <2>3. c.tool \in DOMAIN TargetIds /\ TargetOf(c) = "fact_id"
    BY <1>6 DEF TargetOf, TargetIds
  <2>4. Mode(c) \in {"create", "replace", "update"}
    BY CallShape DEF Mode
  <2>5. /\ Mode(c) = "create" => MethodOf(c) = "create_fact"
        /\ Mode(c) = "replace" => MethodOf(c) = "replace_fact"
        /\ Mode(c) = "update" => MethodOf(c) = "update_fact"
    BY <1>6, <2>1 DEF Mode, MethodOf, ModeOf, RmdUseCases, ByMode, Use
  <2>6. /\ Mode(c) = "create" => Endpoint(c) = Post(Facts)
        /\ Mode(c) = "replace" => Endpoint(c) = Put(Facts \o <<"fact_id">>)
        /\ Mode(c) = "update" => Endpoint(c) = Patch(Facts \o <<"fact_id">>)
    <3>1. /\ "create_fact" \in DOMAIN FactEndpoints /\ FactEndpoints["create_fact"] = Post(Facts)
          /\ "replace_fact" \in DOMAIN FactEndpoints /\ FactEndpoints["replace_fact"] = Put(Facts \o <<"fact_id">>)
          /\ "update_fact" \in DOMAIN FactEndpoints /\ FactEndpoints["update_fact"] = Patch(Facts \o <<"fact_id">>)
      BY DEF FactEndpoints
    <3>2. QED  BY <2>5, <3>1, EndpointRows DEF Endpoint
  <2>7. PathIds(c) = PV
    BY <1>6 DEF PathIds
  <2>8. Mode(c) = "create" =>
          /\ Endpoint(c).method = "POST"
          /\ Leads(Endpoint(c).path, PathIds(c), "facts", "facts")
    <3>1. Mode(c) = "create" =>
            Endpoint(c).method = "POST" /\ Endpoint(c).path = Facts
      BY <2>6 DEF Post, Write
    <3>2. QED  BY <2>7, <3>1, PathsLead
  <2>9. Mode(c) # "create" /\ TargetOf(c) \in c.args =>
          /\ Endpoint(c).method = Methods[Mode(c)]
          /\ Leads(Endpoint(c).path, PathIds(c) \cup {TargetOf(c)}, "facts", TargetOf(c))
    <3>1. Mode(c) # "create" =>
            /\ Endpoint(c).method = Methods[Mode(c)]
            /\ Endpoint(c).path = Facts \o <<"fact_id">>
      BY <2>4, <2>6 DEF Put, Patch, Write, Methods
    <3>2. QED  BY <2>3, <2>7, <3>1, PathsLead
  <2>10. {"fact_id"} \cap c.args \subseteq PathIds(c) \cup {TargetOf(c)}
    BY <2>3, <2>7
  <2>11. QED  BY <1>6, <2>2, <2>3, <2>8, <2>9, <2>10, ModalArrival
<1>7. CASE c.tool = "df_delete_measure"
  <2>1. /\ Schemas["df_delete_measure"] = RmdSchemas["df_delete_measure"]
        /\ Handlers["df_delete_measure"] = RmdHandlers["df_delete_measure"]
        /\ UseCases["df_delete_measure"] = RmdUseCases["df_delete_measure"]
        /\ Bodies["None"] = OtherBodies["None"]
    BY <1>1, <1>2, <1>3 DEF OtherBodies
  <2>2. Settled("df_delete_measure", PV \cup {"measure_id"}, "measures", {})
    <3>1. \A s \in Subjects : "df_delete_measure" \in s[2] => s[1] = "measures"
      BY DEF Subjects
    <3>2. QED  BY <2>1, <3>1 DEF Settled, Req, Opt, Names, BodyOf, Accepted, AsFields,
                IntoBody, ControlKeys, RmdSchemas, RmdHandlers, RmdUseCases,
                OtherBodies, Does, Use, Named, NoBody, Body, PV, Schema
  <2>3. MethodOf(c) = "delete_measure"
    BY <1>7, <2>1 DEF MethodOf, ModeOf, RmdUseCases, Does, Use
  <2>4. Endpoint(c) = Delete(Measures \o <<"measure_id">>)
    <3>1. "delete_measure" \in DOMAIN MeasureEndpoints /\ MeasureEndpoints["delete_measure"] = Delete(Measures \o <<"measure_id">>)
      BY DEF MeasureEndpoints
    <3>2. QED  BY <2>3, <3>1, EndpointRows DEF Endpoint
  <2>5. Leads(Endpoint(c).path, PV \cup {"measure_id"}, "measures", "measure_id")
    BY <2>4, PathsLead DEF Delete, Write
  <2>6. QED  BY <1>7, <2>2, <2>5, PlainArrival DEF TargetIds
<1>8. CASE c.tool = "df_delete_dimension"
  <2>1. /\ Schemas["df_delete_dimension"] = RmdSchemas["df_delete_dimension"]
        /\ Handlers["df_delete_dimension"] = RmdHandlers["df_delete_dimension"]
        /\ UseCases["df_delete_dimension"] = RmdUseCases["df_delete_dimension"]
        /\ Bodies["None"] = OtherBodies["None"]
    BY <1>1, <1>2, <1>3 DEF OtherBodies
  <2>2. Settled("df_delete_dimension", PV \cup {"dimension_id"}, "dimensions", {})
    <3>1. \A s \in Subjects : "df_delete_dimension" \in s[2] => s[1] = "dimensions"
      BY DEF Subjects
    <3>2. QED  BY <2>1, <3>1 DEF Settled, Req, Opt, Names, BodyOf, Accepted, AsFields,
                IntoBody, ControlKeys, RmdSchemas, RmdHandlers, RmdUseCases,
                OtherBodies, Does, Use, Named, NoBody, Body, PV, Schema
  <2>3. MethodOf(c) = "delete_dimension"
    BY <1>8, <2>1 DEF MethodOf, ModeOf, RmdUseCases, Does, Use
  <2>4. Endpoint(c) = Delete(Dimensions \o <<"dimension_id">>)
    <3>1. "delete_dimension" \in DOMAIN DimensionEndpoints /\ DimensionEndpoints["delete_dimension"] = Delete(Dimensions \o <<"dimension_id">>)
      BY DEF DimensionEndpoints
    <3>2. QED  BY <2>3, <3>1, EndpointRows DEF Endpoint
  <2>5. Leads(Endpoint(c).path, PV \cup {"dimension_id"}, "dimensions", "dimension_id")
    BY <2>4, PathsLead DEF Delete, Write
  <2>6. QED  BY <1>8, <2>2, <2>5, PlainArrival DEF TargetIds
<1>9. CASE c.tool = "df_delete_fact"
  <2>1. /\ Schemas["df_delete_fact"] = RmdSchemas["df_delete_fact"]
        /\ Handlers["df_delete_fact"] = RmdHandlers["df_delete_fact"]
        /\ UseCases["df_delete_fact"] = RmdUseCases["df_delete_fact"]
        /\ Bodies["None"] = OtherBodies["None"]
    BY <1>1, <1>2, <1>3 DEF OtherBodies
  <2>2. Settled("df_delete_fact", PV \cup {"fact_id"}, "facts", {})
    <3>1. \A s \in Subjects : "df_delete_fact" \in s[2] => s[1] = "facts"
      BY DEF Subjects
    <3>2. QED  BY <2>1, <3>1 DEF Settled, Req, Opt, Names, BodyOf, Accepted, AsFields,
                IntoBody, ControlKeys, RmdSchemas, RmdHandlers, RmdUseCases,
                OtherBodies, Does, Use, Named, NoBody, Body, PV, Schema
  <2>3. MethodOf(c) = "delete_fact"
    BY <1>9, <2>1 DEF MethodOf, ModeOf, RmdUseCases, Does, Use
  <2>4. Endpoint(c) = Delete(Facts \o <<"fact_id">>)
    <3>1. "delete_fact" \in DOMAIN FactEndpoints /\ FactEndpoints["delete_fact"] = Delete(Facts \o <<"fact_id">>)
      BY DEF FactEndpoints
    <3>2. QED  BY <2>3, <3>1, EndpointRows DEF Endpoint
  <2>5. Leads(Endpoint(c).path, PV \cup {"fact_id"}, "facts", "fact_id")
    BY <2>4, PathsLead DEF Delete, Write
  <2>6. QED  BY <1>9, <2>2, <2>5, PlainArrival DEF TargetIds
<1>10. CASE c.tool = "df_bulk_write_measures"
  <2>1. /\ Schemas["df_bulk_write_measures"] = RmdSchemas["df_bulk_write_measures"]
        /\ Handlers["df_bulk_write_measures"] = RmdHandlers["df_bulk_write_measures"]
        /\ UseCases["df_bulk_write_measures"] = RmdUseCases["df_bulk_write_measures"]
        /\ Bodies["MeasuresBulk"] = OtherBodies["MeasuresBulk"]
    BY <1>1, <1>2, <1>3 DEF OtherBodies
  <2>2. Settled("df_bulk_write_measures", PV, "measures", {})
    <3>1. \A s \in Subjects : "df_bulk_write_measures" \in s[2] => s[1] = "measures"
      BY DEF Subjects
    <3>2. QED  BY <2>1, <3>1 DEF Settled, Req, Opt, Names, BodyOf, Accepted, AsFields,
                IntoBody, ControlKeys, RmdSchemas, RmdHandlers, RmdUseCases,
                OtherBodies, Does, Use, Named, Body, PV, Key, Schema
  <2>3. MethodOf(c) = "bulk_write_measures"
    BY <1>10, <2>1 DEF MethodOf, ModeOf, RmdUseCases, Does, Use
  <2>4. Endpoint(c) = Post(Measures \o <<"bulk">>)
    <3>1. "bulk_write_measures" \in DOMAIN MeasureEndpoints /\ MeasureEndpoints["bulk_write_measures"] = Post(Measures \o <<"bulk">>)
      BY DEF MeasureEndpoints
    <3>2. QED  BY <2>3, <3>1, EndpointRows DEF Endpoint
  <2>5. Leads(Endpoint(c).path, PV, "measures", "bulk")
    BY <2>4, PathsLead DEF Post, Write
  <2>6. QED  BY <1>10, <2>2, <2>5, PlainArrival DEF TargetIds
<1>11. CASE c.tool = "df_bulk_write_dimensions"
  <2>1. /\ Schemas["df_bulk_write_dimensions"] = RmdSchemas["df_bulk_write_dimensions"]
        /\ Handlers["df_bulk_write_dimensions"] = RmdHandlers["df_bulk_write_dimensions"]
        /\ UseCases["df_bulk_write_dimensions"] = RmdUseCases["df_bulk_write_dimensions"]
        /\ Bodies["DimensionsBulk"] = OtherBodies["DimensionsBulk"]
    BY <1>1, <1>2, <1>3 DEF OtherBodies
  <2>2. Settled("df_bulk_write_dimensions", PV, "dimensions", {})
    <3>1. \A s \in Subjects : "df_bulk_write_dimensions" \in s[2] => s[1] = "dimensions"
      BY DEF Subjects
    <3>2. QED  BY <2>1, <3>1 DEF Settled, Req, Opt, Names, BodyOf, Accepted, AsFields,
                IntoBody, ControlKeys, RmdSchemas, RmdHandlers, RmdUseCases,
                OtherBodies, Does, Use, Named, Body, PV, Key, Schema
  <2>3. MethodOf(c) = "bulk_write_dimensions"
    BY <1>11, <2>1 DEF MethodOf, ModeOf, RmdUseCases, Does, Use
  <2>4. Endpoint(c) = Post(Dimensions \o <<"bulk">>)
    <3>1. "bulk_write_dimensions" \in DOMAIN DimensionEndpoints /\ DimensionEndpoints["bulk_write_dimensions"] = Post(Dimensions \o <<"bulk">>)
      BY DEF DimensionEndpoints
    <3>2. QED  BY <2>3, <3>1, EndpointRows DEF Endpoint
  <2>5. Leads(Endpoint(c).path, PV, "dimensions", "bulk")
    BY <2>4, PathsLead DEF Post, Write
  <2>6. QED  BY <1>11, <2>2, <2>5, PlainArrival DEF TargetIds
<1>12. CASE c.tool = "df_bulk_write_facts"
  <2>1. /\ Schemas["df_bulk_write_facts"] = RmdSchemas["df_bulk_write_facts"]
        /\ Handlers["df_bulk_write_facts"] = RmdHandlers["df_bulk_write_facts"]
        /\ UseCases["df_bulk_write_facts"] = RmdUseCases["df_bulk_write_facts"]
        /\ Bodies["FactsBulk"] = OtherBodies["FactsBulk"]
    BY <1>1, <1>2, <1>3 DEF OtherBodies
  <2>2. Settled("df_bulk_write_facts", PV, "facts", {})
    <3>1. \A s \in Subjects : "df_bulk_write_facts" \in s[2] => s[1] = "facts"
      BY DEF Subjects
    <3>2. QED  BY <2>1, <3>1 DEF Settled, Req, Opt, Names, BodyOf, Accepted, AsFields,
                IntoBody, ControlKeys, RmdSchemas, RmdHandlers, RmdUseCases,
                OtherBodies, Does, Use, Named, Body, PV, Key, Schema
  <2>3. MethodOf(c) = "bulk_write_facts"
    BY <1>12, <2>1 DEF MethodOf, ModeOf, RmdUseCases, Does, Use
  <2>4. Endpoint(c) = Post(Facts \o <<"bulk">>)
    <3>1. "bulk_write_facts" \in DOMAIN FactEndpoints /\ FactEndpoints["bulk_write_facts"] = Post(Facts \o <<"bulk">>)
      BY DEF FactEndpoints
    <3>2. QED  BY <2>3, <3>1, EndpointRows DEF Endpoint
  <2>5. Leads(Endpoint(c).path, PV, "facts", "bulk")
    BY <2>4, PathsLead DEF Post, Write
  <2>6. QED  BY <1>12, <2>2, <2>5, PlainArrival DEF TargetIds
<1>13. QED  BY <1>1, <1>4, <1>5, <1>6, <1>7, <1>8, <1>9, <1>10, <1>11, <1>12

LEMMA GroupArgumentsArrive ==
    ASSUME NEW c \in Calls, c.tool \in DOMAIN GroupSchemas, "connection_id" \notin
           Credentials, ~ Refused(c), Modes \subseteq {"create", "replace", "update"}
    PROVE  ArgumentsArrive(c)
<1>1. DOMAIN GroupSchemas = {"df_write_dimension_group", "df_delete_dimension_group",
          "df_set_group_dimensions", "df_remove_group_dimension"}
  BY DEF GroupSchemas
<1>2. \A t \in DOMAIN GroupSchemas :
        /\ Schemas[t] = GroupSchemas[t]
        /\ Handlers[t] = ModelHandlers[t]
        /\ UseCases[t] = GroupUseCases[t]
  BY <1>1, SchemaRows, HandlerRows, UseCaseRows DEF ModelHandlers, GroupUseCases
<1>3. /\ \A b \in DOMAIN EntityBodies : Bodies[b] = EntityBodies[b]
      /\ \A b \in DOMAIN OtherBodies : Bodies[b] = OtherBodies[b]
  BY BodyRows
<1>4. CASE c.tool = "df_write_dimension_group"
  <2>1. /\ Schemas["df_write_dimension_group"] = GroupSchemas["df_write_dimension_group"]
        /\ Handlers["df_write_dimension_group"] = ModelHandlers["df_write_dimension_group"]
        /\ UseCases["df_write_dimension_group"] = GroupUseCases["df_write_dimension_group"]
        /\ Bodies["DimensionGroupWrite"] = EntityBodies["DimensionGroupWrite"]
    BY <1>1, <1>2, <1>3 DEF EntityBodies
  <2>2. Settled("df_write_dimension_group", PV, "dimension-groups", {"dimension_group_id"})
    <3>1. \A s \in Subjects : "df_write_dimension_group" \in s[2] => s[1] = "dimension-groups"
      BY DEF Subjects
    <3>2. QED  BY <2>1, <3>1 DEF Settled, Req, Opt, Names, BodyOf, Accepted, AsFields,
                IntoBody, ControlKeys, GroupSchemas, ModelHandlers, GroupUseCases,
                EntityBodies, Modal, WithFields, PV, Key, ByMode, Use, Entity, Body,
                Schema
  <2>3. c.tool \in DOMAIN TargetIds /\ TargetOf(c) = "dimension_group_id"
    BY <1>4 DEF TargetOf, TargetIds
  <2>4. Mode(c) \in {"create", "replace", "update"}
    BY CallShape DEF Mode
  <2>5. /\ Mode(c) = "create" => MethodOf(c) = "create_dimension_group"
        /\ Mode(c) = "replace" => MethodOf(c) = "replace_dimension_group"
        /\ Mode(c) = "update" => MethodOf(c) = "update_dimension_group"
    BY <1>4, <2>1 DEF Mode, MethodOf, ModeOf, GroupUseCases, ByMode, Use
  <2>6. /\ Mode(c) = "create" => Endpoint(c) = Post(Groups)
        /\ Mode(c) = "replace" => Endpoint(c) = Put(Group)
        /\ Mode(c) = "update" => Endpoint(c) = Patch(Group)
    <3>1. /\ "create_dimension_group" \in DOMAIN GroupEndpoints /\ GroupEndpoints["create_dimension_group"] = Post(Groups)
          /\ "replace_dimension_group" \in DOMAIN GroupEndpoints /\ GroupEndpoints["replace_dimension_group"] = Put(Group)
          /\ "update_dimension_group" \in DOMAIN GroupEndpoints /\ GroupEndpoints["update_dimension_group"] = Patch(Group)
      BY DEF GroupEndpoints
    <3>2. QED  BY <2>5, <3>1, EndpointRows DEF Endpoint
  <2>7. PathIds(c) = PV
    BY <1>4 DEF PathIds
  <2>8. Mode(c) = "create" =>
          /\ Endpoint(c).method = "POST"
          /\ Leads(Endpoint(c).path, PathIds(c), "dimension-groups", "dimension-groups")
    <3>1. Mode(c) = "create" =>
            Endpoint(c).method = "POST" /\ Endpoint(c).path = Groups
      BY <2>6 DEF Post, Write
    <3>2. QED  BY <2>7, <3>1, PathsLead
  <2>9. Mode(c) # "create" /\ TargetOf(c) \in c.args =>
          /\ Endpoint(c).method = Methods[Mode(c)]
          /\ Leads(Endpoint(c).path,
                   PathIds(c) \cup {TargetOf(c)}, "dimension-groups", TargetOf(c))
    <3>1. Mode(c) # "create" =>
            /\ Endpoint(c).method = Methods[Mode(c)]
            /\ Endpoint(c).path = Group
      BY <2>4, <2>6 DEF Put, Patch, Write, Methods
    <3>2. QED  BY <2>3, <2>7, <3>1, PathsLead
  <2>10. {"dimension_group_id"} \cap c.args \subseteq PathIds(c) \cup {TargetOf(c)}
    BY <2>3, <2>7
  <2>11. QED  BY <1>4, <2>2, <2>3, <2>8, <2>9, <2>10, ModalArrival
<1>5. CASE c.tool = "df_delete_dimension_group"
  <2>1. /\ Schemas["df_delete_dimension_group"] = GroupSchemas["df_delete_dimension_group"]
        /\ Handlers["df_delete_dimension_group"] = ModelHandlers["df_delete_dimension_group"]
        /\ UseCases["df_delete_dimension_group"] = GroupUseCases["df_delete_dimension_group"]
        /\ Bodies["None"] = OtherBodies["None"]
    BY <1>1, <1>2, <1>3 DEF OtherBodies
  <2>2. Settled("df_delete_dimension_group", PV \cup {"dimension_group_id"}, "dimension-groups", {})
    <3>1. \A s \in Subjects : "df_delete_dimension_group" \in s[2] => s[1] = "dimension-groups"
      BY DEF Subjects
    <3>2. QED  BY <2>1, <3>1 DEF Settled, Req, Opt, Names, BodyOf, Accepted, AsFields,
                IntoBody, ControlKeys, GroupSchemas, ModelHandlers, GroupUseCases,
                OtherBodies, Does, Use, Named, NoBody, Body, PV, Schema
  <2>3. MethodOf(c) = "delete_dimension_group"
    BY <1>5, <2>1 DEF MethodOf, ModeOf, GroupUseCases, Does, Use
  <2>4. Endpoint(c) = Delete(Group)
    <3>1. "delete_dimension_group" \in DOMAIN GroupEndpoints /\ GroupEndpoints["delete_dimension_group"] = Delete(Group)
      BY DEF GroupEndpoints
    <3>2. QED  BY <2>3, <3>1, EndpointRows DEF Endpoint
  <2>5. Leads(Endpoint(c).path,
              PV \cup {"dimension_group_id"}, "dimension-groups", "dimension_group_id")
    BY <2>4, PathsLead DEF Delete, Write
  <2>6. QED  BY <1>5, <2>2, <2>5, PlainArrival DEF TargetIds
<1>6. CASE c.tool = "df_set_group_dimensions"
  <2>1. /\ Schemas["df_set_group_dimensions"] = GroupSchemas["df_set_group_dimensions"]
        /\ Handlers["df_set_group_dimensions"] = ModelHandlers["df_set_group_dimensions"]
        /\ UseCases["df_set_group_dimensions"] = GroupUseCases["df_set_group_dimensions"]
        /\ Bodies["GroupMembersBody"] = OtherBodies["GroupMembersBody"]
    BY <1>1, <1>2, <1>3 DEF OtherBodies
  <2>2. Settled("df_set_group_dimensions", PV \cup {"dimension_group_id"}, "dimensions", {})
    <3>1. \A s \in Subjects : "df_set_group_dimensions" \in s[2] => s[1] = "dimensions"
      BY DEF Subjects
    <3>2. QED  BY <2>1, <3>1 DEF Settled, Req, Opt, Names, BodyOf, Accepted, AsFields,
                IntoBody, ControlKeys, GroupSchemas, ModelHandlers, GroupUseCases,
                OtherBodies, Does, Use, Named, Body, PV, Key, Schema
  <2>3. MethodOf(c) = "add_group_dimensions"
    BY <1>6, <2>1 DEF MethodOf, ModeOf, GroupUseCases, Does, Use
  <2>4. Endpoint(c) = Post(Group \o <<"dimensions">>)
    <3>1. "add_group_dimensions" \in DOMAIN GroupEndpoints /\ GroupEndpoints["add_group_dimensions"] = Post(Group \o <<"dimensions">>)
      BY DEF GroupEndpoints
    <3>2. QED  BY <2>3, <3>1, EndpointRows DEF Endpoint
  <2>5. Leads(Endpoint(c).path, PV \cup {"dimension_group_id"}, "dimensions", "dimensions")
    BY <2>4, PathsLead DEF Post, Write
  <2>6. QED  BY <1>6, <2>2, <2>5, PlainArrival DEF TargetIds
<1>7. CASE c.tool = "df_remove_group_dimension"
  <2>1. /\ Schemas["df_remove_group_dimension"] = GroupSchemas["df_remove_group_dimension"]
        /\ Handlers["df_remove_group_dimension"] = ModelHandlers["df_remove_group_dimension"]
        /\ UseCases["df_remove_group_dimension"] = GroupUseCases["df_remove_group_dimension"]
        /\ Bodies["None"] = OtherBodies["None"]
    BY <1>1, <1>2, <1>3 DEF OtherBodies
  <2>2. Settled("df_remove_group_dimension", PV \cup {"dimension_group_id", "dimension_id"}, "dimensions", {})
    <3>1. \A s \in Subjects : "df_remove_group_dimension" \in s[2] => s[1] = "dimensions"
      BY DEF Subjects
    <3>2. QED  BY <2>1, <3>1 DEF Settled, Req, Opt, Names, BodyOf, Accepted, AsFields,
                IntoBody, ControlKeys, GroupSchemas, ModelHandlers, GroupUseCases,
                OtherBodies, Does, Use, Named, NoBody, Body, PV, Schema
  <2>3. MethodOf(c) = "remove_group_dimension"
    BY <1>7, <2>1 DEF MethodOf, ModeOf, GroupUseCases, Does, Use
  <2>4. Endpoint(c) = Delete(Group \o <<"dimensions", "dimension_id">>)
    <3>1. "remove_group_dimension" \in DOMAIN GroupEndpoints /\ GroupEndpoints["remove_group_dimension"] = Delete(Group \o <<"dimensions", "dimension_id">>)
      BY DEF GroupEndpoints
    <3>2. QED  BY <2>3, <3>1, EndpointRows DEF Endpoint
  <2>5. Leads(Endpoint(c).path,
              PV \cup {"dimension_group_id", "dimension_id"}, "dimensions", "dimension_id")
    BY <2>4, PathsLead DEF Delete, Write
  <2>6. QED  BY <1>7, <2>2, <2>5, PlainArrival DEF TargetIds
<1>8. QED  BY <1>1, <1>4, <1>5, <1>6, <1>7

LEMMA FactTableArgumentsArrive ==
    ASSUME NEW c \in Calls, c.tool \in DOMAIN FactTableSchemas, "connection_id" \notin
           Credentials, ~ Refused(c), Modes \subseteq {"create", "replace", "update"}
    PROVE  ArgumentsArrive(c)
<1>1. DOMAIN FactTableSchemas = {"df_write_fact_table", "df_delete_fact_table",
          "df_assign_to_fact_table", "df_unassign_from_fact_table"}
  BY DEF FactTableSchemas
<1>2. \A t \in DOMAIN FactTableSchemas :
        /\ Schemas[t] = FactTableSchemas[t]
        /\ Handlers[t] = ModelHandlers[t]
        /\ UseCases[t] = FactTableUseCases[t]
  BY <1>1, SchemaRows, HandlerRows, UseCaseRows DEF ModelHandlers, FactTableUseCases
<1>3. /\ \A b \in DOMAIN EntityBodies : Bodies[b] = EntityBodies[b]
      /\ \A b \in DOMAIN OtherBodies : Bodies[b] = OtherBodies[b]
  BY BodyRows
<1>4. CASE c.tool = "df_write_fact_table"
  <2>1. /\ Schemas["df_write_fact_table"] = FactTableSchemas["df_write_fact_table"]
        /\ Handlers["df_write_fact_table"] = ModelHandlers["df_write_fact_table"]
        /\ UseCases["df_write_fact_table"] = FactTableUseCases["df_write_fact_table"]
        /\ Bodies["FactTableWrite"] = EntityBodies["FactTableWrite"]
    BY <1>1, <1>2, <1>3 DEF EntityBodies
  <2>2. Settled("df_write_fact_table", PV, "fact-tables", {"fact_table_id"})
    <3>1. \A s \in Subjects : "df_write_fact_table" \in s[2] => s[1] = "fact-tables"
      BY DEF Subjects
    <3>2. QED  BY <2>1, <3>1 DEF Settled, Req, Opt, Names, BodyOf, Accepted, AsFields,
                IntoBody, ControlKeys, FactTableSchemas, ModelHandlers,
                FactTableUseCases, EntityBodies, Modal, WithFields, PV, Key, ByMode,
                Use, Entity, Body, Schema
  <2>3. c.tool \in DOMAIN TargetIds /\ TargetOf(c) = "fact_table_id"
    BY <1>4 DEF TargetOf, TargetIds
  <2>4. Mode(c) \in {"create", "replace", "update"}
    BY CallShape DEF Mode
  <2>5. /\ Mode(c) = "create" => MethodOf(c) = "create_fact_table"
        /\ Mode(c) = "replace" => MethodOf(c) = "replace_fact_table"
        /\ Mode(c) = "update" => MethodOf(c) = "update_fact_table"
    BY <1>4, <2>1 DEF Mode, MethodOf, ModeOf, FactTableUseCases, ByMode, Use
  <2>6. /\ Mode(c) = "create" => Endpoint(c) = Post(FactTables)
        /\ Mode(c) = "replace" => Endpoint(c) = Put(FactTable)
        /\ Mode(c) = "update" => Endpoint(c) = Patch(FactTable)
    <3>1. /\ "create_fact_table" \in DOMAIN FactTableEndpoints /\ FactTableEndpoints["create_fact_table"] = Post(FactTables)
          /\ "replace_fact_table" \in DOMAIN FactTableEndpoints /\ FactTableEndpoints["replace_fact_table"] = Put(FactTable)
          /\ "update_fact_table" \in DOMAIN FactTableEndpoints /\ FactTableEndpoints["update_fact_table"] = Patch(FactTable)
      BY DEF FactTableEndpoints
    <3>2. QED  BY <2>5, <3>1, EndpointRows DEF Endpoint
  <2>7. PathIds(c) = PV
    BY <1>4 DEF PathIds
  <2>8. Mode(c) = "create" =>
          /\ Endpoint(c).method = "POST"
          /\ Leads(Endpoint(c).path, PathIds(c), "fact-tables", "fact-tables")
    <3>1. Mode(c) = "create" =>
            Endpoint(c).method = "POST" /\ Endpoint(c).path = FactTables
      BY <2>6 DEF Post, Write
    <3>2. QED  BY <2>7, <3>1, PathsLead
  <2>9. Mode(c) # "create" /\ TargetOf(c) \in c.args =>
          /\ Endpoint(c).method = Methods[Mode(c)]
          /\ Leads(Endpoint(c).path,
                   PathIds(c) \cup {TargetOf(c)}, "fact-tables", TargetOf(c))
    <3>1. Mode(c) # "create" =>
            /\ Endpoint(c).method = Methods[Mode(c)]
            /\ Endpoint(c).path = FactTable
      BY <2>4, <2>6 DEF Put, Patch, Write, Methods
    <3>2. QED  BY <2>3, <2>7, <3>1, PathsLead
  <2>10. {"fact_table_id"} \cap c.args \subseteq PathIds(c) \cup {TargetOf(c)}
    BY <2>3, <2>7
  <2>11. QED  BY <1>4, <2>2, <2>3, <2>8, <2>9, <2>10, ModalArrival
<1>5. CASE c.tool = "df_delete_fact_table"
  <2>1. /\ Schemas["df_delete_fact_table"] = FactTableSchemas["df_delete_fact_table"]
        /\ Handlers["df_delete_fact_table"] = ModelHandlers["df_delete_fact_table"]
        /\ UseCases["df_delete_fact_table"] = FactTableUseCases["df_delete_fact_table"]
        /\ Bodies["None"] = OtherBodies["None"]
    BY <1>1, <1>2, <1>3 DEF OtherBodies
  <2>2. Settled("df_delete_fact_table", PV \cup {"fact_table_id"}, "fact-tables", {})
    <3>1. \A s \in Subjects : "df_delete_fact_table" \in s[2] => s[1] = "fact-tables"
      BY DEF Subjects
    <3>2. QED  BY <2>1, <3>1 DEF Settled, Req, Opt, Names, BodyOf, Accepted, AsFields,
                IntoBody, ControlKeys, FactTableSchemas, ModelHandlers,
                FactTableUseCases, OtherBodies, Does, Use, Named, NoBody, Body, PV,
                Schema
  <2>3. MethodOf(c) = "delete_fact_table"
    BY <1>5, <2>1 DEF MethodOf, ModeOf, FactTableUseCases, Does, Use
  <2>4. Endpoint(c) = Delete(FactTable)
    <3>1. "delete_fact_table" \in DOMAIN FactTableEndpoints /\ FactTableEndpoints["delete_fact_table"] = Delete(FactTable)
      BY DEF FactTableEndpoints
    <3>2. QED  BY <2>3, <3>1, EndpointRows DEF Endpoint
  <2>5. Leads(Endpoint(c).path, PV \cup {"fact_table_id"}, "fact-tables", "fact_table_id")
    BY <2>4, PathsLead DEF Delete, Write
  <2>6. QED  BY <1>5, <2>2, <2>5, PlainArrival DEF TargetIds
<1>6. CASE c.tool = "df_assign_to_fact_table"
  <2>1. /\ Schemas["df_assign_to_fact_table"] = FactTableSchemas["df_assign_to_fact_table"]
        /\ Handlers["df_assign_to_fact_table"] = ModelHandlers["df_assign_to_fact_table"]
        /\ UseCases["df_assign_to_fact_table"] = FactTableUseCases["df_assign_to_fact_table"]
        /\ Bodies["ElementIds"] = OtherBodies["ElementIds"]
    BY <1>1, <1>2, <1>3 DEF OtherBodies
  <2>2. Settled("df_assign_to_fact_table", PV \cup {"fact_table_id", "element_type"}, "fact-tables", {})
    <3>1. \A s \in Subjects : "df_assign_to_fact_table" \in s[2] => s[1] = "fact-tables"
      BY DEF Subjects
    <3>2. QED  BY <2>1, <3>1 DEF Settled, Req, Opt, Names, BodyOf, Accepted, AsFields,
                IntoBody, ControlKeys, FactTableSchemas, ModelHandlers,
                FactTableUseCases, OtherBodies, Does, Use, Named, Body, PV, Key, Schema
  <2>3. MethodOf(c) = "assign_to_fact_table"
    BY <1>6, <2>1 DEF MethodOf, ModeOf, FactTableUseCases, Does, Use
  <2>4. Endpoint(c) = Post(FactTable \o <<"element_type">>)
    <3>1. "assign_to_fact_table" \in DOMAIN FactTableEndpoints /\ FactTableEndpoints["assign_to_fact_table"] = Post(FactTable \o <<"element_type">>)
      BY DEF FactTableEndpoints
    <3>2. QED  BY <2>3, <3>1, EndpointRows DEF Endpoint
  <2>5. Leads(Endpoint(c).path,
              PV \cup {"fact_table_id", "element_type"}, "fact-tables", "element_type")
    BY <2>4, PathsLead DEF Post, Write
  <2>6. QED  BY <1>6, <2>2, <2>5, PlainArrival DEF TargetIds
<1>7. CASE c.tool = "df_unassign_from_fact_table"
  <2>1. /\ Schemas["df_unassign_from_fact_table"] = FactTableSchemas["df_unassign_from_fact_table"]
        /\ Handlers["df_unassign_from_fact_table"] = ModelHandlers["df_unassign_from_fact_table"]
        /\ UseCases["df_unassign_from_fact_table"] =
                    FactTableUseCases["df_unassign_from_fact_table"]
        /\ Bodies["None"] = OtherBodies["None"]
    BY <1>1, <1>2, <1>3 DEF OtherBodies
  <2>2. Settled("df_unassign_from_fact_table", PV \cup {"fact_table_id", "element_type", "element_id"}, "fact-tables", {})
    <3>1. \A s \in Subjects : "df_unassign_from_fact_table" \in s[2] => s[1] = "fact-tables"
      BY DEF Subjects
    <3>2. QED  BY <2>1, <3>1 DEF Settled, Req, Opt, Names, BodyOf, Accepted, AsFields,
                IntoBody, ControlKeys, FactTableSchemas, ModelHandlers,
                FactTableUseCases, OtherBodies, Does, Use, Named, NoBody, Body, PV,
                Schema
  <2>3. MethodOf(c) = "unassign_from_fact_table"
    BY <1>7, <2>1 DEF MethodOf, ModeOf, FactTableUseCases, Does, Use
  <2>4. Endpoint(c) = Delete(FactTable \o <<"element_type", "element_id">>)
    <3>1. "unassign_from_fact_table" \in DOMAIN FactTableEndpoints /\ FactTableEndpoints["unassign_from_fact_table"] = Delete(FactTable \o <<"element_type", "element_id">>)
      BY DEF FactTableEndpoints
    <3>2. QED  BY <2>3, <3>1, EndpointRows DEF Endpoint
  <2>5. Leads(Endpoint(c).path,
              PV \cup {"fact_table_id", "element_type", "element_id"},
              "fact-tables", "element_id")
    BY <2>4, PathsLead DEF Delete, Write
  <2>6. QED  BY <1>7, <2>2, <2>5, PlainArrival DEF TargetIds
<1>8. QED  BY <1>1, <1>4, <1>5, <1>6, <1>7

LEMMA FilterArgumentsArrive ==
    ASSUME NEW c \in Calls, c.tool \in DOMAIN FilterSchemas, "connection_id" \notin
           Credentials, ~ Refused(c), Modes \subseteq {"create", "replace", "update"}
    PROVE  ArgumentsArrive(c)
<1>1. DOMAIN FilterSchemas = {"df_write_verification_filter",
          "df_delete_verification_filter"}
  BY DEF FilterSchemas
<1>2. \A t \in DOMAIN FilterSchemas :
        /\ Schemas[t] = FilterSchemas[t]
        /\ Handlers[t] = ModelHandlers[t]
        /\ UseCases[t] = FilterUseCases[t]
  BY <1>1, SchemaRows, HandlerRows, UseCaseRows DEF ModelHandlers, FilterUseCases
<1>3. /\ \A b \in DOMAIN EntityBodies : Bodies[b] = EntityBodies[b]
      /\ \A b \in DOMAIN OtherBodies : Bodies[b] = OtherBodies[b]
  BY BodyRows
<1>4. CASE c.tool = "df_write_verification_filter"
  <2>1. /\ Schemas["df_write_verification_filter"] = FilterSchemas["df_write_verification_filter"]
        /\ Handlers["df_write_verification_filter"] = ModelHandlers["df_write_verification_filter"]
        /\ UseCases["df_write_verification_filter"] =
                    FilterUseCases["df_write_verification_filter"]
        /\ Bodies["VerificationFilterWrite"] = EntityBodies["VerificationFilterWrite"]
    BY <1>1, <1>2, <1>3 DEF EntityBodies
  <2>2. Settled("df_write_verification_filter", PV, "verification-filters", {"filter_id", "fact_table_id"})
    <3>1. \A s \in Subjects : "df_write_verification_filter" \in s[2] => s[1] = "verification-filters"
      BY DEF Subjects
    <3>2. QED  BY <2>1, <3>1 DEF Settled, Req, Opt, Names, BodyOf, Accepted, AsFields,
                IntoBody, ControlKeys, FilterSchemas, ModelHandlers, FilterUseCases,
                EntityBodies, ByMode, Use, WithFields, Entity, Body, PV, Key, Schema
  <2>3. c.tool \in DOMAIN TargetIds /\ TargetOf(c) = "filter_id"
    BY <1>4 DEF TargetOf, TargetIds
  <2>4. Mode(c) \in {"create", "replace", "update"}
    BY CallShape DEF Mode
  <2>5. /\ Mode(c) = "create" => MethodOf(c) = "create_verification_filter"
        /\ Mode(c) = "replace" => MethodOf(c) = "replace_verification_filter"
        /\ Mode(c) = "update" => MethodOf(c) = "update_verification_filter"
    BY <1>4, <2>1 DEF Mode, MethodOf, ModeOf, FilterUseCases, ByMode, Use
  <2>6. /\ Mode(c) = "create" => Endpoint(c) = Post(FilterPath(c))
        /\ Mode(c) = "replace" => Endpoint(c) = Put(OneFilterPath(c))
        /\ Mode(c) = "update" => Endpoint(c) = Patch(OneFilterPath(c))
    <3>1. /\ "create_verification_filter" \in DOMAIN FilterEndpoints(c) /\ FilterEndpoints(c)["create_verification_filter"] = Post(FilterPath(c))
          /\ "replace_verification_filter" \in DOMAIN FilterEndpoints(c) /\ FilterEndpoints(c)["replace_verification_filter"] = Put(OneFilterPath(c))
          /\ "update_verification_filter" \in DOMAIN FilterEndpoints(c) /\ FilterEndpoints(c)["update_verification_filter"] = Patch(OneFilterPath(c))
      BY DEF FilterEndpoints
    <3>2. QED  BY <2>5, <3>1, EndpointRows DEF Endpoint
  <2>7. PathIds(c) = FilterIds(c)
    BY <1>4 DEF PathIds
  <2>8. Mode(c) = "create" =>
          /\ Endpoint(c).method = "POST"
          /\ Leads(Endpoint(c).path,
                   PathIds(c), "verification-filters", "verification-filters")
    <3>1. Mode(c) = "create" =>
            Endpoint(c).method = "POST" /\ Endpoint(c).path = FilterPath(c)
      BY <2>6 DEF Post, Write
    <3>2. QED  BY <2>7, <3>1, FiltersLead
  <2>9. Mode(c) # "create" /\ TargetOf(c) \in c.args =>
          /\ Endpoint(c).method = Methods[Mode(c)]
          /\ Leads(Endpoint(c).path,
                   PathIds(c) \cup {TargetOf(c)}, "verification-filters", TargetOf(c))
    <3>1. Mode(c) # "create" =>
            /\ Endpoint(c).method = Methods[Mode(c)]
            /\ Endpoint(c).path = OneFilterPath(c)
      BY <2>4, <2>6 DEF Put, Patch, Write, Methods
    <3>2. QED  BY <2>3, <2>7, <3>1, FiltersLead
  <2>10. {"filter_id", "fact_table_id"} \cap c.args \subseteq PathIds(c) \cup {TargetOf(c)}
    BY <2>3, <2>7 DEF FilterIds
  <2>11. QED  BY <1>4, <2>2, <2>3, <2>8, <2>9, <2>10, ModalArrival
<1>5. CASE c.tool = "df_delete_verification_filter"
  <2>1. /\ Schemas["df_delete_verification_filter"] =
              FilterSchemas["df_delete_verification_filter"]
        /\ Handlers["df_delete_verification_filter"] =
                    ModelHandlers["df_delete_verification_filter"]
        /\ UseCases["df_delete_verification_filter"] =
                    FilterUseCases["df_delete_verification_filter"]
        /\ Bodies["None"] = OtherBodies["None"]
    BY <1>1, <1>2, <1>3 DEF OtherBodies
  <2>2. Settled("df_delete_verification_filter", PV \cup {"filter_id"}, "verification-filters", {"fact_table_id"})
    <3>1. \A s \in Subjects : "df_delete_verification_filter" \in s[2] => s[1] = "verification-filters"
      BY DEF Subjects
    <3>2. QED  BY <2>1, <3>1 DEF Settled, Req, Opt, Names, BodyOf, Accepted, AsFields,
                IntoBody, ControlKeys, FilterSchemas, ModelHandlers, FilterUseCases,
                OtherBodies, Does, Use, Named, NoBody, Body, PV, Schema
  <2>3. MethodOf(c) = "delete_verification_filter"
    BY <1>5, <2>1 DEF MethodOf, ModeOf, FilterUseCases, Does, Use
  <2>4. Endpoint(c) = Delete(OneFilterPath(c))
    <3>1. "delete_verification_filter" \in DOMAIN FilterEndpoints(c) /\ FilterEndpoints(c)["delete_verification_filter"] = Delete(OneFilterPath(c))
      BY DEF FilterEndpoints
    <3>2. QED  BY <2>3, <3>1, EndpointRows DEF Endpoint
  <2>5. "filter_id" \in c.args /\ PV \subseteq c.args
    BY <1>5, <2>1, FieldsOfACall DEF Req, FilterSchemas, Schema
  <2>6. Leads(Endpoint(c).path,
              FilterIds(c) \cup {"filter_id"}, "verification-filters", "filter_id")
    BY <2>4, <2>5, FiltersLead DEF Delete, Write
  <2>7. /\ FilterIds(c) \cup {"filter_id"} \in SUBSET c.args
        /\ c.args \ {"mode", "idempotency_key"} \subseteq
              (FilterIds(c) \cup {"filter_id"}) \cup Content(c)
    <3>1. c.args \ {"mode", "idempotency_key"} \subseteq
             (PV \cup {"filter_id"}) \cup Content(c) \cup ({"fact_table_id"} \cap c.args)
      <4>1. Settled(c.tool, PV \cup {"filter_id"}, "verification-filters", {"fact_table_id"})
        BY <1>5, <2>2
      <4>2. QED  BY <4>1, ArgumentsSettled
    <3>2. QED  BY <2>5, <3>1 DEF FilterIds
  <2>8. \A s \in Subjects : c.tool \in s[2] => s[1] = "verification-filters"
    BY <1>5, <2>2 DEF Settled
  <2>9. c.tool \notin DOMAIN TargetIds
    BY <1>5 DEF TargetIds
  <2>10. QED  BY <2>6, <2>7, <2>8, <2>9, Arrival
<1>6. QED  BY <1>1, <1>4, <1>5

LEMMA RelationshipArgumentsArrive ==
    ASSUME NEW c \in Calls, c.tool \in DOMAIN RelationshipSchemas, "connection_id"
           \notin Credentials, ~ Refused(c), Modes \subseteq {"create", "replace",
           "update"}
    PROVE  ArgumentsArrive(c)
<1>1. DOMAIN RelationshipSchemas = {"df_write_relationship", "df_delete_relationship"}
  BY DEF RelationshipSchemas
<1>2. \A t \in DOMAIN RelationshipSchemas :
        /\ Schemas[t] = RelationshipSchemas[t]
        /\ Handlers[t] = ModelHandlers[t]
        /\ UseCases[t] = RelationshipUseCases[t]
  BY <1>1, SchemaRows, HandlerRows, UseCaseRows DEF ModelHandlers, RelationshipUseCases
<1>3. /\ \A b \in DOMAIN EntityBodies : Bodies[b] = EntityBodies[b]
      /\ \A b \in DOMAIN OtherBodies : Bodies[b] = OtherBodies[b]
  BY BodyRows
<1>4. CASE c.tool = "df_write_relationship"
  <2>1. /\ Schemas["df_write_relationship"] = RelationshipSchemas["df_write_relationship"]
        /\ Handlers["df_write_relationship"] = ModelHandlers["df_write_relationship"]
        /\ UseCases["df_write_relationship"] = RelationshipUseCases["df_write_relationship"]
        /\ Bodies["RelationshipWrite"] = EntityBodies["RelationshipWrite"]
    BY <1>1, <1>2, <1>3 DEF EntityBodies
  <2>2. Settled("df_write_relationship", PV, "relationships", {"relationship_id"})
    <3>1. \A s \in Subjects : "df_write_relationship" \in s[2] => s[1] = "relationships"
      BY DEF Subjects
    <3>2. QED  BY <2>1, <3>1 DEF Settled, Req, Opt, Names, BodyOf, Accepted, AsFields,
                IntoBody, ControlKeys, RelationshipSchemas, ModelHandlers,
                RelationshipUseCases, EntityBodies, Modal, WithFields, PV, Key, ByMode,
                Use, Entity, Body, Schema, RelationshipFields
  <2>3. c.tool \in DOMAIN TargetIds /\ TargetOf(c) = "relationship_id"
    BY <1>4 DEF TargetOf, TargetIds
  <2>4. Mode(c) \in {"create", "replace", "update"}
    BY CallShape DEF Mode
  <2>5. /\ Mode(c) = "create" => MethodOf(c) = "create_relationship"
        /\ Mode(c) = "replace" => MethodOf(c) = "replace_relationship"
        /\ Mode(c) = "update" => MethodOf(c) = "update_relationship"
    BY <1>4, <2>1 DEF Mode, MethodOf, ModeOf, RelationshipUseCases, ByMode, Use
  <2>6. /\ Mode(c) = "create" => Endpoint(c) = Post(Relationships)
        /\ Mode(c) = "replace" => Endpoint(c) = Put(Relationships \o <<"relationship_id">>)
        /\ Mode(c) = "update" => Endpoint(c) = Patch(Relationships \o <<"relationship_id">>)
    <3>1. /\ "create_relationship" \in DOMAIN RelationshipEndpoints /\ RelationshipEndpoints["create_relationship"] = Post(Relationships)
          /\ "replace_relationship" \in DOMAIN RelationshipEndpoints /\ RelationshipEndpoints["replace_relationship"] = Put(Relationships \o <<"relationship_id">>)
          /\ "update_relationship" \in DOMAIN RelationshipEndpoints /\ RelationshipEndpoints["update_relationship"] = Patch(Relationships \o <<"relationship_id">>)
      BY DEF RelationshipEndpoints
    <3>2. QED  BY <2>5, <3>1, EndpointRows DEF Endpoint
  <2>7. PathIds(c) = PV
    BY <1>4 DEF PathIds
  <2>8. Mode(c) = "create" =>
          /\ Endpoint(c).method = "POST"
          /\ Leads(Endpoint(c).path, PathIds(c), "relationships", "relationships")
    <3>1. Mode(c) = "create" =>
            Endpoint(c).method = "POST" /\ Endpoint(c).path = Relationships
      BY <2>6 DEF Post, Write
    <3>2. QED  BY <2>7, <3>1, PathsLead
  <2>9. Mode(c) # "create" /\ TargetOf(c) \in c.args =>
          /\ Endpoint(c).method = Methods[Mode(c)]
          /\ Leads(Endpoint(c).path,
                   PathIds(c) \cup {TargetOf(c)}, "relationships", TargetOf(c))
    <3>1. Mode(c) # "create" =>
            /\ Endpoint(c).method = Methods[Mode(c)]
            /\ Endpoint(c).path = Relationships \o <<"relationship_id">>
      BY <2>4, <2>6 DEF Put, Patch, Write, Methods
    <3>2. QED  BY <2>3, <2>7, <3>1, PathsLead
  <2>10. {"relationship_id"} \cap c.args \subseteq PathIds(c) \cup {TargetOf(c)}
    BY <2>3, <2>7
  <2>11. QED  BY <1>4, <2>2, <2>3, <2>8, <2>9, <2>10, ModalArrival
<1>5. CASE c.tool = "df_delete_relationship"
  <2>1. /\ Schemas["df_delete_relationship"] = RelationshipSchemas["df_delete_relationship"]
        /\ Handlers["df_delete_relationship"] = ModelHandlers["df_delete_relationship"]
        /\ UseCases["df_delete_relationship"] = RelationshipUseCases["df_delete_relationship"]
        /\ Bodies["None"] = OtherBodies["None"]
    BY <1>1, <1>2, <1>3 DEF OtherBodies
  <2>2. Settled("df_delete_relationship", PV \cup {"relationship_id"}, "relationships", {})
    <3>1. \A s \in Subjects : "df_delete_relationship" \in s[2] => s[1] = "relationships"
      BY DEF Subjects
    <3>2. QED  BY <2>1, <3>1 DEF Settled, Req, Opt, Names, BodyOf, Accepted, AsFields,
                IntoBody, ControlKeys, RelationshipSchemas, ModelHandlers,
                RelationshipUseCases, OtherBodies, Does, Use, Named, NoBody, Body, PV,
                Schema
  <2>3. MethodOf(c) = "delete_relationship"
    BY <1>5, <2>1 DEF MethodOf, ModeOf, RelationshipUseCases, Does, Use
  <2>4. Endpoint(c) = Delete(Relationships \o <<"relationship_id">>)
    <3>1. "delete_relationship" \in DOMAIN RelationshipEndpoints /\ RelationshipEndpoints["delete_relationship"] = Delete(Relationships \o <<"relationship_id">>)
      BY DEF RelationshipEndpoints
    <3>2. QED  BY <2>3, <3>1, EndpointRows DEF Endpoint
  <2>5. Leads(Endpoint(c).path,
              PV \cup {"relationship_id"}, "relationships", "relationship_id")
    BY <2>4, PathsLead DEF Delete, Write
  <2>6. QED  BY <1>5, <2>2, <2>5, PlainArrival DEF TargetIds
<1>6. QED  BY <1>1, <1>4, <1>5

LEMMA AccessArgumentsArrive ==
    ASSUME NEW c \in Calls, c.tool \in DOMAIN AccessSchemas, "connection_id" \notin
           Credentials
    PROVE  ArgumentsArrive(c)
<1>1. DOMAIN AccessSchemas = {"df_set_project_access", "df_revoke_project_access",
          "df_transfer_project_ownership"}
  BY DEF AccessSchemas
<1>2. \A t \in DOMAIN AccessSchemas :
        /\ Schemas[t] = AccessSchemas[t]
        /\ Handlers[t] = TransferHandlers[t]
        /\ UseCases[t] = AccessUseCases[t]
  BY <1>1, SchemaRows, HandlerRows, UseCaseRows DEF TransferHandlers, AccessUseCases
<1>3. /\ \A b \in DOMAIN EntityBodies : Bodies[b] = EntityBodies[b]
      /\ \A b \in DOMAIN OtherBodies : Bodies[b] = OtherBodies[b]
  BY BodyRows
<1>4. CASE c.tool = "df_set_project_access"
  <2>1. /\ Schemas["df_set_project_access"] = AccessSchemas["df_set_project_access"]
        /\ Handlers["df_set_project_access"] = TransferHandlers["df_set_project_access"]
        /\ UseCases["df_set_project_access"] = AccessUseCases["df_set_project_access"]
        /\ Bodies["ProjectAccessWrite"] = OtherBodies["ProjectAccessWrite"]
    BY <1>1, <1>2, <1>3 DEF OtherBodies
  <2>2. Settled("df_set_project_access", {"project_id"}, "access", {})
    <3>1. \A s \in Subjects : "df_set_project_access" \in s[2] => s[1] = "access"
      BY DEF Subjects
    <3>2. QED  BY <2>1, <3>1 DEF Settled, Req, Opt, Names, BodyOf, Accepted, AsFields,
                IntoBody, ControlKeys, AccessSchemas, TransferHandlers, AccessUseCases,
                OtherBodies, Does, Use, Named, Body, Key, Schema
  <2>3. MethodOf(c) = "set_project_access"
    BY <1>4, <2>1 DEF MethodOf, ModeOf, AccessUseCases, Does, Use
  <2>4. Endpoint(c) = Post(Project \o <<"access">>)
    <3>1. "set_project_access" \in DOMAIN AccessEndpoints /\ AccessEndpoints["set_project_access"] = Post(Project \o <<"access">>)
      BY DEF AccessEndpoints
    <3>2. QED  BY <2>3, <3>1, EndpointRows DEF Endpoint
  <2>5. Leads(Endpoint(c).path, {"project_id"}, "access", "access")
    BY <2>4, PathsLead DEF Post, Write
  <2>6. QED  BY <1>4, <2>2, <2>5, PlainArrival DEF TargetIds
<1>5. CASE c.tool = "df_revoke_project_access"
  <2>1. /\ Schemas["df_revoke_project_access"] = AccessSchemas["df_revoke_project_access"]
        /\ Handlers["df_revoke_project_access"] = TransferHandlers["df_revoke_project_access"]
        /\ UseCases["df_revoke_project_access"] = AccessUseCases["df_revoke_project_access"]
        /\ Bodies["None"] = OtherBodies["None"]
    BY <1>1, <1>2, <1>3 DEF OtherBodies
  <2>2. Settled("df_revoke_project_access", {"project_id", "user_id"}, "access", {})
    <3>1. \A s \in Subjects : "df_revoke_project_access" \in s[2] => s[1] = "access"
      BY DEF Subjects
    <3>2. QED  BY <2>1, <3>1 DEF Settled, Req, Opt, Names, BodyOf, Accepted, AsFields,
                IntoBody, ControlKeys, AccessSchemas, TransferHandlers, AccessUseCases,
                OtherBodies, Does, Use, Named, NoBody, Body, Schema
  <2>3. MethodOf(c) = "revoke_project_access"
    BY <1>5, <2>1 DEF MethodOf, ModeOf, AccessUseCases, Does, Use
  <2>4. Endpoint(c) = Delete(Project \o <<"access", "user_id">>)
    <3>1. "revoke_project_access" \in DOMAIN AccessEndpoints /\ AccessEndpoints["revoke_project_access"] = Delete(Project \o <<"access", "user_id">>)
      BY DEF AccessEndpoints
    <3>2. QED  BY <2>3, <3>1, EndpointRows DEF Endpoint
  <2>5. Leads(Endpoint(c).path, {"project_id", "user_id"}, "access", "user_id")
    BY <2>4, PathsLead DEF Delete, Write
  <2>6. QED  BY <1>5, <2>2, <2>5, PlainArrival DEF TargetIds
<1>6. CASE c.tool = "df_transfer_project_ownership"
  <2>1. /\ Schemas["df_transfer_project_ownership"] =
              AccessSchemas["df_transfer_project_ownership"]
        /\ Handlers["df_transfer_project_ownership"] =
                    TransferHandlers["df_transfer_project_ownership"]
        /\ UseCases["df_transfer_project_ownership"] =
                    AccessUseCases["df_transfer_project_ownership"]
        /\ Bodies["TransferOwnerBody"] = OtherBodies["TransferOwnerBody"]
    BY <1>1, <1>2, <1>3 DEF OtherBodies
  <2>2. Settled("df_transfer_project_ownership", {"project_id"}, "owner", {})
    <3>1. \A s \in Subjects : "df_transfer_project_ownership" \in s[2] => s[1] = "owner"
      BY DEF Subjects
    <3>2. QED  BY <2>1, <3>1 DEF Settled, Req, Opt, Names, BodyOf, Accepted, AsFields,
                IntoBody, ControlKeys, AccessSchemas, TransferHandlers, AccessUseCases,
                OtherBodies, Does, Use, Named, Body, Schema
  <2>3. MethodOf(c) = "transfer_project_ownership"
    BY <1>6, <2>1 DEF MethodOf, ModeOf, AccessUseCases, Does, Use
  <2>4. Endpoint(c) = Put(Project \o <<"owner">>)
    <3>1. "transfer_project_ownership" \in DOMAIN AccessEndpoints /\ AccessEndpoints["transfer_project_ownership"] = Put(Project \o <<"owner">>)
      BY DEF AccessEndpoints
    <3>2. QED  BY <2>3, <3>1, EndpointRows DEF Endpoint
  <2>5. Leads(Endpoint(c).path, {"project_id"}, "owner", "owner")
    BY <2>4, PathsLead DEF Put, Write
  <2>6. QED  BY <1>6, <2>2, <2>5, PlainArrival DEF TargetIds
<1>7. QED  BY <1>1, <1>4, <1>5, <1>6

LEMMA TransferArgumentsArrive ==
    ASSUME NEW c \in Calls, c.tool \in DOMAIN TransferSchemas, "connection_id" \notin
           Credentials
    PROVE  ArgumentsArrive(c)
<1>1. DOMAIN TransferSchemas = {"df_export_version_to_git", "df_export_version_to_file",
          "df_check_import_source", "df_preview_import", "df_import_version_from_git",
          "df_import_version_from_file"}
  BY DEF TransferSchemas
<1>2. \A t \in DOMAIN TransferSchemas :
        /\ Schemas[t] = TransferSchemas[t]
        /\ Handlers[t] = TransferHandlers[t]
        /\ UseCases[t] = TransferUseCases[t]
  BY <1>1, SchemaRows, HandlerRows, UseCaseRows DEF TransferHandlers, TransferUseCases
<1>3. /\ \A b \in DOMAIN EntityBodies : Bodies[b] = EntityBodies[b]
      /\ \A b \in DOMAIN OtherBodies : Bodies[b] = OtherBodies[b]
  BY BodyRows
<1>4. CASE c.tool = "df_export_version_to_git"
  <2>1. /\ Schemas["df_export_version_to_git"] = TransferSchemas["df_export_version_to_git"]
        /\ Handlers["df_export_version_to_git"] = TransferHandlers["df_export_version_to_git"]
        /\ UseCases["df_export_version_to_git"] = TransferUseCases["df_export_version_to_git"]
        /\ Bodies["ExportGitBody"] = OtherBodies["ExportGitBody"]
    BY <1>1, <1>2, <1>3 DEF OtherBodies
  <2>2. Settled("df_export_version_to_git", PV, "git", {})
    <3>1. \A s \in Subjects : "df_export_version_to_git" \in s[2] => s[1] = "git"
      BY DEF Subjects
    <3>2. QED  BY <2>1, <3>1 DEF Settled, Req, Opt, Names, BodyOf, Accepted, AsFields,
                IntoBody, ControlKeys, TransferSchemas, TransferHandlers,
                TransferUseCases, OtherBodies, Does, Use, WithFields, Body, PV, Key,
                Schema, GitSource
  <2>3. MethodOf(c) = "export_version_to_git"
    BY <1>4, <2>1 DEF MethodOf, ModeOf, TransferUseCases, Does, Use
  <2>4. Endpoint(c) = Post(Version \o <<"export", "git">>)
    <3>1. "export_version_to_git" \in DOMAIN TransferEndpoints /\ TransferEndpoints["export_version_to_git"] = Post(Version \o <<"export", "git">>)
      BY DEF TransferEndpoints
    <3>2. QED  BY <2>3, <3>1, EndpointRows DEF Endpoint
  <2>5. Leads(Endpoint(c).path, PV, "git", "git")
    BY <2>4, PathsLead DEF Post, Write
  <2>6. QED  BY <1>4, <2>2, <2>5, PlainArrival DEF TargetIds
<1>5. CASE c.tool = "df_export_version_to_file"
  <2>1. /\ Schemas["df_export_version_to_file"] = TransferSchemas["df_export_version_to_file"]
        /\ Handlers["df_export_version_to_file"] = TransferHandlers["df_export_version_to_file"]
        /\ UseCases["df_export_version_to_file"] = TransferUseCases["df_export_version_to_file"]
        /\ Bodies["ExportFileBody"] = OtherBodies["ExportFileBody"]
    BY <1>1, <1>2, <1>3 DEF OtherBodies
  <2>2. Settled("df_export_version_to_file", PV, "file", {})
    <3>1. \A s \in Subjects : "df_export_version_to_file" \in s[2] => s[1] = "file"
      BY DEF Subjects
    <3>2. QED  BY <2>1, <3>1 DEF Settled, Req, Opt, Names, BodyOf, Accepted, AsFields,
                IntoBody, ControlKeys, TransferSchemas, TransferHandlers,
                TransferUseCases, OtherBodies, Does, Use, WithFields, Body, PV, Schema
  <2>3. MethodOf(c) = "export_version_to_file"
    BY <1>5, <2>1 DEF MethodOf, ModeOf, TransferUseCases, Does, Use
  <2>4. Endpoint(c) = PostKeyless(Version \o <<"export", "file">>)
    <3>1. "export_version_to_file" \in DOMAIN TransferEndpoints /\ TransferEndpoints["export_version_to_file"] = PostKeyless(Version \o <<"export", "file">>)
      BY DEF TransferEndpoints
    <3>2. QED  BY <2>3, <3>1, EndpointRows DEF Endpoint
  <2>5. Leads(Endpoint(c).path, PV, "file", "file")
    BY <2>4, PathsLead DEF PostKeyless, Write
  <2>6. QED  BY <1>5, <2>2, <2>5, PlainArrival DEF TargetIds
<1>6. CASE c.tool = "df_check_import_source"
  <2>1. /\ Schemas["df_check_import_source"] = TransferSchemas["df_check_import_source"]
        /\ Handlers["df_check_import_source"] = TransferHandlers["df_check_import_source"]
        /\ UseCases["df_check_import_source"] = TransferUseCases["df_check_import_source"]
        /\ Bodies["ImportSourceBody"] = OtherBodies["ImportSourceBody"]
    BY <1>1, <1>2, <1>3 DEF OtherBodies
  <2>2. Settled("df_check_import_source", PV, "validate", {})
    <3>1. \A s \in Subjects : "df_check_import_source" \in s[2] => s[1] = "validate"
      BY DEF Subjects
    <3>2. QED  BY <2>1, <3>1 DEF Settled, Req, Opt, Names, BodyOf, Accepted, AsFields,
                IntoBody, ControlKeys, TransferSchemas, TransferHandlers,
                TransferUseCases, OtherBodies, Does, Use, WithFields, Body, PV, Schema,
                GitSource
  <2>3. MethodOf(c) = "validate_import_source"
    BY <1>6, <2>1 DEF MethodOf, ModeOf, TransferUseCases, Does, Use
  <2>4. Endpoint(c) = PostKeyless(Version \o <<"import", "validate">>)
    <3>1. "validate_import_source" \in DOMAIN TransferEndpoints /\ TransferEndpoints["validate_import_source"] = PostKeyless(Version \o <<"import", "validate">>)
      BY DEF TransferEndpoints
    <3>2. QED  BY <2>3, <3>1, EndpointRows DEF Endpoint
  <2>5. Leads(Endpoint(c).path, PV, "validate", "validate")
    BY <2>4, PathsLead DEF PostKeyless, Write
  <2>6. QED  BY <1>6, <2>2, <2>5, PlainArrival DEF TargetIds
<1>7. CASE c.tool = "df_preview_import"
  <2>1. /\ Schemas["df_preview_import"] = TransferSchemas["df_preview_import"]
        /\ Handlers["df_preview_import"] = TransferHandlers["df_preview_import"]
        /\ UseCases["df_preview_import"] = TransferUseCases["df_preview_import"]
        /\ Bodies["ImportSourceBody"] = OtherBodies["ImportSourceBody"]
    BY <1>1, <1>2, <1>3 DEF OtherBodies
  <2>2. Settled("df_preview_import", PV, "preview", {})
    <3>1. \A s \in Subjects : "df_preview_import" \in s[2] => s[1] = "preview"
      BY DEF Subjects
    <3>2. QED  BY <2>1, <3>1 DEF Settled, Req, Opt, Names, BodyOf, Accepted, AsFields,
                IntoBody, ControlKeys, TransferSchemas, TransferHandlers,
                TransferUseCases, OtherBodies, Does, Use, WithFields, Body, PV, Schema,
                GitSource
  <2>3. MethodOf(c) = "preview_import"
    BY <1>7, <2>1 DEF MethodOf, ModeOf, TransferUseCases, Does, Use
  <2>4. Endpoint(c) = PostKeyless(Version \o <<"import", "preview">>)
    <3>1. "preview_import" \in DOMAIN TransferEndpoints /\ TransferEndpoints["preview_import"] = PostKeyless(Version \o <<"import", "preview">>)
      BY DEF TransferEndpoints
    <3>2. QED  BY <2>3, <3>1, EndpointRows DEF Endpoint
  <2>5. Leads(Endpoint(c).path, PV, "preview", "preview")
    BY <2>4, PathsLead DEF PostKeyless, Write
  <2>6. QED  BY <1>7, <2>2, <2>5, PlainArrival DEF TargetIds
<1>8. CASE c.tool = "df_import_version_from_git"
  <2>1. /\ Schemas["df_import_version_from_git"] = TransferSchemas["df_import_version_from_git"]
        /\ Handlers["df_import_version_from_git"] = TransferHandlers["df_import_version_from_git"]
        /\ UseCases["df_import_version_from_git"] = TransferUseCases["df_import_version_from_git"]
        /\ Bodies["ImportGitBody"] = OtherBodies["ImportGitBody"]
    BY <1>1, <1>2, <1>3 DEF OtherBodies
  <2>2. Settled("df_import_version_from_git", PV, "git", {})
    <3>1. \A s \in Subjects : "df_import_version_from_git" \in s[2] => s[1] = "git"
      BY DEF Subjects
    <3>2. QED  BY <2>1, <3>1 DEF Settled, Req, Opt, Names, BodyOf, Accepted, AsFields,
                IntoBody, ControlKeys, TransferSchemas, TransferHandlers,
                TransferUseCases, OtherBodies, Does, Use, WithFields, Body, PV, Key,
                Schema, GitSource
  <2>3. MethodOf(c) = "import_version_from_git"
    BY <1>8, <2>1 DEF MethodOf, ModeOf, TransferUseCases, Does, Use
  <2>4. Endpoint(c) = Post(Version \o <<"import", "git">>)
    <3>1. "import_version_from_git" \in DOMAIN TransferEndpoints /\ TransferEndpoints["import_version_from_git"] = Post(Version \o <<"import", "git">>)
      BY DEF TransferEndpoints
    <3>2. QED  BY <2>3, <3>1, EndpointRows DEF Endpoint
  <2>5. Leads(Endpoint(c).path, PV, "git", "git")
    BY <2>4, PathsLead DEF Post, Write
  <2>6. QED  BY <1>8, <2>2, <2>5, PlainArrival DEF TargetIds
<1>9. CASE c.tool = "df_import_version_from_file"
  <2>1. /\ Schemas["df_import_version_from_file"] = TransferSchemas["df_import_version_from_file"]
        /\ Handlers["df_import_version_from_file"] =
                    TransferHandlers["df_import_version_from_file"]
        /\ UseCases["df_import_version_from_file"] =
                    TransferUseCases["df_import_version_from_file"]
        /\ Bodies["ImportForm"] = OtherBodies["ImportForm"]
    BY <1>1, <1>2, <1>3 DEF OtherBodies
  <2>2. Settled("df_import_version_from_file", PV, "file", {})
    <3>1. \A s \in Subjects : "df_import_version_from_file" \in s[2] => s[1] = "file"
      BY DEF Subjects
    <3>2. QED  BY <2>1, <3>1 DEF Settled, Req, Opt, Names, BodyOf, Accepted, AsFields,
                IntoBody, ControlKeys, TransferSchemas, TransferHandlers,
                TransferUseCases, OtherBodies, Does, Use, Named, Body, PV, Key, Schema
  <2>3. MethodOf(c) = "import_version_from_file"
    BY <1>9, <2>1 DEF MethodOf, ModeOf, TransferUseCases, Does, Use
  <2>4. Endpoint(c) = Post(Version \o <<"import", "file">>)
    <3>1. "import_version_from_file" \in DOMAIN TransferEndpoints /\ TransferEndpoints["import_version_from_file"] = Post(Version \o <<"import", "file">>)
      BY DEF TransferEndpoints
    <3>2. QED  BY <2>3, <3>1, EndpointRows DEF Endpoint
  <2>5. Leads(Endpoint(c).path, PV, "file", "file")
    BY <2>4, PathsLead DEF Post, Write
  <2>6. QED  BY <1>9, <2>2, <2>5, PlainArrival DEF TargetIds
<1>10. QED  BY <1>1, <1>4, <1>5, <1>6, <1>7, <1>8, <1>9

LEMMA GitArgumentsArrive ==
    ASSUME NEW c \in Calls, c.tool \in DOMAIN GitSchemas, "connection_id" \notin
           Credentials
    PROVE  ArgumentsArrive(c)
<1>1. DOMAIN GitSchemas = {"df_create_git_connection", "df_update_git_connection",
          "df_delete_git_connection", "df_test_git_connection"}
  BY DEF GitSchemas
<1>2. \A t \in DOMAIN GitSchemas :
        /\ Schemas[t] = GitSchemas[t]
        /\ Handlers[t] = GitHandlers[t]
        /\ UseCases[t] = GitUseCases[t]
  BY <1>1, SchemaRows, HandlerRows, UseCaseRows DEF GitHandlers, GitUseCases
<1>3. /\ \A b \in DOMAIN EntityBodies : Bodies[b] = EntityBodies[b]
      /\ \A b \in DOMAIN OtherBodies : Bodies[b] = OtherBodies[b]
  BY BodyRows
<1>4. CASE c.tool = "df_create_git_connection"
  <2>1. /\ Schemas["df_create_git_connection"] = GitSchemas["df_create_git_connection"]
        /\ Handlers["df_create_git_connection"] = GitHandlers["df_create_git_connection"]
        /\ UseCases["df_create_git_connection"] = GitUseCases["df_create_git_connection"]
        /\ Bodies["GitConnectionWrite"] = OtherBodies["GitConnectionWrite"]
    BY <1>1, <1>2, <1>3 DEF OtherBodies
  <2>2. Settled("df_create_git_connection", {}, "git-connections", {})
    <3>1. \A s \in Subjects : "df_create_git_connection" \in s[2] => s[1] = "git-connections"
      BY DEF Subjects
    <3>2. QED  BY <2>1, <3>1 DEF Settled, Req, Opt, Names, BodyOf, Accepted, AsFields,
                IntoBody, ControlKeys, GitSchemas, GitHandlers, GitUseCases,
                OtherBodies, Creates, Use, WithFields, Entity, Body, Key, Schema,
                GitSource
  <2>3. MethodOf(c) = "create_git_connection"
    BY <1>4, <2>1 DEF MethodOf, ModeOf, GitUseCases, Creates, Use
  <2>4. Endpoint(c) = Post(<<"git-connections">>)
    <3>1. "create_git_connection" \in DOMAIN GitEndpoints /\ GitEndpoints["create_git_connection"] = Post(<<"git-connections">>)
      BY DEF GitEndpoints
    <3>2. QED  BY <2>3, <3>1, EndpointRows DEF Endpoint
  <2>5. Leads(Endpoint(c).path, {}, "git-connections", "git-connections")
    BY <2>4, PathsLead DEF Post, Write
  <2>6. QED  BY <1>4, <2>2, <2>5, PlainArrival DEF TargetIds
<1>5. CASE c.tool = "df_update_git_connection"
  <2>1. /\ Schemas["df_update_git_connection"] = GitSchemas["df_update_git_connection"]
        /\ Handlers["df_update_git_connection"] = GitHandlers["df_update_git_connection"]
        /\ UseCases["df_update_git_connection"] = GitUseCases["df_update_git_connection"]
        /\ Bodies["GitConnectionWrite"] = OtherBodies["GitConnectionWrite"]
    BY <1>1, <1>2, <1>3 DEF OtherBodies
  <2>2. Settled("df_update_git_connection", {"connection_id"}, "git-connections", {})
    <3>1. \A s \in Subjects : "df_update_git_connection" \in s[2] => s[1] = "git-connections"
      BY DEF Subjects
    <3>2. QED  BY <2>1, <3>1 DEF Settled, Req, Opt, Names, BodyOf, Accepted, AsFields,
                IntoBody, ControlKeys, GitSchemas, GitHandlers, GitUseCases,
                OtherBodies, Does, Use, WithFields, Entity, Body, Schema, GitSource
  <2>3. MethodOf(c) = "update_git_connection"
    BY <1>5, <2>1 DEF MethodOf, ModeOf, GitUseCases, Does, Use
  <2>4. Endpoint(c) = Put(GitConnection)
    <3>1. "update_git_connection" \in DOMAIN GitEndpoints /\ GitEndpoints["update_git_connection"] = Put(GitConnection)
      BY DEF GitEndpoints
    <3>2. QED  BY <2>3, <3>1, EndpointRows DEF Endpoint
  <2>5. Leads(Endpoint(c).path, {"connection_id"}, "git-connections", "connection_id")
    BY <2>4, PathsLead DEF Put, Write
  <2>6. QED  BY <1>5, <2>2, <2>5, PlainArrival DEF TargetIds
<1>6. CASE c.tool = "df_delete_git_connection"
  <2>1. /\ Schemas["df_delete_git_connection"] = GitSchemas["df_delete_git_connection"]
        /\ Handlers["df_delete_git_connection"] = GitHandlers["df_delete_git_connection"]
        /\ UseCases["df_delete_git_connection"] = GitUseCases["df_delete_git_connection"]
        /\ Bodies["None"] = OtherBodies["None"]
    BY <1>1, <1>2, <1>3 DEF OtherBodies
  <2>2. Settled("df_delete_git_connection", {"connection_id"}, "git-connections", {})
    <3>1. \A s \in Subjects : "df_delete_git_connection" \in s[2] => s[1] = "git-connections"
      BY DEF Subjects
    <3>2. QED  BY <2>1, <3>1 DEF Settled, Req, Opt, Names, BodyOf, Accepted, AsFields,
                IntoBody, ControlKeys, GitSchemas, GitHandlers, GitUseCases,
                OtherBodies, Does, Use, Named, NoBody, Body, Schema
  <2>3. MethodOf(c) = "delete_git_connection"
    BY <1>6, <2>1 DEF MethodOf, ModeOf, GitUseCases, Does, Use
  <2>4. Endpoint(c) = Delete(GitConnection)
    <3>1. "delete_git_connection" \in DOMAIN GitEndpoints /\ GitEndpoints["delete_git_connection"] = Delete(GitConnection)
      BY DEF GitEndpoints
    <3>2. QED  BY <2>3, <3>1, EndpointRows DEF Endpoint
  <2>5. Leads(Endpoint(c).path, {"connection_id"}, "git-connections", "connection_id")
    BY <2>4, PathsLead DEF Delete, Write
  <2>6. QED  BY <1>6, <2>2, <2>5, PlainArrival DEF TargetIds
<1>7. CASE c.tool = "df_test_git_connection"
  <2>1. /\ Schemas["df_test_git_connection"] = GitSchemas["df_test_git_connection"]
        /\ Handlers["df_test_git_connection"] = GitHandlers["df_test_git_connection"]
        /\ UseCases["df_test_git_connection"] = GitUseCases["df_test_git_connection"]
        /\ Bodies["None"] = OtherBodies["None"]
    BY <1>1, <1>2, <1>3 DEF OtherBodies
  <2>2. Settled("df_test_git_connection", {"connection_id"}, "test", {})
    <3>1. \A s \in Subjects : "df_test_git_connection" \in s[2] => s[1] = "test"
      BY DEF Subjects
    <3>2. QED  BY <2>1, <3>1 DEF Settled, Req, Opt, Names, BodyOf, Accepted, AsFields,
                IntoBody, ControlKeys, GitSchemas, GitHandlers, GitUseCases,
                OtherBodies, Does, Use, Named, NoBody, Body, Schema
  <2>3. MethodOf(c) = "test_git_connection"
    BY <1>7, <2>1 DEF MethodOf, ModeOf, GitUseCases, Does, Use
  <2>4. Endpoint(c) = PostKeyless(GitConnection \o <<"test">>)
    <3>1. "test_git_connection" \in DOMAIN GitEndpoints /\ GitEndpoints["test_git_connection"] = PostKeyless(GitConnection \o <<"test">>)
      BY DEF GitEndpoints
    <3>2. QED  BY <2>3, <3>1, EndpointRows DEF Endpoint
  <2>5. Leads(Endpoint(c).path, {"connection_id"}, "test", "test")
    BY <2>4, PathsLead DEF PostKeyless, Write
  <2>6. QED  BY <1>7, <2>2, <2>5, PlainArrival DEF TargetIds
<1>8. QED  BY <1>1, <1>4, <1>5, <1>6, <1>7

LEMMA EveryArgumentArrives ==
    ASSUME NEW c \in Calls, "connection_id" \notin Credentials, ~ Refused(c),
           Modes \subseteq {"create", "replace", "update"}
    PROVE  ArgumentsArrive(c)
<1>1. Tools = UNION {DOMAIN part : part \in
         {ProjectSchemas, RmdSchemas, GroupSchemas, FactTableSchemas, FilterSchemas,
          RelationshipSchemas, AccessSchemas, TransferSchemas, GitSchemas}}
  BY RowsOfAll DEF Tools, Schemas
<1>2. c.tool \in Tools
  BY CallShape
<1>3. QED  BY <1>1, <1>2, ProjectArgumentsArrive, RmdArgumentsArrive,
            GroupArgumentsArrive, FactTableArgumentsArrive, FilterArgumentsArrive,
            RelationshipArgumentsArrive, AccessArgumentsArrive, TransferArgumentsArrive,
            GitArgumentsArrive

(* Every argument of a call that is sent arrives, for any modes the schemas *)
(* declare and any keys: each id in the path after its own collection, the *)
(* rest in the body, the mode as the method, and nothing the caller did    *)
(* not give (tools_write.py to write_client.py).  A Git connection given   *)
(* by its id is the exception, as above.                                   *)
THEOREM ArgumentsAllArrive ==
    ASSUME "connection_id" \notin Credentials, Modes \subseteq {"create", "replace", "update"}
    PROVE  Spec => []ArgumentsReachTheRequest
<1>1. WInv => ArgumentsReachTheRequest
  <2> SUFFICES ASSUME WInv, Sent PROVE ArgumentsReachTheRequest
    BY DEF ArgumentsReachTheRequest
  <2>1. ArgumentsArrive(call)
    BY EveryArgumentArrives DEF WInv, Judged
  <2>2. QED  BY <2>1 DEF ArgumentsArrive, ArgumentsReachTheRequest, TargetOf
<1>2. QED  BY <1>1, CallerInductive, PTL
=============================================================================
