----------------------------- MODULE WriteTools -----------------------------
(***************************************************************************)
(* The write tools, from the arguments of a tool call to the request it    *)
(* becomes, and the caller who repeats a call because no answer came:      *)
(*                                                                         *)
(*   schema and handler (tools_write.py)  ->  use case and body checks     *)
(*   (write_use_cases.py, write_schemas.py)  ->  endpoint method           *)
(*   (write_client.py)  ->  _write (client.py)  ->  the API                *)
(*                                                                         *)
(* Each layer is a table.  Only which arguments are given matters, so an   *)
(* argument stands for its own value: <<"project_id", "measure_id">> is    *)
(* the path that carries these two.  One optional field ("formula" for the *)
(* RMD entities) stands for all that a body treats alike.  What one call   *)
(* does on the wire is module ApiClient, what it drops is Invalidation.    *)
(* Left out: a file to import that cannot be read (_file_part).            *)
(***************************************************************************)
EXTENDS Naturals, Sequences, FiniteSets, Tables

CONSTANTS Modes,        \* values of mode a caller may give: "create", ..., "null"
          Keys,         \* idempotency keys a caller may give: "own", "malformed"
          Credentials,  \* ways to name Git credentials: "authentication", "connection_id"
          MaxTries      \* bound: how often a caller repeats a call

ASSUME TriesAssumption == MaxTries \in Nat

VARIABLES call,        \* the call that is made, and repeated
          tries,       \* how often it has been made
          effects,     \* how often the API has carried it out
          remembered,  \* the keys the API remembers for it
          last         \* what the last try came to

vars == <<call, tries, effects, remembered, last>>

-----------------------------------------------------------------------------
(* Input schemas: required arguments and optional ones. *)
Schema(required, optional) == [required |-> required, optional |-> optional]
PV == {"project_id", "version_id"}
Key == {"idempotency_key"}

ProjectSchemas ==
  [df_create_project |-> Schema({"name"}, {"description", "color"} \cup Key),
   df_update_project |-> Schema({"project_id"}, {"name", "description", "color"}),
   df_delete_project |-> Schema({"project_id"}, {}),
   df_create_version |->
     Schema({"project_id", "name"}, {"is_global", "clone_from_version"} \cup Key),
   df_update_version |-> Schema(PV, {"name", "is_global"}),
   df_delete_version |-> Schema(PV, {})]

RmdWriteTool(id, fields) == Schema(PV, {"mode", id, "id", "formula"} \cup fields \cup Key)

RmdSchemas ==
  [df_write_measure |-> RmdWriteTool("measure_id", {"measure_name", "measure_type"}),
   df_write_dimension |-> RmdWriteTool("dimension_id", {"dimension_name", "dimension_type"}),
   df_write_fact |-> RmdWriteTool("fact_id", {"fact_name", "fact_type"}),
   df_delete_measure |-> Schema(PV \cup {"measure_id"}, {}),
   df_delete_dimension |-> Schema(PV \cup {"dimension_id"}, {}),
   df_delete_fact |-> Schema(PV \cup {"fact_id"}, {}),
   df_bulk_write_measures |-> Schema(PV \cup {"measures"}, Key),
   df_bulk_write_dimensions |-> Schema(PV \cup {"dimensions"}, Key),
   df_bulk_write_facts |-> Schema(PV \cup {"facts"}, Key)]

GroupSchemas ==
  [df_write_dimension_group |->
     Schema(PV, {"mode", "dimension_group_id", "name", "primary_key", "description",
                 "dimensions"} \cup Key),
   df_delete_dimension_group |-> Schema(PV \cup {"dimension_group_id"}, {}),
   df_set_group_dimensions |-> Schema(PV \cup {"dimension_group_id", "dimensions"}, Key),
   df_remove_group_dimension |-> Schema(PV \cup {"dimension_group_id", "dimension_id"}, {})]

FactTableSchemas ==
  [df_write_fact_table |->
     Schema(PV, {"mode", "fact_table_id", "name", "description"} \cup Key),
   df_delete_fact_table |-> Schema(PV \cup {"fact_table_id"}, {}),
   df_assign_to_fact_table |->
     Schema(PV \cup {"fact_table_id", "element_type", "element_ids"}, Key),
   df_unassign_from_fact_table |->
     Schema(PV \cup {"fact_table_id", "element_type", "element_id"}, {})]

FilterSchemas ==
  [df_write_verification_filter |->
     Schema(PV, {"mode", "filter_id", "fact_table_id", "name", "description", "conditions"}
                  \cup Key),
   df_delete_verification_filter |-> Schema(PV \cup {"filter_id"}, {"fact_table_id"})]

RelationshipFields ==
  {"source_fact_table_id", "target_dimension_group_id", "foreign_key", "primary_key",
   "relationship_type"}

RelationshipSchemas ==
  [df_write_relationship |-> Schema(PV, {"mode", "relationship_id"} \cup RelationshipFields \cup Key),
   df_delete_relationship |-> Schema(PV \cup {"relationship_id"}, {})]

AccessSchemas ==
  [df_set_project_access |-> Schema({"project_id", "user_id", "access_level"}, Key),
   df_revoke_project_access |-> Schema({"project_id", "user_id"}, {}),
   df_transfer_project_ownership |-> Schema({"project_id", "new_owner_id"}, {})]

GitSource == {"repository_url", "branch"}

TransferSchemas ==
  [df_export_version_to_git |->
     Schema(PV \cup GitSource \cup {"commit_message"},
            {"path", "connection_id", "authentication", "options"} \cup Key),
   df_export_version_to_file |-> Schema(PV, {"options"}),
   df_check_import_source |->
     Schema(PV, GitSource \cup {"source_type", "connection_id", "authentication", "file_path"}),
   df_preview_import |->
     Schema(PV, GitSource \cup {"source_type", "connection_id", "authentication", "file_path",
                                "conflict_strategy", "options"}),
   df_import_version_from_git |->
     Schema(PV \cup GitSource \cup {"target"},
            {"path", "connection_id", "authentication", "conflict_strategy", "options"} \cup Key),
   df_import_version_from_file |->
     Schema(PV \cup {"file_path", "target_version_name"},
            {"target_method", "conflict_strategy", "encryption_password", "options"} \cup Key)]

GitSchemas ==
  [df_create_git_connection |->
     Schema({"name", "platform", "authentication"} \cup GitSource, {"path", "settings"} \cup Key),
   df_update_git_connection |->
     Schema({"connection_id"}, {"name", "platform", "authentication", "path", "settings"}
                                 \cup GitSource),
   df_delete_git_connection |-> Schema({"connection_id"}, {}),
   df_test_git_connection |-> Schema({"connection_id"}, {})]

Schemas ==
  Joined({ProjectSchemas, RmdSchemas, GroupSchemas, FactTableSchemas, FilterSchemas,
          RelationshipSchemas, AccessSchemas, TransferSchemas, GitSchemas})
Tools == DOMAIN Schemas

-----------------------------------------------------------------------------
(* WRITE_HANDLERS: the arguments handed on by name, and whether the rest   *)
(* goes along as fields of the body (_entity_fields, less what it drops).  *)
ControlKeys ==
  {"project_id", "version_id", "mode", "idempotency_key", "measure_id", "dimension_id",
   "fact_id", "dimension_group_id", "fact_table_id", "relationship_id", "filter_id",
   "connection_id", "language"}

Named(names) == [names |-> names, fields |-> FALSE]
WithFields(names) == [names |-> names, fields |-> TRUE]
Modal(id) == WithFields(PV \cup {"mode", id} \cup Key)

ProjectHandlers ==
  [df_create_project |-> WithFields(Key),
   df_update_project |-> WithFields({"project_id"}),
   df_delete_project |-> Named({"project_id"}),
   df_create_version |-> WithFields({"project_id"} \cup Key),
   df_update_version |-> WithFields(PV),
   df_delete_version |-> Named(PV)]

RmdHandlers ==
  [df_write_measure |-> Modal("measure_id"),
   df_write_dimension |-> Modal("dimension_id"),
   df_write_fact |-> Modal("fact_id"),
   df_delete_measure |-> Named(PV \cup {"measure_id"}),
   df_delete_dimension |-> Named(PV \cup {"dimension_id"}),
   df_delete_fact |-> Named(PV \cup {"fact_id"}),
   df_bulk_write_measures |-> Named(PV \cup {"measures"} \cup Key),
   df_bulk_write_dimensions |-> Named(PV \cup {"dimensions"} \cup Key),
   df_bulk_write_facts |-> Named(PV \cup {"facts"} \cup Key)]

ModelHandlers ==
  [df_write_dimension_group |-> Modal("dimension_group_id"),
   df_delete_dimension_group |-> Named(PV \cup {"dimension_group_id"}),
   df_set_group_dimensions |-> Named(PV \cup {"dimension_group_id", "dimensions"} \cup Key),
   df_remove_group_dimension |-> Named(PV \cup {"dimension_group_id", "dimension_id"}),
   df_write_fact_table |-> Modal("fact_table_id"),
   df_delete_fact_table |-> Named(PV \cup {"fact_table_id"}),
   df_assign_to_fact_table |->
     Named(PV \cup {"fact_table_id", "element_type", "element_ids"} \cup Key),
   df_unassign_from_fact_table |->
     Named(PV \cup {"fact_table_id", "element_type", "element_id"}),
   df_write_verification_filter |->
     WithFields(PV \cup {"mode", "filter_id", "fact_table_id"} \cup Key),
   df_delete_verification_filter |-> Named(PV \cup {"filter_id", "fact_table_id"}),
   df_write_relationship |-> Modal("relationship_id"),
   df_delete_relationship |-> Named(PV \cup {"relationship_id"})]

TransferHandlers ==
  [df_set_project_access |-> Named({"project_id", "user_id", "access_level"} \cup Key),
   df_revoke_project_access |-> Named({"project_id", "user_id"}),
   df_transfer_project_ownership |-> Named({"project_id", "new_owner_id"}),
   df_export_version_to_git |-> WithFields(PV \cup Key),
   df_export_version_to_file |-> WithFields(PV),
   df_check_import_source |-> WithFields(PV \cup {"file_path"}),
   df_preview_import |-> WithFields(PV \cup {"file_path"}),
   df_import_version_from_git |-> WithFields(PV \cup Key),
   df_import_version_from_file |->
     Named(PV \cup {"file_path", "target_version_name", "target_method", "conflict_strategy",
                    "encryption_password", "options"} \cup Key)]

GitHandlers ==
  [df_create_git_connection |-> WithFields(Key),
   df_update_git_connection |-> WithFields({"connection_id"}),
   df_delete_git_connection |-> Named({"connection_id"}),
   df_test_git_connection |-> Named({"connection_id"})]

HandlersKeyless ==    \* mutant: the key of a bulk write is not passed on
  [Joined({ProjectHandlers, RmdHandlers, ModelHandlers, TransferHandlers, GitHandlers})
     EXCEPT !.df_bulk_write_measures = Named(PV \cup {"measures"})]

Handlers ==
  Joined({ProjectHandlers, RmdHandlers, ModelHandlers, TransferHandlers, GitHandlers})

NamedArguments(c) == c.args \cap Handlers[c.tool].names

(* _entity_fields; file_path is the extra control of the two dry runs. *)
EntityFields(c) ==
  IF Handlers[c.tool].fields THEN c.args \ (ControlKeys \cup Handlers[c.tool].names) ELSE {}

-----------------------------------------------------------------------------
(* Bodies (write_schemas.py): the fields a strict body admits, the ones it *)
(* cannot do without, and what REQUIRED_BY_ENTITY adds for create and      *)
(* replace.                                                                *)
Body(required, optional, mandatory) ==
  [required |-> required, optional |-> optional, mandatory |-> mandatory]
Entity(optional, mandatory) == Body({}, optional, mandatory)
NoBody == Body({}, {}, {})

EntityBodies ==
  [ProjectWrite |-> Entity({"id", "name", "description", "color"}, {"name"}),
   VersionWrite |-> Entity({"id", "name", "is_global", "clone_from_version"}, {"name"}),
   MeasureWrite |-> Entity({"id", "measure_name", "measure_type", "formula"},
                           {"measure_name", "measure_type"}),
   DimensionWrite |-> Entity({"id", "dimension_name", "dimension_type", "formula"},
                             {"dimension_name", "dimension_type"}),
   FactWrite |-> Entity({"id", "fact_name", "fact_type", "formula"}, {"fact_name", "fact_type"}),
   DimensionGroupWrite |-> Entity({"id", "name", "description", "primary_key", "dimensions"},
                                  {"name", "primary_key"}),
   FactTableWrite |-> Entity({"id", "name", "description", "owner"}, {"name"}),
   VerificationFilterWrite |-> Entity({"id", "name", "description", "conditions"},
                                      {"name", "conditions"}),
   RelationshipWrite |-> Entity({"id"} \cup RelationshipFields, RelationshipFields)]

OtherBodies ==
  [MeasuresBulk |-> Body({"measures"}, {}, {}),
   DimensionsBulk |-> Body({"dimensions"}, {}, {}),
   FactsBulk |-> Body({"facts"}, {}, {}),
   GroupMembersBody |-> Body({"dimensions"}, {}, {}),
   ProjectAccessWrite |-> Body({"user_id", "access_level"}, {}, {}),
   TransferOwnerBody |-> Body({"new_owner_id"}, {}, {}),
   ElementIds |-> Body({"element_ids"}, {}, {}),
   ExportGitBody |-> Body(GitSource \cup {"commit_message"},
                          {"path", "connection_id", "authentication", "options"}, {}),
   ExportFileBody |-> Body({}, {"options"}, {}),
   ImportSourceBody |->
     Body({}, GitSource \cup {"source_type", "path", "commit_hash", "connection_id",
                              "authentication", "encryption_password", "conflict_strategy",
                              "options"}, {}),
   ImportGitBody |->
     Body(GitSource \cup {"target"},
          {"path", "commit_hash", "connection_id", "authentication", "conflict_strategy",
           "options"}, {}),
   ImportForm |->
     Body({"target_version_name"},
          {"target_method", "conflict_strategy", "encryption_password", "options"}, {}),
   GitConnectionWrite |->
     Entity({"name", "platform", "path", "authentication", "settings"} \cup GitSource,
            {"name", "platform", "authentication"} \cup GitSource),
   None |-> NoBody]

BodiesStrict ==    \* mutant: MeasureWrite does not declare one of its fields
  [Joined({EntityBodies, OtherBodies}) EXCEPT !.MeasureWrite.optional = @ \ {"formula"}]

Bodies == Joined({EntityBodies, OtherBodies})
NeedCredentials == {"ExportGitBody", "ImportGitBody"}

-----------------------------------------------------------------------------
(* Use cases: the body a tool parses, the mode its checks take ("given":   *)
(* the caller's; "any": nothing depends on it), the id _check_target_id    *)
(* looks at, the argument that alone becomes the body, if one does, and    *)
(* the client method for each mode.                                        *)
Use(body, mode, target, methods) ==
  [body |-> body, mode |-> mode, target |-> target, methods |-> methods]
Does(body, method) == Use(body, "any", "none", [any |-> method])
Creates(body, method) == Use(body, "create", "none", [create |-> method])
Updates(body, target, method) == Use(body, "update", target, [update |-> method])
ByMode(body, target, create, replace, update) ==
  Use(body, "given", target, [create |-> create, replace |-> replace, update |-> update])

ProjectUseCases ==
  [df_create_project |-> Creates("ProjectWrite", "create_project"),
   df_update_project |-> Updates("ProjectWrite", "project_id", "update_project"),
   df_delete_project |-> Does("None", "delete_project"),
   df_create_version |-> Creates("VersionWrite", "create_version"),
   df_update_version |-> Updates("VersionWrite", "version_id", "update_version"),
   df_delete_version |-> Does("None", "delete_version")]

RmdUseCases ==
  [df_write_measure |->
     ByMode("MeasureWrite", "measure_id", "create_measure", "replace_measure", "update_measure"),
   df_write_dimension |->
     ByMode("DimensionWrite", "dimension_id",
            "create_dimension", "replace_dimension", "update_dimension"),
   df_write_fact |-> ByMode("FactWrite", "fact_id", "create_fact", "replace_fact", "update_fact"),
   df_delete_measure |-> Does("None", "delete_measure"),
   df_delete_dimension |-> Does("None", "delete_dimension"),
   df_delete_fact |-> Does("None", "delete_fact"),
   df_bulk_write_measures |-> Does("MeasuresBulk", "bulk_write_measures"),
   df_bulk_write_dimensions |-> Does("DimensionsBulk", "bulk_write_dimensions"),
   df_bulk_write_facts |-> Does("FactsBulk", "bulk_write_facts")]

GroupUseCases ==
  [df_write_dimension_group |->
     ByMode("DimensionGroupWrite", "dimension_group_id",
            "create_dimension_group", "replace_dimension_group", "update_dimension_group"),
   df_delete_dimension_group |-> Does("None", "delete_dimension_group"),
   df_set_group_dimensions |-> Does("GroupMembersBody", "add_group_dimensions"),
   df_remove_group_dimension |-> Does("None", "remove_group_dimension")]

FactTableUseCases ==
  [df_write_fact_table |->
     ByMode("FactTableWrite", "fact_table_id",
            "create_fact_table", "replace_fact_table", "update_fact_table"),
   df_delete_fact_table |-> Does("None", "delete_fact_table"),
   df_assign_to_fact_table |-> Does("ElementIds", "assign_to_fact_table"),
   df_unassign_from_fact_table |-> Does("None", "unassign_from_fact_table")]

FilterUseCases ==
  [df_write_verification_filter |->
     ByMode("VerificationFilterWrite", "filter_id", "create_verification_filter",
            "replace_verification_filter", "update_verification_filter"),
   df_delete_verification_filter |-> Does("None", "delete_verification_filter")]

RelationshipUseCases ==
  [df_write_relationship |->
     ByMode("RelationshipWrite", "relationship_id",
            "create_relationship", "replace_relationship", "update_relationship"),
   df_delete_relationship |-> Does("None", "delete_relationship")]

AccessUseCases ==
  [df_set_project_access |-> Does("ProjectAccessWrite", "set_project_access"),
   df_revoke_project_access |-> Does("None", "revoke_project_access"),
   df_transfer_project_ownership |-> Does("TransferOwnerBody", "transfer_project_ownership")]

TransferUseCases ==
  [df_export_version_to_git |-> Does("ExportGitBody", "export_version_to_git"),
   df_export_version_to_file |-> Does("ExportFileBody", "export_version_to_file"),
   df_check_import_source |-> Does("ImportSourceBody", "validate_import_source"),
   df_preview_import |-> Does("ImportSourceBody", "preview_import"),
   df_import_version_from_git |-> Does("ImportGitBody", "import_version_from_git"),
   df_import_version_from_file |-> Does("ImportForm", "import_version_from_file")]

GitUseCases ==
  [df_create_git_connection |-> Creates("GitConnectionWrite", "create_git_connection"),
   df_update_git_connection |-> Does("GitConnectionWrite", "update_git_connection"),
   df_delete_git_connection |-> Does("None", "delete_git_connection"),
   df_test_git_connection |-> Does("None", "test_git_connection")]

UseCases ==
  Joined({ProjectUseCases, RmdUseCases, GroupUseCases, FactTableUseCases, FilterUseCases,
          RelationshipUseCases, AccessUseCases, TransferUseCases, GitUseCases})

(* a.get("mode", "create"), and the method: whatever is neither "create"   *)
(* nor "replace" is taken for "update".                                    *)
ModeOf(c) ==
  LET use == UseCases[c.tool].mode IN
  IF use # "given" THEN use ELSE IF "mode" \in c.args THEN c.mode ELSE "create"

MethodOf(c) ==
  LET methods == UseCases[c.tool].methods IN
  IF ModeOf(c) \in DOMAIN methods THEN methods[ModeOf(c)] ELSE methods["update"]

-----------------------------------------------------------------------------
(* Endpoint methods: the HTTP method, the path, and whether the key of the *)
(* call is handed on.  A path mixes literals with arguments.               *)
Write(method, path, keyed) == [method |-> method, path |-> path, keyed |-> keyed]
Post(path) == Write("POST", path, TRUE)
PostKeyless(path) == Write("POST", path, FALSE)
Put(path) == Write("PUT", path, FALSE)
Patch(path) == Write("PATCH", path, FALSE)
Delete(path) == Write("DELETE", path, FALSE)

Project == <<"projects", "project_id">>
Version == Project \o <<"versions", "version_id">>
Measures == Version \o <<"measures">>
Dimensions == Version \o <<"dimensions">>
Facts == Version \o <<"facts">>
Groups == Version \o <<"dimension-groups">>
Group == Groups \o <<"dimension_group_id">>
FactTables == Version \o <<"fact-tables">>
FactTable == FactTables \o <<"fact_table_id">>
Relationships == Version \o <<"relationships">>
GitConnection == <<"git-connections", "connection_id">>

ProjectEndpoints ==
  [create_project |-> Post(<<"projects">>),
   update_project |-> Patch(Project),
   delete_project |-> Delete(Project),
   create_version |-> Post(Project \o <<"versions">>),
   update_version |-> Patch(Version),
   delete_version |-> Delete(Version)]

MeasureEndpoints ==
  [create_measure |-> Post(Measures),
   replace_measure |-> Put(Measures \o <<"measure_id">>),
   update_measure |-> Patch(Measures \o <<"measure_id">>),
   delete_measure |-> Delete(Measures \o <<"measure_id">>),
   bulk_write_measures |-> Post(Measures \o <<"bulk">>)]

DimensionEndpoints ==
  [create_dimension |-> Post(Dimensions),
   replace_dimension |-> Put(Dimensions \o <<"dimension_id">>),
   update_dimension |-> Patch(Dimensions \o <<"dimension_id">>),
   delete_dimension |-> Delete(Dimensions \o <<"dimension_id">>),
   bulk_write_dimensions |-> Post(Dimensions \o <<"bulk">>)]

FactEndpoints ==
  [create_fact |-> Post(Facts),
   replace_fact |-> Put(Facts \o <<"fact_id">>),
   update_fact |-> Patch(Facts \o <<"fact_id">>),
   delete_fact |-> Delete(Facts \o <<"fact_id">>),
   bulk_write_facts |-> Post(Facts \o <<"bulk">>)]

GroupEndpoints ==
  [create_dimension_group |-> Post(Groups),
   replace_dimension_group |-> Put(Group),
   update_dimension_group |-> Patch(Group),
   delete_dimension_group |-> Delete(Group),
   add_group_dimensions |-> Post(Group \o <<"dimensions">>),
   remove_group_dimension |-> Delete(Group \o <<"dimensions", "dimension_id">>)]

FactTableEndpoints ==
  [create_fact_table |-> Post(FactTables),
   replace_fact_table |-> Put(FactTable),
   update_fact_table |-> Patch(FactTable),
   delete_fact_table |-> Delete(FactTable),
   assign_to_fact_table |-> Post(FactTable \o <<"element_type">>),
   unassign_from_fact_table |-> Delete(FactTable \o <<"element_type", "element_id">>)]

RelationshipEndpoints ==
  [create_relationship |-> Post(Relationships),
   replace_relationship |-> Put(Relationships \o <<"relationship_id">>),
   update_relationship |-> Patch(Relationships \o <<"relationship_id">>),
   delete_relationship |-> Delete(Relationships \o <<"relationship_id">>)]

AccessEndpoints ==
  [set_project_access |-> Post(Project \o <<"access">>),
   revoke_project_access |-> Delete(Project \o <<"access", "user_id">>),
   transfer_project_ownership |-> Put(Project \o <<"owner">>)]

TransferEndpoints ==
  [export_version_to_git |-> Post(Version \o <<"export", "git">>),
   export_version_to_file |-> PostKeyless(Version \o <<"export", "file">>),
   validate_import_source |-> PostKeyless(Version \o <<"import", "validate">>),
   preview_import |-> PostKeyless(Version \o <<"import", "preview">>),
   import_version_from_git |-> Post(Version \o <<"import", "git">>),
   import_version_from_file |-> Post(Version \o <<"import", "file">>)]

GitEndpoints ==
  [create_git_connection |-> Post(<<"git-connections">>),
   update_git_connection |-> Put(GitConnection),
   delete_git_connection |-> Delete(GitConnection),
   test_git_connection |-> PostKeyless(GitConnection \o <<"test">>)]

(* _verification_filter_path: a filter of a fact table, or of the version. *)
FilterPath(c) ==
  (IF "fact_table_id" \in c.args THEN FactTable ELSE Version) \o <<"verification-filters">>
OneFilterPath(c) ==
  IF "filter_id" \in c.args THEN FilterPath(c) \o <<"filter_id">> ELSE FilterPath(c)

FilterEndpoints(c) ==
  [create_verification_filter |-> Post(FilterPath(c)),
   replace_verification_filter |-> Put(OneFilterPath(c)),
   update_verification_filter |-> Patch(OneFilterPath(c)),
   delete_verification_filter |-> Delete(OneFilterPath(c))]

EndpointsSwapped(c) ==    \* mutant: a fact is created among the dimensions
  [Joined({ProjectEndpoints, MeasureEndpoints, DimensionEndpoints, FactEndpoints,
           GroupEndpoints, FactTableEndpoints, RelationshipEndpoints, AccessEndpoints,
           TransferEndpoints, GitEndpoints, FilterEndpoints(c)})
     EXCEPT !.create_fact = Post(Dimensions)]

Endpoints(c) ==
  Joined({ProjectEndpoints, MeasureEndpoints, DimensionEndpoints, FactEndpoints,
          GroupEndpoints, FactTableEndpoints, RelationshipEndpoints, AccessEndpoints,
          TransferEndpoints, GitEndpoints, FilterEndpoints(c)})

Endpoint(c) == Endpoints(c)[MethodOf(c)]

(* accepts_idempotency_key: not where the key would be ignored. *)
AcceptsKey(path) ==
  /\ ~ \E i \in 1..Len(path) - 1 :
         <<path[i], path[i + 1]>> \in {<<"export", "file">>, <<"import", "validate">>,
                                       <<"import", "preview">>}
  /\ "test" \notin {path[i] : i \in DOMAIN path}

SendsKey(c) == Endpoint(c).keyed /\ AcceptsKey(Endpoint(c).path)
KeyOf(c) == IF "idempotency_key" \in NamedArguments(c) THEN c.key ELSE "generated"

-----------------------------------------------------------------------------
(* The checks before anything is sent: the schema, the strict body, the    *)
(* credentials of a Git transfer, require_for_mode, _check_target_id and,  *)
(* for a key that is sent, _validate_idempotency_key.                      *)
Known(c) == c.args \subseteq Schemas[c.tool].required \cup Schemas[c.tool].optional
Admitted(c) == LET b == Bodies[UseCases[c.tool].body] IN b.required \cup b.optional
Fields(c) == EntityFields(c) \cup (NamedArguments(c) \cap Admitted(c))

BadBody(c) ==
  LET body == UseCases[c.tool].body IN
  \/ ~ Fields(c) \subseteq Admitted(c)
  \/ ~ Bodies[body].required \subseteq Fields(c)
  \/ body \in NeedCredentials /\ Fields(c) \cap {"connection_id", "authentication"} = {}

LacksFieldsOnCreate(c) ==    \* mutant: replace asks for nothing either
  /\ ModeOf(c) = "create"
  /\ ~ Bodies[UseCases[c.tool].body].mandatory \subseteq Fields(c)

LacksFields(c) ==
  /\ ModeOf(c) \notin {"any", "update"}
  /\ ~ Bodies[UseCases[c.tool].body].mandatory \subseteq Fields(c)

BadTarget(c) ==
  LET target == UseCases[c.tool].target IN
  \/ ModeOf(c) \in {"replace", "update"} /\ target \notin c.args
  \/ "id" \in Fields(c) /\ target \in c.args /\ ~ c.idMatches

Refused(c) ==
  ~ Known(c) \/ BadBody(c) \/ LacksFields(c) \/ BadTarget(c) \/ (SendsKey(c) /\ KeyOf(c) = "malformed")

(* What is sent; an id that is None is printed as such.  The form of a     *)
(* file import always names its target method.                             *)
Content(c) ==
  Fields(c) \cup (NamedArguments(c) \cap {"file_path"})
    \cup (IF UseCases[c.tool].body = "ImportForm" THEN {"target_method"} ELSE {})

PathArguments == ControlKeys \cup {"user_id", "element_type", "element_id"}
Printed(c, segment) == IF segment \in PathArguments \ c.args THEN "None" ELSE segment

Request(c) ==
  LET e == Endpoint(c) IN
  [method |-> e.method,
   path |-> [i \in DOMAIN e.path |-> Printed(c, e.path[i])],
   content |-> Content(c),
   key |-> IF SendsKey(c) THEN KeyOf(c) ELSE "none"]

-----------------------------------------------------------------------------
(* What the documentation asks of a call and promises for it               *)
(* (docs/api/tools-write.md).                                              *)
Subjects ==    \* the word a path ends with, and the tools it is for
  {<<"projects", {"df_create_project", "df_update_project", "df_delete_project"}>>,
   <<"versions", {"df_create_version", "df_update_version", "df_delete_version"}>>,
   <<"measures", {"df_write_measure", "df_delete_measure", "df_bulk_write_measures"}>>,
   <<"dimensions", {"df_write_dimension", "df_delete_dimension", "df_bulk_write_dimensions",
                    "df_set_group_dimensions", "df_remove_group_dimension"}>>,
   <<"facts", {"df_write_fact", "df_delete_fact", "df_bulk_write_facts"}>>,
   <<"dimension-groups", {"df_write_dimension_group", "df_delete_dimension_group"}>>,
   <<"fact-tables", {"df_write_fact_table", "df_delete_fact_table"}>>,
   <<"verification-filters",
     {"df_write_verification_filter", "df_delete_verification_filter"}>>,
   <<"relationships", {"df_write_relationship", "df_delete_relationship"}>>,
   <<"access", {"df_set_project_access", "df_revoke_project_access"}>>,
   <<"owner", {"df_transfer_project_ownership"}>>,
   <<"git", {"df_export_version_to_git", "df_import_version_from_git"}>>,
   <<"file", {"df_export_version_to_file", "df_import_version_from_file"}>>,
   <<"validate", {"df_check_import_source"}>>, <<"preview", {"df_preview_import"}>>,
   <<"git-connections",
     {"df_create_git_connection", "df_update_git_connection", "df_delete_git_connection"}>>}

Under ==    \* the collection an id belongs to
  [project_id |-> "projects", version_id |-> "versions", measure_id |-> "measures",
   dimension_id |-> "dimensions", fact_id |-> "facts",
   dimension_group_id |-> "dimension-groups", fact_table_id |-> "fact-tables",
   filter_id |-> "verification-filters", relationship_id |-> "relationships",
   connection_id |-> "git-connections", user_id |-> "access", element_id |-> "element_type",
   element_type |-> "fact_table_id"]

TargetIds ==
  [df_write_measure |-> "measure_id", df_write_dimension |-> "dimension_id",
   df_write_fact |-> "fact_id", df_write_dimension_group |-> "dimension_group_id",
   df_write_fact_table |-> "fact_table_id", df_write_verification_filter |-> "filter_id",
   df_write_relationship |-> "relationship_id"]

MandatoryFields ==
  [df_write_measure |-> {"measure_name", "measure_type"},
   df_write_dimension |-> {"dimension_name", "dimension_type"},
   df_write_fact |-> {"fact_name", "fact_type"},
   df_write_dimension_group |-> {"name", "primary_key"},
   df_write_fact_table |-> {"name"},
   df_write_verification_filter |-> {"name", "conditions"},
   df_write_relationship |-> RelationshipFields]

Methods == [create |-> "POST", replace |-> "PUT", update |-> "PATCH"]
IgnoreTheKey ==
  {"df_export_version_to_file", "df_check_import_source", "df_preview_import",
   "df_test_git_connection"}
Credential == {"authentication", "connection_id"}

Mode(c) == IF "mode" \in c.args THEN c.mode ELSE "create"
Complete(c) ==
  /\ c.tool \in DOMAIN TargetIds =>
       /\ Mode(c) # "update" => MandatoryFields[c.tool] \subseteq c.args
       /\ Mode(c) # "create" => TargetIds[c.tool] \in c.args
       /\ {"id", TargetIds[c.tool]} \subseteq c.args => c.idMatches
  /\ c.tool \in {"df_export_version_to_git", "df_import_version_from_git"} =>
       Credential \cap c.args # {}

-----------------------------------------------------------------------------
(* The calls: every subset of the optional arguments. *)
Given(t) ==
  {Schemas[t].required \cup S :
     S \in SUBSET (Schemas[t].optional \ (Credential \ Credentials))}

CallsWith(t, g) ==
  [tool : {t}, args : {g},
   mode : IF "mode" \in g THEN Modes ELSE {"create"},
   key : IF "idempotency_key" \in g THEN Keys ELSE {"generated"},
   idMatches : IF "id" \in g THEN BOOLEAN ELSE {TRUE}]

Calls == UNION {UNION {CallsWith(t, g) : g \in Given(t)} : t \in Tools}

Init ==
  /\ call \in Calls
  /\ tries = 0 /\ effects = 0 /\ remembered = {} /\ last = "none"

Try(outcomes) == tries < MaxTries /\ tries' = tries + 1 /\ last' \in outcomes /\ UNCHANGED call

(* The call is rejected before anything is sent. *)
Reject == Refused(call) /\ Try({"refused"}) /\ UNCHANGED <<effects, remembered>>

(* A generated key is a new one every time, so the API cannot know it. *)
Remembers == SendsKey(call) /\ KeyOf(call) \in remembered

CarryOutTwice ==    \* mutant: a lost answer makes the client send the request again
  /\ ~ Refused(call) /\ ~ Remembers
  /\ Try({"answered", "no answer"})
  /\ effects' \in {effects + 1, effects + 2}
  /\ remembered' = remembered \cup (IF SendsKey(call) THEN {KeyOf(call)} \cap Keys ELSE {})

(* _write_op: the API carries the request out; the answer may be lost. *)
CarryOut ==
  /\ ~ Refused(call) /\ ~ Remembers
  /\ Try({"answered", "no answer"})
  /\ effects' = effects + 1
  /\ remembered' = remembered \cup (IF SendsKey(call) THEN {KeyOf(call)} \cap Keys ELSE {})

(* The API knows the key and repeats its answer. *)
Replay ==
  /\ ~ Refused(call) /\ Remembers
  /\ Try({"answered", "no answer"})
  /\ UNCHANGED <<effects, remembered>>

(* The request is lost, or the API turns it down. *)
Fail == ~ Refused(call) /\ Try({"no answer"}) /\ UNCHANGED <<effects, remembered>>

Next == Reject \/ CarryOut \/ Replay \/ Fail

Spec == Init /\ [][Next]_vars

-----------------------------------------------------------------------------
Sent == last \in {"answered", "no answer"}
Ids(path) == {path[i] : i \in DOMAIN path} \cap PathArguments

(* Types, and: one try is carried out at most once. *)
TypeOK ==
  /\ call \in [tool : Tools, args : SUBSET UNION {UNION Given(t) : t \in Tools},
               mode : Modes \cup {"create"}, key : Keys \cup {"generated"},
               idMatches : BOOLEAN]
  /\ tries \in 0..MaxTries /\ effects \in 0..tries
  /\ remembered \subseteq Keys
  /\ last \in {"none", "refused", "answered", "no answer"}

(* Every argument of a call that is sent arrives: the ids in the path,     *)
(* each after its own collection, the rest in the body, and the mode as    *)
(* the method; the path ends at the tool's subject.  Only the target id is *)
(* without use, in a create.                                               *)
ArgumentsReachTheRequest ==
  Sent =>
    LET r == Request(call)
        path == r.path
        target == IF call.tool \in DOMAIN TargetIds THEN TargetIds[call.tool] ELSE "none"
    IN /\ call.args \ {"mode", "idempotency_key"} \subseteq
            Ids(path) \cup r.content \cup (IF Mode(call) = "create" THEN {target} ELSE {})
       /\ r.content \subseteq call.args \cup {"target_method"}
       /\ \A i \in DOMAIN path : path[i] \in Ids(path) => path[i - 1] = Under[path[i]]
       /\ \A s \in Subjects : call.tool \in s[2] =>
            \E i \in DOMAIN path : path[i] = s[1] /\ \A j \in i + 1..Len(path) :
                                       path[j] \in PathArguments \cup {"bulk"}
       /\ call.tool \in DOMAIN TargetIds => r.method = Methods[Mode(call)]

(* A call that gives what its mode asks for is not rejected on the way. *)
CompleteCallsAreSent ==
  last = "refused" => ~ Complete(call) \/ call.key = "malformed"

(* A call that lacks a field or an id it needs, or names two entities at   *)
(* once, costs no request.                                                 *)
IncompleteCallsAreRefused == Sent => Complete(call)

(* A POST that the caller repeats with a key of its own is carried out at  *)
(* most once, whichever answers were lost (tools-write.md:36, :41); the    *)
(* four tools that ignore the key create nothing.                          *)
RepeatIsHarmless ==
  call.key = "own" /\ Request(call).method = "POST" /\ call.tool \notin IgnoreTheKey =>
    effects <= 1
=============================================================================
