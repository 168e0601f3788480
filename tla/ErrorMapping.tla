---------------------------- MODULE ErrorMapping ----------------------------
(***************************************************************************)
(* errors.py: how an error of the API becomes the code an agent sees.      *)
(* The API names its errors in a lower-case code (v2), in a DF_API.<KEY>   *)
(* or a guard key under originalMessage or error, or in the text alone.    *)
(* Here a DF_API key has the name of its v2 code, and DATAFORGE_<CODE> is  *)
(* written in lower case.                                                  *)
(***************************************************************************)
EXTENDS Naturals, Sequences, SequencesExt

None == "none"

V2Codes == <<
    "invalid_api_key", "account_locked", "ip_not_allowed", "license_invalid",
    "license_limit_reached", "write_access_denied", "invalid_parameter",
    "page_size_exceeded", "validation_failed", "missing_required_field",
    "invalid_enum_value", "id_mismatch", "invalid_relationship_type",
    "invalid_type", "invalid_merge_type", "invalid_db_type", "invalid_status",
    "invalid_format", "invalid_idempotency_key", "invalid_source_connection",
    "invalid_source_db", "invalid_source_schema", "invalid_source_table",
    "invalid_source_column", "connection_mismatch", "project_not_found",
    "version_not_found", "resource_not_found", "data_mart_not_found",
    "connection_not_found", "dimension_group_not_found", "fact_table_not_found",
    "relationship_not_found", "duplicate_name", "duplicate_relationship",
    "duplicate_level", "constraint_violation", "idempotency_in_progress",
    "invalid_formula_syntax", "formula_reference_not_found",
    "circular_dependency", "global_version_conflict", "invalid_parameter_type",
    "bulk_rejected", "sql_generation_failed", "git_connection_failed",
    "git_push_failed", "unprocessable_entity", "rate_limit_exceeded",
    "internal_error" >>

Renamed(code) ==
    CASE code = "invalid_api_key" -> "api_key_invalid"
      [] code = "ip_not_allowed" -> "ip_blocked"
      [] code \in {"data_mart_not_found", "connection_not_found",
                   "dimension_group_not_found", "fact_table_not_found",
                   "relationship_not_found"} -> "resource_not_found"
      [] OTHER -> code

V2CodeMap == [code \in Range(V2Codes) |-> Renamed(code)]
DfApiKeyMap == V2CodeMap

GuardKeys == << "KEY_MISSING", "INVALID_KEY", "INVALID_ENCRYPTED_API_KEY",
                "AUTH_FAILED", "ACCOUNT_LOCKED", "IP_BLOCKED",
                "NOT_AVAILABLE_WITHOUT_VALID_LICENSE", "Unauthorized" >>

ErrorCodeMap == [key \in Range(GuardKeys) |->
    CASE key = "KEY_MISSING" -> "api_key_missing"
      [] key = "INVALID_KEY" -> "api_key_invalid"
      [] key = "INVALID_ENCRYPTED_API_KEY" -> "invalid_parameter"
      [] key = "AUTH_FAILED" -> "auth_failed"
      [] key = "ACCOUNT_LOCKED" -> "account_locked"
      [] key = "IP_BLOCKED" -> "ip_blocked"
      [] key = "NOT_AVAILABLE_WITHOUT_VALID_LICENSE" -> "license_invalid"
      [] key = "Unauthorized" -> "unauthorized"]

StatusFallback(status) ==
    CASE status = 400 -> "invalid_parameter"
      [] status = 401 -> "unauthorized"
      [] status = 403 -> "write_access_denied"
      [] status = 404 -> "resource_not_found"
      [] status = 409 -> "constraint_violation"
      [] status = 422 -> "unprocessable_entity"
      [] status = 429 -> "rate_limit_exceeded"
      [] OTHER -> "server_error"

-----------------------------------------------------------------------------
(* The names an error can have, the unknown one included, and the keys the *)
(* text of a body holds when it names one: a DF_API key may begin another. *)
Errors == Range(V2Codes) \cup Range(GuardKeys) \cup {"unknown"}
KeysIn(error) ==
    CASE error = "unknown" -> {}
      [] error = "invalid_parameter_type" -> {error, "invalid_parameter"}
      [] OTHER -> {error}

(* The bodies that name an error: under code, originalMessage or error, or *)
(* as text that is no envelope at all.  An envelope may name fields too,   *)
(* in its details.                                                         *)
Generations == {"code", "originalMessage", "error", "text"}
Envelope(error, generation, status, details) ==
    [code |-> IF generation = "code" THEN error ELSE None,
     originalMessage |-> IF generation \in {"code", "originalMessage"} THEN error ELSE None,
     error |-> IF generation = "error" THEN error ELSE None,
     body |-> KeysIn(error),
     status |-> status,
     details |-> IF generation = "text" THEN {} ELSE details]

(* Guard keys have no v2 code.                                             *)
Sends(error) == IF error \in Range(GuardKeys) THEN Generations \ {"code"} ELSE Generations

-----------------------------------------------------------------------------
ByKey(key) == IF key \in DOMAIN ErrorCodeMap THEN ErrorCodeMap[key] ELSE DfApiKeyMap[key]
IsKeyOfGuard(key) == key \in DOMAIN ErrorCodeMap     \* mutant: DF_API keys are forgotten
IsKey(key) == key \in DOMAIN ErrorCodeMap \cup DOMAIN DfApiKeyMap

(* The last resort looks through the body for the keys, in their order.    *)
ScanOrder == GuardKeys \o V2Codes
FoundIn(body) == ScanOrder[SelectInSeq(ScanOrder, LAMBDA key : key \in body)]

ResolveCode(e) ==
    IF e.code \in DOMAIN V2CodeMap THEN V2CodeMap[e.code]
    ELSE IF IsKey(e.originalMessage) THEN ByKey(e.originalMessage)
    ELSE IF IsKey(e.error) THEN ByKey(e.error)
    ELSE IF e.body # {} THEN ByKey(FoundIn(e.body))
    ELSE StatusFallback(e.status)

Retryable(code, status) ==
    status = 429 \/ status >= 500 \/ code = "idempotency_in_progress"

MapHttpError(e) == [code |-> ResolveCode(e),
                    retryable |-> Retryable(ResolveCode(e), e.status),
                    fields |-> e.details]
=============================================================================
