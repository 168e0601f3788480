------------------------------ MODULE ToolCall ------------------------------
(***************************************************************************)
(* A tool call from its raw arguments to its answer: on_call_tool of       *)
(* mcp/tools.py with the argument checks (Arguments), the paged fetch      *)
(* (Pagination), the cache around it and the error envelope                *)
(* (ErrorMapping).  Three tools stand for the others: df_get_measures,     *)
(* which pages; df_bulk_write_measures, whose body is checked a second     *)
(* time; and df_write_measure, which has a mode and so two checks more.    *)
(* The agent repairs what an error names and calls again.                  *)
(* Left out: the validators that Git bodies run after those of their       *)
(* fields, which name authentication or the body as a whole.               *)
(***************************************************************************)
EXTENDS Pagination, Arguments, ErrorMapping

CONSTANTS Samples,      \* raw arguments of each tool
          Good,         \* an argument the agent puts in place of a bad one
          ApiErrors,    \* the errors the API answers with
          Statuses,     \* its statuses
          Details,      \* and the sets of fields it may name in one
          Misfits,      \* what an unfit answer may be found to violate
          Patience      \* bound of the model: refusals an agent puts up with

VARIABLES phase,      \* where the call is
          call,       \* its tool and arguments
          refusals,   \* refusals of this call since it last got past the checks
          answer,     \* what it was answered last
          stored,     \* the cache entry of the listing
          cause       \* the failure behind the answer

serviceVars == <<phase, call, refusals, answer, stored, cause>>
vars == <<serviceVars, pagingVars>>

-----------------------------------------------------------------------------
(* The schemas, with the arguments the samples use.                        *)
Flag == OneOf({"true", "false"})
MeasureFields == [id |-> Of("string"), measure_name |-> Of("string"),
                  measure_type |-> Of("string"), visibility |-> Flag]
Modes == OneOf({"create", "replace", "update"})

Tools ==
    [df_get_measures |->
        [properties |-> [project_id |-> Of("integer"), version_id |-> Of("integer"),
                         use_cache |-> Of("boolean")],
         required |-> {"project_id", "version_id"}],
     df_bulk_write_measures |->
        [properties |-> [project_id |-> Of("integer"), version_id |-> Of("integer"),
                         measures |-> ArrayOf(ObjectOf(MeasureFields))],
         required |-> {"project_id", "version_id", "measures"}],
     df_write_measure |->
        [properties |-> [project_id |-> Of("integer"), version_id |-> Of("integer"),
                         mode |-> Modes, measure_id |-> Of("integer"),
                         id |-> MeasureFields.id, visibility |-> MeasureFields.visibility,
                         measure_name |-> MeasureFields.measure_name,
                         measure_type |-> MeasureFields.measure_type],
         required |-> {"project_id", "version_id"}]]

(* parse_body(MeasuresBulk, ...): every violation, with its path.          *)
MemberFaults(i, item) ==
    {Fault(<<"measures", i, name>>, "unknown_field") :
        name \in DOMAIN item \ DOMAIN MeasureFields}
    \cup {Fault(<<"measures", i, name>>, "invalid_value") :
        name \in {n \in DOMAIN item \cap DOMAIN MeasureFields :
                    item[n] # Null /\ ~HasType(MeasureFields[n], item[n])}}

BodyFaults(measures) ==
    IF measures = <<>> THEN {Fault(<<"measures">>, "invalid_value")}
    ELSE UNION {IF measures[i][1] = "dict" THEN MemberFaults(i, measures[i][2])
                ELSE {Fault(<<"measures", i>>, "invalid_value")} : i \in DOMAIN measures}

(* The body of df_write_measure parses whenever its arguments were let in: *)
(* their schema is that of its fields.  require_for_mode lists all that is *)
(* missing; an empty text is missing too.                                  *)
Mode(args) == IF "mode" \in DOMAIN args THEN args.mode ELSE StrV("create")
MissingForMode(args) ==
    {Fault(<<name>>, "missing_field") : name \in
        {n \in {"measure_name", "measure_type"} :
            /\ Mode(args) # StrV("update")
            /\ Given(args, n) => args[n] = StrV("")}}

(* _check_target_id: the tool's measure_id is the id of the path.          *)
LacksTarget(args) ==
    /\ Mode(args) \in {StrV("replace"), StrV("update")}
    /\ ~Given(args, "measure_id")
Mismatches(args) ==
    /\ Given(args, "id") /\ Given(args, "measure_id")
    /\ args.id[2] # args.measure_id[2]

(* JSON values as far as these schemas look into them.                     *)
IsFilled(f) == f = [x \in DOMAIN f |-> f[x]]
IsValue(v) == v = <<v[1], v[2]>>
IsItem(v) ==
    /\ IsValue(v)
    /\ v[1] = "dict" => /\ IsFilled(v[2])
                        /\ \A name \in DOMAIN v[2] : IsValue(v[2][name])
IsArgument(v) ==
    /\ IsValue(v)
    /\ v[1] = "list" => IsFilled(v[2]) /\ \A i \in DOMAIN v[2] : IsItem(v[2][i])

ASSUME SampleAssumption ==
    \A sample \in Samples :
        /\ sample.tool \in DOMAIN Tools \cup {"df_unknown"}
        /\ \A name \in DOMAIN sample.args : IsArgument(sample.args[name])

(* The agent can mend whatever is named.                                   *)
ASSUME GoodAssumption ==
    /\ \A name \in DOMAIN Good : IsArgument(Good[name])
    /\ \A tool \in DOMAIN Tools : \A name \in DOMAIN Tools[tool].properties :
          name \in DOMAIN Good /\ Conforms(Tools[tool].properties[name], Good[name])
    /\ 1 \in DOMAIN Good.measures[2] /\ BodyFaults(Good.measures[2]) = {}
    /\ DOMAIN MeasureFields \subseteq DOMAIN Good.measures[2][1][2]
    /\ \A name \in DOMAIN MeasureFields :
          HasType(MeasureFields[name], Good.measures[2][1][2][name])
    /\ Good.measure_name # StrV("") /\ Good.measure_type # StrV("")

ASSUME ErrorAssumption == ApiErrors \subseteq Errors
ASSUME PatienceAssumption == Patience \in Nat

-----------------------------------------------------------------------------
NoCause == [kind |-> None]
NoAnswer == [isError |-> FALSE, code |-> None, retryable |-> FALSE,
             fields |-> {}, source |-> None]
Error(code, retryable, fields) ==
    [NoAnswer EXCEPT !.isError = TRUE, !.code = code,
                     !.retryable = retryable, !.fields = fields]
Result(source) == [NoAnswer EXCEPT !.source = source]

NoCall == [tool |-> None, args |-> <<>>]

Init ==
    /\ phase = "ready" /\ call = NoCall /\ refusals = 0
    /\ answer = NoAnswer /\ stored = None /\ cause = NoCause
    /\ PagingInit

-----------------------------------------------------------------------------
(* The agent makes a call, and after a refusal the same call, repaired.    *)
Ask ==
    /\ phase = "ready"
    /\ \E sample \in Samples : call' = [NoCall EXCEPT !.tool = sample.tool,
                                                     !.args = sample.args]
    /\ phase' = "received"
    /\ UNCHANGED <<refusals, answer, stored, cause, pagingVars>>

RepairedItem(i, item, fields) ==
    IF Fault(<<"measures", i>>, "invalid_value") \in fields
    THEN Good.measures[2][1]
    ELSE IF item[1] # "dict" THEN item
    ELSE DictV([name \in {n \in DOMAIN item[2] :
                            Fault(<<"measures", i, n>>, "unknown_field") \notin fields} |->
                  IF /\ name \in DOMAIN MeasureFields
                     /\ Fault(<<"measures", i, name>>, "invalid_value") \in fields
                  THEN Good.measures[2][1][2][name] ELSE item[2][name]])

RepairedArgument(name, value, fields) ==
    IF name = "measures" /\ value[1] = "list"
    THEN ListV([i \in DOMAIN value[2] |-> RepairedItem(i, value[2][i], fields)])
    ELSE value

(* Two ids that differ are made the same, as the hint of the error says.   *)
Substitute(args, code, name) ==
    IF code = "id_mismatch" /\ name = "id" /\ Given(args, "measure_id")
    THEN StrV(args.measure_id[2]) ELSE Good[name]

Repaired(args, code, fields) ==
    LET bad == {name \in DOMAIN Good :
                  \E fault \in {"missing_field", "invalid_value"} :
                      Fault(<<name>>, fault) \in fields}
        unknown == {name \in DOMAIN args : Fault(<<name>>, "unknown_field") \in fields}
    IN  [name \in (DOMAIN args \ unknown) \cup bad |->
            IF name \in bad THEN Substitute(args, code, name)
            ELSE RepairedArgument(name, args[name], fields)]

(* It looks at the fields, not at who named them: a check, the API, or the *)
(* schema of an answer.                                                    *)
Repair ==
    /\ phase = "answered" /\ answer.fields # {} /\ refusals < Patience
    /\ call' = [call EXCEPT !.args = Repaired(call.args, answer.code, answer.fields)]
    /\ phase' = "received" /\ answer' = NoAnswer /\ cause' = NoCause
    /\ UNCHANGED <<refusals, stored>>
    /\ EndPaging

(* Another call, some time later: the entry may have outlived its TTL.     *)
NextCall ==
    /\ phase = "answered"
    /\ phase' = "ready" /\ call' = NoCall /\ refusals' = 0
    /\ answer' = NoAnswer /\ cause' = NoCause
    /\ stored' \in {stored, IF stored = "fresh" THEN "expired" ELSE stored}
    /\ EndPaging

-----------------------------------------------------------------------------
Answer(a) == answer' = a /\ phase' = "answered"

RefuseWith(code, fields) ==
    /\ Answer(Error(code, FALSE, fields))
    /\ refusals' = refusals + 1

UnknownTool ==
    /\ phase = "received" /\ call.tool \notin DOMAIN Tools
    /\ Answer(Error("unknown_tool", FALSE, {}))
    /\ UNCHANGED <<call, refusals, stored, cause, pagingVars>>

RefuseArguments ==
    /\ phase = "received" /\ call.tool \in DOMAIN Tools
    /\ Faults(Tools[call.tool], call.args) # {}
    /\ RefuseWith("validation_failed", Faults(Tools[call.tool], call.args))
    /\ UNCHANGED <<call, stored, cause, pagingVars>>

Prepare ==
    /\ phase = "received" /\ call.tool \in DOMAIN Tools
    /\ Faults(Tools[call.tool], call.args) = {}
    /\ call' = [call EXCEPT !.args = Prepared(Tools[call.tool], call.args)]
    /\ phase' = "prepared"
    /\ UNCHANGED <<refusals, answer, stored, cause, pagingVars>>

RefuseBody ==
    /\ phase = "prepared" /\ call.tool = "df_bulk_write_measures"
    /\ BodyFaults(call.args.measures[2]) # {}
    /\ RefuseWith("validation_failed", BodyFaults(call.args.measures[2]))
    /\ UNCHANGED <<call, stored, cause, pagingVars>>

RefuseMissing ==
    /\ phase = "prepared" /\ call.tool = "df_write_measure"
    /\ MissingForMode(call.args) # {}
    /\ RefuseWith("missing_required_field", MissingForMode(call.args))
    /\ UNCHANGED <<call, stored, cause, pagingVars>>

(* The field is called id, whatever the tool calls its argument.           *)
RefuseTarget ==
    /\ phase = "prepared" /\ call.tool = "df_write_measure"
    /\ MissingForMode(call.args) = {}
    /\ \/ /\ LacksTarget(call.args)
          /\ RefuseWith("missing_required_field", {Fault(<<"id">>, "missing_field")})
       \/ /\ Mismatches(call.args)
          /\ RefuseWith("id_mismatch", {Fault(<<"id">>, "invalid_value")})
    /\ UNCHANGED <<call, stored, cause, pagingVars>>

MayBeWritten(tool, args) ==
    \/ tool = "df_bulk_write_measures" /\ BodyFaults(args.measures[2]) = {}
    \/ /\ tool = "df_write_measure" /\ MissingForMode(args) = {}
       /\ ~LacksTarget(args) /\ ~Mismatches(args)

BeginWrite ==
    /\ phase = "prepared" /\ MayBeWritten(call.tool, call.args)
    /\ phase' = "writing" /\ refusals' = 0
    /\ UNCHANGED <<call, answer, stored, cause, pagingVars>>

UsesCache(args) == "use_cache" \in DOMAIN args => args.use_cache = BoolV(TRUE)
Hits == UsesCache(call.args) /\ stored = "fresh"

Hit ==
    /\ phase = "prepared" /\ call.tool = "df_get_measures" /\ Hits
    /\ Answer(Result("cache"))
    /\ UNCHANGED <<call, refusals, stored, cause, pagingVars>>

BeginFetch ==
    /\ phase = "prepared" /\ call.tool = "df_get_measures" /\ ~Hits
    /\ phase' = "fetching" /\ refusals' = 0
    /\ BeginPaging
    /\ UNCHANGED <<call, answer, stored, cause>>

-----------------------------------------------------------------------------
Page == phase = "fetching" /\ FetchPage /\ UNCHANGED serviceVars
Meanwhile == phase = "fetching" /\ (AddRow \/ RemoveRow) /\ UNCHANGED serviceVars

(* A listing that the disk refuses is an error like any other exception    *)
(* that is not the API's.                                                  *)
Store ==
    /\ phase = "fetching" /\ fetch = "done"
    /\ \/ stored' = "fresh" /\ Answer(Result("api"))
       \/ stored' = stored /\ Answer(Error("internal_error", FALSE, {}))
    /\ UNCHANGED <<call, refusals, cause, pagingVars>>

(* What may come instead of an answer of the API: an error of its own, no  *)
(* answer, one that is not JSON, and one that does not fit its schema.     *)
ApiFailures == UNION {
    {[kind |-> "api", error |-> e, generation |-> g, status |-> s, details |-> d] :
        g \in Sends(e), s \in Statuses, d \in Details} : e \in ApiErrors}
OtherFailures == {[kind |-> k] : k \in {"timeout", "connection_error",
                                        "invalid_response"}}

Envelops(failure) ==
    IF failure.kind = "api"
    THEN LET mapped == MapHttpError(Envelope(failure.error, failure.generation,
                                             failure.status, failure.details))
         IN  Error(mapped.code, mapped.retryable, mapped.fields)
    ELSE Error(failure.kind, FALSE, {})

PageFailsRetrying ==     \* mutant: a failed page starts the listing over
    /\ phase = "fetching" /\ fetch = "asking"
    /\ page' = 1 /\ got' = <<>> /\ total' = 0
    /\ UNCHANGED <<serviceVars, listing, style, fetch, started, inserted, removed>>

(* A DataForgeError falls back on the stored entry, whatever its age.      *)
PageFails ==
    /\ phase = "fetching" /\ FetchFails
    /\ \E failure \in ApiFailures \cup OtherFailures :
          /\ cause' = failure
          /\ Answer(IF stored = None THEN Envelops(failure) ELSE Result("cache"))
    /\ UNCHANGED <<call, refusals, stored>>

(* A ValidationError of a response does not, and looks like one of the     *)
(* arguments, down to the fields it names.                                 *)
PageDoesNotFit ==
    /\ phase = "fetching" /\ FetchFails
    /\ cause' = [kind |-> "unfit"]
    /\ \E fields \in Misfits : Answer(Error("validation_failed", FALSE, fields))
    /\ UNCHANGED <<call, refusals, stored>>

WriteFails ==
    /\ phase = "writing"
    /\ \E failure \in ApiFailures \cup (OtherFailures \ {[kind |-> "invalid_response"]}) :
          cause' = failure /\ Answer(Envelops(failure))
    /\ UNCHANGED <<call, refusals, stored, pagingVars>>

(* Whether all rows were taken or only some (207), the entry is dropped.   *)
(* A drop that raises makes an error of the write that was carried out.    *)
Written ==
    /\ phase = "writing"
    /\ \/ stored' = None /\ Answer(Result("api"))
       \/ stored' \in {stored, None} /\ Answer(Error("internal_error", FALSE, {}))
    /\ UNCHANGED <<call, refusals, cause, pagingVars>>

-----------------------------------------------------------------------------
Agent == Ask \/ Repair \/ NextCall
Service ==
    \/ UnknownTool \/ RefuseArguments \/ Prepare
    \/ RefuseBody \/ RefuseMissing \/ RefuseTarget
    \/ BeginWrite \/ Hit \/ BeginFetch \/ Page \/ Store
    \/ PageFails \/ PageDoesNotFit \/ WriteFails \/ Written

Next == Agent \/ Meanwhile \/ Service

Spec == Init /\ [][Next]_vars /\ WF_vars(Service)

-----------------------------------------------------------------------------
(* Every variable stays in its range; only a failed call has a cause, only *)
(* an error is marked as one, and only an error names fields.              *)
TypeOK ==
    /\ PagingTypeOK
    /\ phase \in {"ready", "received", "prepared", "fetching", "writing", "answered"}
    /\ call.tool \in DOMAIN Tools \cup {None, "df_unknown"}
    /\ phase = "prepared" => \A name \in DOMAIN call.args : call.args[name] # Invalid
    /\ refusals \in Nat
    /\ stored \in {None, "fresh", "expired"}
    /\ answer.isError <=> answer.code # None
    /\ answer.isError => phase = "answered" /\ answer.source = None
    /\ answer.fields # {} => answer.isError
    /\ cause # NoCause => phase = "answered"

(* A refusal names everything its check can object to, by the names the    *)
(* caller uses: an agent that repairs what is named is not refused by the  *)
(* same check again, so a call is refused at most once for its arguments,  *)
(* once more for the body of a bulk write, and twice more for the mode and *)
(* the target of a write that has them.                                    *)
Checks(tool) ==
    CASE tool = "df_bulk_write_measures" -> 2
      [] tool = "df_write_measure" -> 3
      [] OTHER -> 1
RefusedOncePerCheck == refusals <= Checks(call.tool)

(* That is so of every call but a replace or update without its target,    *)
(* where the field that is named is not the argument that is missing.      *)
NamedFaultsAreAllFaults ==
    ~(call.tool = "df_write_measure" /\ LacksTarget(call.args)) => RefusedOncePerCheck

(* The leniency at the door: what is let in has the declared type, a value *)
(* that had it already is left alone down to its members, an argument that *)
(* was not given stays so, and a second look changes nothing.              *)
LetIn(properties, raw, prepared) ==
    /\ DOMAIN prepared = DOMAIN raw
    /\ \A name \in DOMAIN raw :
          \/ raw[name] = Null /\ prepared[name] = Null
          \/ /\ HasType(properties[name], prepared[name])
             /\ Coerce(properties[name], prepared[name]) = prepared[name]
             /\ Conforms(properties[name], raw[name]) => prepared[name] = raw[name]
LeniencyKeepsTheContract ==
    [][phase' = "prepared" /\ phase = "received" =>
          LetIn(Tools[call.tool].properties, call.args, call'.args)]_vars

(* An error of the API has one code, whichever generation of envelope      *)
(* carries it; one that is not in the catalogue has that of its status; in *)
(* bare text it is at least one whose key is there to be read.             *)
CodesOf(failure) ==
    IF failure.error = "unknown" THEN {StatusFallback(failure.status)}
    ELSE IF failure.generation = "text" THEN {ByKey(key) : key \in KeysIn(failure.error)}
    ELSE {ByKey(failure.error)}
SameErrorSameCode ==
    (answer.isError /\ cause.kind = "api") => answer.code \in CodesOf(cause)

(* Every call is answered, however the API and the caller's arguments fare.*)
EveryCallIsAnswered == (phase = "received") ~> (phase = "answered")
=============================================================================
