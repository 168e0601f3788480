------------------------------ MODULE ReadTools ------------------------------
(***************************************************************************)
(* The read tools, from the arguments of a tool call to the request that   *)
(* answers it and the cache file that answers it the next time:            *)
(*                                                                         *)
(*   schema (tools_read.py)  ->  handler (READ_HANDLERS)  ->  use case     *)
(*   (use_cases.py)  ->  key (store.py) and file (file_store.py)           *)
(*                   ->  endpoint method (read_client.py)  ->  the API     *)
(*                                                                         *)
(* Each layer is a table, and every layer passes arguments on by name.     *)
(* Time, failures of the store and races belong to module SemanticCache,   *)
(* the pages of a listing to module Pagination.  No caller gives an empty  *)
(* text as a filter (the code leaves it out of the request and prints it   *)
(* in the key), nor a page size below 1.                                   *)
(*                                                                         *)
(* A value is a sequence of tokens, so that a search may contain the       *)
(* separators of keys (":") and of paths ("/").  An argument that is not   *)
(* in a call's DOMAIN is None.                                             *)
(***************************************************************************)
EXTENDS Naturals, FiniteSets, SequencesExt, Tables

CONSTANTS Ids,              \* ids of projects, versions and entities
          Searches,         \* texts a caller looks for
          Languages,        \* languages a caller may name
          DefaultLanguage,  \* settings.default_language
          MaxOptional,      \* bound: optional arguments given in one call
          MaxFiles          \* bound: files in the cache directory

ASSUME BoundsAssumption == MaxOptional \in Nat /\ MaxFiles \in Nat

VARIABLES files,      \* path -> the key that was stored there and the answer
          last,       \* the last call and what it got
          answered    \* history: what has been answered and stored since it was dropped

vars == <<files, last, answered>>

OnlyIn(f, S) == [n \in DOMAIN f \cap S |-> f[n]]

-----------------------------------------------------------------------------
(* Input schemas (build_read_tools): required arguments and optional ones. *)
Schema(required, optional) == [required |-> required, optional |-> optional]
PV == {"project_id", "version_id"}
Paging == {"page", "page_size"}

ContentSchemas ==
  [df_list_projects |-> Schema({}, Paging),
   df_list_versions |-> Schema({"project_id"}, Paging),
   df_get_measures |-> Schema(PV, {"language", "include_sql"}),
   df_get_dimensions |-> Schema(PV, {"language"}),
   df_get_facts |-> Schema(PV, {"language"}),
   df_get_rmd |-> Schema(PV, {"language", "include_sql", "include_raw"}),
   df_get_consolidated_rmd |-> Schema(PV, {"language", "include_sql"})]

MartSchemas ==
  [df_list_data_marts |->
     Schema(PV, {"language", "mart_type", "merge_type", "search"} \cup Paging),
   df_get_data_mart |-> Schema(PV \cup {"data_mart_id"}, {"language"}),
   df_get_data_mart_view |-> Schema(PV \cup {"data_mart_id"}, {"language"}),
   df_generate_sql |-> Schema(PV \cup {"data_mart_id"}, {"language", "limit", "offset"})]

ConnectionSchemas ==
  [df_list_connections |-> Schema(PV, {"language", "db_type", "status"} \cup Paging),
   df_get_connection |-> Schema(PV \cup {"connection_id"}, {"language", "include_db_schema"}),
   df_get_connection_schema |-> Schema(PV \cup {"connection_id"}, {"language"})]

ModelSchemas ==
  [df_list_dimension_groups |-> Schema(PV, {"language"} \cup Paging),
   df_get_dimension_group |-> Schema(PV \cup {"dimension_group_id"}, {"language"}),
   df_list_fact_tables |-> Schema(PV, {"language"} \cup Paging),
   df_get_fact_table |-> Schema(PV \cup {"fact_table_id"}, {"language", "include_dependencies"}),
   df_list_relationships |->
     Schema(PV, {"language", "fact_table_id", "dimension_group_id"} \cup Paging),
   df_get_relationship |-> Schema(PV \cup {"relationship_id"}, {"language"})]

RegistrySchemas ==
  [df_get_project_access |-> Schema({"project_id"}, {"language"}),
   df_list_git_connections |-> Schema({}, Paging),
   df_get_git_connection |-> Schema({"connection_id"}, {})]

Schemas ==
  Joined({ContentSchemas, MartSchemas, ConnectionSchemas, ModelSchemas, RegistrySchemas})
Tools == DOMAIN Schemas

-----------------------------------------------------------------------------
(* READ_HANDLERS: the arguments a handler hands to its use case, and what  *)
(* a.get falls back to (None where no default is listed).                  *)
ContentHandlers ==
  [df_list_projects |-> Paging,
   df_list_versions |-> {"project_id"} \cup Paging,
   df_get_measures |-> PV \cup {"language", "include_sql"},
   df_get_dimensions |-> PV \cup {"language"},
   df_get_facts |-> PV \cup {"language"},
   df_get_rmd |-> PV \cup {"language", "include_sql", "include_raw"},
   df_get_consolidated_rmd |-> PV \cup {"language", "include_sql"}]

MartHandlers ==
  [df_list_data_marts |->
     PV \cup {"language", "mart_type", "merge_type", "search"} \cup Paging,
   df_get_data_mart |-> PV \cup {"data_mart_id", "language"},
   df_get_data_mart_view |-> PV \cup {"data_mart_id", "language"},
   df_generate_sql |-> PV \cup {"data_mart_id", "limit", "offset", "language"}]

ConnectionHandlers ==
  [df_list_connections |-> PV \cup {"language", "db_type", "status"} \cup Paging,
   df_get_connection |-> PV \cup {"connection_id", "language", "include_db_schema"},
   df_get_connection_schema |-> PV \cup {"connection_id", "language"}]

ModelHandlers ==
  [df_list_dimension_groups |-> PV \cup {"language"} \cup Paging,
   df_get_dimension_group |-> PV \cup {"dimension_group_id", "language"},
   df_list_fact_tables |-> PV \cup {"language"} \cup Paging,
   df_get_fact_table |-> PV \cup {"fact_table_id", "language", "include_dependencies"},
   df_list_relationships |->
     PV \cup {"language", "fact_table_id", "dimension_group_id"} \cup Paging,
   df_get_relationship |-> PV \cup {"relationship_id", "language"}]

RegistryHandlers ==
  [df_get_project_access |-> {"project_id", "language"},
   df_list_git_connections |-> Paging,
   df_get_git_connection |-> {"connection_id"}]

Handlers ==
  Joined({ContentHandlers, MartHandlers, ConnectionHandlers, ModelHandlers, RegistryHandlers})

Defaults ==
  [page |-> <<"1">>, page_size |-> <<"100">>, include_sql |-> <<"False">>,
   include_raw |-> <<"False">>, include_db_schema |-> <<"False">>,
   include_dependencies |-> <<"False">>]

Handled(tool, args) == OnlyIn(args, Handlers[tool]) ++ OnlyIn(Defaults, Handlers[tool])

(* _lang: a language that is not given becomes the configured one.  The    *)
(* two registry tools and the two top listings have no language.           *)
WithLanguage(tool, s) ==
  IF "language" \in Handlers[tool] THEN s ++ [language |-> DefaultLanguage] ELSE s

-----------------------------------------------------------------------------
(* Use cases: the key builder and the endpoint method each one combines.   *)
(* df_generate_sql is never cached.                                        *)
Uses(key, fetch) == [key |-> key, fetch |-> fetch]

ContentUseCases ==
  [df_list_projects |-> Uses("projects", "get_projects"),
   df_list_versions |-> Uses("versions", "get_versions"),
   df_get_measures |-> Uses("measures", "get_measures"),
   df_get_dimensions |-> Uses("dimensions", "get_dimensions"),
   df_get_facts |-> Uses("facts", "get_facts"),
   df_get_rmd |-> Uses("rmd", "get_rmd"),
   df_get_consolidated_rmd |-> Uses("rmd", "get_rmd")]

MartUseCases ==
  [df_list_data_marts |-> Uses("data_marts", "get_data_marts"),
   df_get_data_mart |-> Uses("data_mart", "get_data_mart"),
   df_get_data_mart_view |-> Uses("data_mart_view", "get_data_mart_view"),
   df_generate_sql |-> Uses("none", "generate_sql")]

ConnectionUseCases ==
  [df_list_connections |-> Uses("connections", "get_connections"),
   df_get_connection |-> Uses("connection", "get_connection"),
   df_get_connection_schema |-> Uses("connection_schema", "get_connection_schema")]

ModelUseCases ==
  [df_list_dimension_groups |-> Uses("dimension_groups", "get_dimension_groups"),
   df_get_dimension_group |-> Uses("dimension_group", "get_dimension_group"),
   df_list_fact_tables |-> Uses("fact_tables", "get_fact_tables"),
   df_get_fact_table |-> Uses("fact_table", "get_fact_table"),
   df_list_relationships |-> Uses("relationships", "get_relationships"),
   df_get_relationship |-> Uses("relationship", "get_relationship")]

RegistryUseCases ==
  [df_get_project_access |-> Uses("project_access", "get_project_access"),
   df_list_git_connections |-> Uses("git_connections", "list_git_connections"),
   df_get_git_connection |-> Uses("git_connection", "get_git_connection")]

UseCases ==
  Joined({ContentUseCases, MartUseCases, ConnectionUseCases, ModelUseCases, RegistryUseCases})

Cached(tool) == UseCases[tool].key # "none"

-----------------------------------------------------------------------------
(* Key builders: the family, then the printed values in this order. *)
PVL == <<"project_id", "version_id", "language">>

ContentKeys ==
  [projects |-> <<"page", "page_size">>,
   versions |-> <<"project_id", "page", "page_size">>,
   measures |-> PVL \o <<"include_sql">>,
   dimensions |-> PVL,
   facts |-> PVL,
   rmd |-> PVL \o <<"include_sql">>]

ModelKeys ==
  [data_marts |-> PVL \o <<"page", "page_size", "mart_type", "merge_type", "search">>,
   data_mart |-> <<"project_id", "version_id", "data_mart_id", "language">>,
   data_mart_view |-> <<"project_id", "version_id", "data_mart_id", "language">>,
   connections |-> PVL \o <<"page", "page_size", "db_type", "status">>,
   connection |->
     <<"project_id", "version_id", "connection_id", "language", "include_db_schema">>,
   connection_schema |-> <<"project_id", "version_id", "connection_id", "language">>,
   dimension_groups |-> PVL \o <<"page", "page_size">>,
   dimension_group |-> <<"project_id", "version_id", "dimension_group_id", "language">>,
   fact_tables |-> PVL \o <<"page", "page_size">>,
   fact_table |->
     <<"project_id", "version_id", "fact_table_id", "language", "include_dependencies">>,
   relationships |-> PVL \o <<"page", "page_size", "fact_table_id", "dimension_group_id">>,
   relationship |-> <<"project_id", "version_id", "relationship_id", "language">>]

RegistryKeys ==
  [project_access |-> <<"project_id", "language">>,
   git_connections |-> <<"page", "page_size">>,
   git_connection |-> <<"connection_id">>]

KeyBuildersNoFilter ==    \* mutant: the key forgets the merge type
  [Joined({ContentKeys, ModelKeys, RegistryKeys})
     EXCEPT !.data_marts = PVL \o <<"page", "page_size", "mart_type", "search">>]

KeyBuildersVersionFirst ==    \* mutant: the version comes before its project
  [Joined({ContentKeys, ModelKeys, RegistryKeys})
     EXCEPT !.fact_table = <<"version_id", "project_id", "fact_table_id", "language",
                             "include_dependencies">>]

KeyBuildersWithRaw ==    \* mutant: include_raw splits the shared snapshot
  [Joined({ContentKeys, ModelKeys, RegistryKeys})
     EXCEPT !.rmd = PVL \o <<"include_sql", "include_raw">>]

KeyBuilders == Joined({ContentKeys, ModelKeys, RegistryKeys})

(* An f-string prints None as the text "None". *)
Printed(s, n) == IF n \in DOMAIN s THEN s[n] ELSE <<"None">>

Key(tool, s) ==
  LET names == KeyBuilders[UseCases[tool].key] IN
  << <<UseCases[tool].key>> >> \o [i \in 1..Len(names) |-> Printed(s, names[i])]

(* _key_to_path splits the text of the key at its colons and joins it with *)
(* "/", so both end a path component, wherever they come from.             *)
IsSeparator(token) == token \in {":", "/"}
Path(key) ==
  LET tokens == FlattenSeq(key)
      path[i \in 0..Len(tokens)] ==
        IF i = 0 THEN <<>>
        ELSE IF IsSeparator(tokens[i]) THEN path[i - 1] ELSE Append(path[i - 1], tokens[i])
  IN path[Len(tokens)]

-----------------------------------------------------------------------------
(* Endpoint methods: the resource, the ids in its path, the query          *)
(* parameters with the argument each carries, and the flags that are sent  *)
(* only when they are set.                                                 *)
Get(resource, ids, query, flags) ==
  [resource |-> resource, ids |-> ids, query |-> query, flags |-> flags]

InVersion == <<"project_id", "version_id">>
NoQuery == <<>>
Lang == [language |-> "language"]
Paged == [page |-> "page", pageSize |-> "page_size"]

ContentEndpoints ==
  [get_projects |-> Get("projects", <<>>, Paged, {}),
   get_versions |-> Get("projects/versions", <<"project_id">>, Paged, {}),
   get_measures |-> Get("measures", InVersion, Lang, {"include_sql"}),
   get_dimensions |-> Get("dimensions", InVersion, Lang, {}),
   get_facts |-> Get("facts", InVersion, Lang, {}),
   get_rmd |-> Get("rmd", InVersion, Lang, {"include_sql"})]

MartEndpoints ==
  [get_data_marts |->
     Get("data-marts", InVersion,
         Lang ++ Paged ++ [type |-> "mart_type", merge_type |-> "merge_type", search |-> "search"],
         {}),
   get_data_mart |-> Get("data-marts/*", InVersion \o <<"data_mart_id">>, Lang, {}),
   get_data_mart_view |-> Get("data-marts/*/view", InVersion \o <<"data_mart_id">>, Lang, {}),
   generate_sql |->
     Get("data-marts/*/generate-sql", InVersion \o <<"data_mart_id">>,
         Lang ++ [limit |-> "limit", offset |-> "offset"], {})]

ConnectionEndpoints ==
  [get_connections |->
     Get("connections", InVersion,
         Lang ++ Paged ++ [db_type |-> "db_type", status |-> "status"], {}),
   get_connection |->
     Get("connections/*", InVersion \o <<"connection_id">>, Lang, {"include_db_schema"}),
   get_connection_schema |->
     Get("connections/*/schema", InVersion \o <<"connection_id">>, Lang, {})]

ModelEndpoints ==
  [get_dimension_groups |-> Get("dimension-groups", InVersion, Lang ++ Paged, {}),
   get_dimension_group |->
     Get("dimension-groups/*", InVersion \o <<"dimension_group_id">>, Lang, {}),
   get_fact_tables |-> Get("fact-tables", InVersion, Lang ++ Paged, {}),
   get_fact_table |->
     Get("fact-tables/*", InVersion \o <<"fact_table_id">>, Lang, {"include_dependencies"}),
   get_relationships |->
     Get("relationships", InVersion,
         Lang ++ Paged ++ [fact_table_id |-> "fact_table_id",
                           dimension_group_id |-> "dimension_group_id"], {}),
   get_relationship |-> Get("relationships/*", InVersion \o <<"relationship_id">>, Lang, {})]

RegistryEndpoints ==
  [get_project_access |-> Get("access", <<"project_id">>, Lang, {}),
   list_git_connections |-> Get("git-connections", <<>>, Paged, {}),
   get_git_connection |-> Get("git-connections/*", <<"connection_id">>, NoQuery, {})]

Endpoints ==
  Joined({ContentEndpoints, MartEndpoints, ConnectionEndpoints, ModelEndpoints,
          RegistryEndpoints})

(* These three refuse a page_size above 100 before anything is sent. *)
ChecksPageSize == {"get_data_marts", "get_connections", "list_git_connections"}
TooLarge == <<"101">>

Request(tool, s) ==
  LET e == Endpoints[UseCases[tool].fetch]
      sent == {q \in DOMAIN e.query : e.query[q] \in DOMAIN s}
  IN [resource |-> e.resource,
      ids |-> [i \in 1..Len(e.ids) |-> s[e.ids[i]]],
      query |-> [q \in sent |-> s[e.query[q]]]
                  ++ [f \in {g \in e.flags : s[g] = <<"True">>} |-> <<"true">>]]

Refused(tool, s) ==
  UseCases[tool].fetch \in ChecksPageSize /\ s["page_size"] = TooLarge

-----------------------------------------------------------------------------
(* The API answers the query parameters whose names it knows, and caps the *)
(* page size of the listings that do not refuse a large one.               *)
ParameterNames ==
  {"language", "page", "pageSize", "include_sql", "type", "merge_type", "search", "limit",
   "offset", "db_type", "status", "include_db_schema", "fact_table_id", "dimension_group_id",
   "include_dependencies"}

Capped(filter) ==
  IF "pageSize" \in DOMAIN filter /\ filter["pageSize"] = TooLarge
  THEN [filter EXCEPT !["pageSize"] = <<"100">>]
  ELSE filter

Answer(request) ==
  [resource |-> request.resource, ids |-> request.ids,
   filter |-> Capped(OnlyIn(request.query, ParameterNames))]

Failed == [resource |-> "error"]
Nothing == [call |-> [tool |-> "none"], answer |-> Failed]

-----------------------------------------------------------------------------
(* What the tools' descriptions promise: the subject of each, and for the  *)
(* rest that an argument means what its name says.                         *)
Subjects ==
  [df_list_projects |-> "projects", df_list_versions |-> "projects/versions",
   df_get_measures |-> "measures", df_get_dimensions |-> "dimensions", df_get_facts |-> "facts",
   df_get_rmd |-> "rmd", df_get_consolidated_rmd |-> "rmd",
   df_list_data_marts |-> "data-marts", df_get_data_mart |-> "data-marts/*",
   df_get_data_mart_view |-> "data-marts/*/view",
   df_generate_sql |-> "data-marts/*/generate-sql",
   df_list_connections |-> "connections", df_get_connection |-> "connections/*",
   df_get_connection_schema |-> "connections/*/schema",
   df_list_dimension_groups |-> "dimension-groups",
   df_get_dimension_group |-> "dimension-groups/*",
   df_list_fact_tables |-> "fact-tables", df_get_fact_table |-> "fact-tables/*",
   df_list_relationships |-> "relationships", df_get_relationship |-> "relationships/*",
   df_get_project_access |-> "access", df_list_git_connections |-> "git-connections",
   df_get_git_connection |-> "git-connections/*"]

Flags == {"include_sql", "include_db_schema", "include_dependencies"}
Parameter(n) ==
  CASE n = "page_size" -> "pageSize" [] n = "mart_type" -> "type" [] OTHER -> n

Wanted(tool, args) ==
  LET optional == Schemas[tool].optional
      given == args ++ OnlyIn([page |-> <<"1">>, page_size |-> <<"100">>,
                               language |-> DefaultLanguage], optional)
      shown == {n \in DOMAIN given \cap (optional \ {"include_raw"}) :
                  n \in Flags => given[n] = <<"True">>}
      entity == Schemas[tool].required \ PV
  IN [resource |-> Subjects[tool],
      ids |-> [i \in 1..Cardinality(Schemas[tool].required \cap PV) |-> args[InVersion[i]]]
                \o (IF entity = {} THEN <<>> ELSE <<args[CHOOSE n \in entity : TRUE]>>),
      filter |-> [q \in {Parameter(n) : n \in shown} |->
                    LET n == CHOOSE m \in shown : Parameter(m) = q
                    IN IF n \in Flags THEN <<"true">> ELSE given[n]]]

-----------------------------------------------------------------------------
(* The calls: every combination of at most MaxOptional optional arguments. *)
Values(n) ==
  CASE n = "page" -> {<<"1">>, <<"2">>}
    [] n = "page_size" -> {<<"50">>, TooLarge}
    [] n = "language" -> Languages
    [] n = "search" -> Searches
    [] n \in Flags \cup {"include_raw"} -> {<<"True">>, <<"False">>}
    [] n \in {"mart_type", "merge_type", "db_type", "status"} -> {<<n>>}
    [] OTHER -> Ids

Arguments(S) == {f \in [S -> UNION {Values(n) : n \in S}] : \A n \in S : f[n] \in Values(n)}

Calls ==
  UNION {{[tool |-> t, args |-> r ++ o] :
            r \in Arguments(Schemas[t].required),
            o \in UNION {Arguments(S) : S \in {P \in SUBSET Schemas[t].optional :
                                             Cardinality(P) <= MaxOptional}}} : t \in Tools}

-----------------------------------------------------------------------------
Service(c) == WithLanguage(c.tool, Handled(c.tool, c.args))
CachedCalls == {c \in Calls : Cached(c.tool)}
KeyOf == [c \in CachedCalls |-> Key(c.tool, Service(c))]
FileOf == [c \in CachedCalls |-> Path(KeyOf[c])]
Fetched == [c \in Calls |-> Answer(Request(c.tool, Service(c)))]
Asked == [c \in Calls |-> Wanted(c.tool, c.args)]

Stored(f, path, key, answer) ==
  [p \in DOMAIN f \cup {path} |-> IF p = path THEN [key |-> key, answer |-> answer] ELSE f[p]]
Got(c, answer) == last' = [call |-> c, answer |-> answer]

Init == files = <<>> /\ last = Nothing /\ answered = {}

(* _cached_fetch: a fresh entry answers the call. *)
ReadHit(c) ==
  /\ c \in CachedCalls /\ FileOf[c] \in DOMAIN files
  /\ Got(c, files[FileOf[c]].answer)
  /\ UNCHANGED <<files, answered>>

(* There is no fresh entry, or use_cache is false: the API answers. *)
ReadMiss(c) ==
  /\ c \in CachedCalls /\ ~ Refused(c.tool, Service(c))
  /\ Cardinality(DOMAIN files \cup {FileOf[c]}) <= MaxFiles
  /\ files' = Stored(files, FileOf[c], KeyOf[c], Fetched[c])
  /\ answered' = answered \cup {Asked[c]}
  /\ Got(c, Fetched[c])

ReadFailsStoring(c) ==    \* mutant: the error is cached as well
  /\ c \in CachedCalls
  /\ Cardinality(DOMAIN files \cup {FileOf[c]}) <= MaxFiles
  /\ files' = Stored(files, FileOf[c], KeyOf[c], Failed)
  /\ Got(c, Failed)
  /\ UNCHANGED answered

(* The API fails, or the page size is refused: last known good, or the error. *)
ReadFails(c) ==
  /\ c \in CachedCalls
  /\ Got(c, IF FileOf[c] \in DOMAIN files THEN files[FileOf[c]].answer ELSE Failed)
  /\ UNCHANGED <<files, answered>>

(* generate_sql asks the API every time. *)
ReadUncached(c) ==
  /\ c \notin CachedCalls
  /\ \E answer \in {Fetched[c], Failed} : Got(c, answer)
  /\ UNCHANGED <<files, answered>>

(* refresh_cache: the files of the scope go, and the snapshot is fetched,  *)
(* in the language that is named or the configured one.                    *)
Scopes == INSTANCE Invalidation
              WITH ProjectIds <- {}, VersionIds <- {}, stored <- files, last <- last

Snapshots == {c \in CachedCalls : c.tool = "df_get_rmd" /\ DOMAIN c.args \subseteq PV \cup {"language"}}
SnapshotsOf(p, v) == {c \in Snapshots : c.args.project_id = p /\ c.args.version_id = v}
Remaining(scope, p, v) ==
  LET prefixes == Scopes!prefixes_for(scope, p, v) IN
  {f \in DOMAIN files :
     \A i \in DOMAIN prefixes : ~ Scopes!IsStart(Path(prefixes[i]), f)}

Refresh(scope, p, v, snapshot) ==
  LET call == [tool |-> "df_refresh_cache", project_id |-> p, version_id |-> v,
               scope |-> scope, snapshot |-> snapshot]
      kept == OnlyIn(files, Remaining(scope, p, v))
      still == {w \in answered : \E f \in DOMAIN kept : kept[f].answer.resource = w.resource
                                                     /\ kept[f].answer.ids = w.ids}
  IN \/ /\ Cardinality(DOMAIN kept \cup {FileOf[snapshot]}) <= MaxFiles
        /\ files' = Stored(kept, FileOf[snapshot], KeyOf[snapshot], Fetched[snapshot])
        /\ answered' = still \cup {Asked[snapshot]}
        /\ Got(call, Fetched[snapshot])
     \/ /\ files' = kept
        /\ answered' = still
        /\ Got(call, IF FileOf[snapshot] \in DOMAIN kept
                     THEN kept[FileOf[snapshot]].answer ELSE Failed)

(* The answer goes to the caller, and the next call comes. *)
Deliver == last # Nothing /\ last' = Nothing /\ UNCHANGED <<files, answered>>

Next ==
  \/ /\ last = Nothing
     /\ \/ \E c \in Calls : ReadHit(c) \/ ReadMiss(c) \/ ReadFails(c) \/ ReadUncached(c)
        \/ \E scope \in {"VERSION", "PROJECT", "GLOBAL"}, p, v \in Ids :
             \E snapshot \in SnapshotsOf(p, v) : Refresh(scope, p, v, snapshot)
  \/ Deliver

Spec == Init /\ [][Next]_vars

-----------------------------------------------------------------------------
(* Types, and: only answers of the API are stored, never an error. *)
TypeOK ==
  /\ \A f \in DOMAIN files : files[f].answer # Failed /\ Path(files[f].key) = f
  /\ last.call.tool \in Tools => last.call \in Calls
  /\ Cardinality(DOMAIN files) <= MaxFiles

(* A call that is answered is answered with what it asked for: its own     *)
(* subject, ids, language, page and filters, whether the API or a file     *)
(* answers it, and whatever calls came before.                             *)
AnswersItsOwnCall ==
  last.call.tool \in Tools /\ last.answer # Failed =>
    last.answer = [Asked[last.call] EXCEPT !.filter = Capped(@)]

(* Once a question has been answered and stored, an outage of the API does *)
(* not make it fail, however the caller spells it (README.md:352): with    *)
(* defaults left out or given, and through either of the two tools that    *)
(* share the snapshot.                                                     *)
OutageServesTheLastAnswer ==
  last.call \in CachedCalls /\ last.answer = Failed => Asked[last.call] \notin answered

(* A refresh leaves no file about the version, whatever tool and language  *)
(* it came from, but the snapshot it fetched.                              *)
RefreshLeavesNothing ==
  last.call.tool = "df_refresh_cache" /\ last.call.scope \in {"VERSION", "PROJECT"} =>
    \A f \in DOMAIN files :
      LET ids == files[f].answer.ids IN
      Len(ids) > 1 /\ ids[1] = last.call.project_id /\ ids[2] = last.call.version_id =>
        f = FileOf[last.call.snapshot]
=============================================================================
