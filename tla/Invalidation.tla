---------------------------- MODULE Invalidation ----------------------------
(***************************************************************************)
(* Which cache entries a write drops: the key shapes of cache/store.py,    *)
(* the scopes of application/invalidation.py and the scope every write use *)
(* case passes to _write_op.                                               *)
(*                                                                         *)
(* A key is the sequence of its colon-separated segments, and a segment is *)
(* a sequence of characters.  A family name counts as one character; ids   *)
(* are spelled out, because whether 39 is taken for 392 is the question.   *)
(***************************************************************************)
EXTENDS Naturals, Sequences

CONSTANTS ProjectIds, VersionIds    \* ids, as sequences of digits

ASSUME IdsAssumption ==
  ProjectIds \subseteq Seq(0..9) /\ VersionIds \subseteq Seq(0..9)

VARIABLES stored,   \* the keys that have an entry
          last      \* what the last step did: a write, with its ids, or a refill

vars == <<stored, last>>

-----------------------------------------------------------------------------
(* _VERSION_PREFIXES, in the order in which they are dropped. *)
VersionPrefixesNoDetail ==    \* mutant: the fact table detail is forgotten
  <<"measures", "dimensions", "facts", "rmd", "consolidated_rmd",
    "data_marts", "data_mart", "data_mart_view",
    "connections", "connection", "connection_schema",
    "dimension_groups", "dimension_group", "fact_tables",
    "relationships", "relationship">>

VersionPrefixes ==
  <<"measures", "dimensions", "facts", "rmd", "consolidated_rmd",
    "data_marts", "data_mart", "data_mart_view",
    "connections", "connection", "connection_schema",
    "dimension_groups", "dimension_group", "fact_tables", "fact_table",
    "relationships", "relationship">>

(* The families the key builders use: consolidated_rmd_key is rmd_key. *)
VersionFamilies ==
  {"measures", "dimensions", "facts", "rmd", "data_marts", "data_mart", "data_mart_view",
   "connections", "connection", "connection_schema", "dimension_groups", "dimension_group",
   "fact_tables", "fact_table", "relationships", "relationship"}
ProjectFamilies == {"versions", "project_access"}
CompanyFamilies == {"projects", "git_connections", "git_connection"}

(* Language, paging, flags and entity ids follow the scope. *)
Tail1 == <<"rest">>
VersionKey(f, p, v) == << <<f>>, p, v, Tail1 >>
ProjectKey(f, p) == << <<f>>, p, Tail1 >>
CompanyKey(f) == << <<f>>, Tail1 >>

AllKeys == {VersionKey(f, p, v) : f \in VersionFamilies, p \in ProjectIds, v \in VersionIds}
          \cup {ProjectKey(f, p) : f \in ProjectFamilies, p \in ProjectIds}
          \cup {CompanyKey(f) : f \in CompanyFamilies}

-----------------------------------------------------------------------------
WriteScopes == {"GLOBAL", "PROJECT", "VERSION", "GIT"}

(* prefixes_for; every caller of a PROJECT or VERSION scope passes its ids. *)
prefixes_for(scope, p, v) ==
  CASE scope = "GIT" -> << << <<"git_connections">> >>, << <<"git_connection">> >> >>
    [] scope = "GLOBAL" -> << << <<"projects">> >> >>
    [] scope = "PROJECT" ->
         [i \in 1..Len(VersionPrefixes) |-> << <<VersionPrefixes[i]>>, p >>]
           \o << << <<"projects">> >>, << <<"versions">>, p >>, << <<"project_access">>, p >> >>
    [] scope = "VERSION" ->
         [i \in 1..Len(VersionPrefixes) |-> << <<VersionPrefixes[i]>>, p, v >>]

IsStart(s, t) == Len(s) <= Len(t) /\ SubSeq(t, 1, Len(s)) = s

(* FileCacheStore.invalidate_prefix drops a directory, or the entry itself. *)
UnderRaw(prefix, key) ==    \* mutant: "starts with" on the text of the key
  LET n == Len(prefix) IN
  /\ n <= Len(key)
  /\ \A i \in 1..(n - 1) : key[i] = prefix[i]
  /\ IsStart(prefix[n], key[n])

Under(prefix, key) == IsStart(prefix, key)

Dropped ==
  [scope \in WriteScopes |-> [p \in ProjectIds |-> [v \in VersionIds |->
     LET prefixes == prefixes_for(scope, p, v) IN
     {k \in AllKeys : \E i \in DOMAIN prefixes : Under(prefixes[i], k)}]]]

-----------------------------------------------------------------------------
(***************************************************************************)
(* The write use cases.  scope is the argument of _write_op; changes names *)
(* the families whose content the API derives from what is written, and    *)
(* reach says in which versions: the one addressed, all of the project's.  *)
(* Use cases that agree on all three share a row.                          *)
(***************************************************************************)
Row(name, scope, changes, reach) ==
  [name |-> name, scope |-> scope, changes |-> changes, reach |-> reach]

(* The snapshot and the version listing show the name of project and version. *)
ProjectWrites ==
  {Row("create_project", "GLOBAL", {"projects"}, "project"),
   Row("update_project", "PROJECT", {"projects", "rmd"}, "project"),
   Row("delete_project", "PROJECT",
       VersionFamilies \cup ProjectFamilies \cup {"projects"}, "project"),
   Row("create_version", "PROJECT", {"versions", "rmd"}, "project"),
   Row("update_version", "PROJECT", {"versions", "rmd"}, "project"),
   Row("delete_version", "PROJECT", VersionFamilies \cup {"versions"}, "version")}

(* A measure, dimension or fact shows in its list, the snapshot and the    *)
(* detail of the fact tables it is assigned to (invalidation.py:3-6).      *)
RmdWrites ==
  {Row("write_measure", "VERSION", {"measures", "rmd", "fact_table"}, "version"),
   Row("write_dimension", "VERSION",
       {"dimensions", "rmd", "dimension_group", "fact_table"}, "version"),
   Row("write_fact", "VERSION", {"facts", "rmd", "fact_table"}, "version")}

ModelWrites ==
  {Row("write_dimension_group", "VERSION",
       {"dimension_groups", "dimension_group", "dimensions", "rmd", "relationships"}, "version"),
   Row("write_fact_table", "VERSION",
       {"fact_tables", "fact_table", "rmd", "relationships"}, "version"),
   Row("write_verification_filter", "VERSION", {"fact_table", "rmd"}, "version"),
   Row("write_relationship", "VERSION",
       {"relationships", "relationship", "fact_table", "rmd"}, "version")}

AccessWrites ==
  {Row("set_project_access", "PROJECT", {"project_access"}, "project"),
   Row("transfer_project_ownership", "PROJECT", {"project_access", "projects"}, "project")}

(* An import may create a version or replace one of the same project. *)
TransferWrites ==
  {Row("export_version", "GIT", {}, "version"),
   Row("preview_import", "GIT", {}, "version"),
   Row("import_version", "PROJECT", VersionFamilies \cup {"versions"}, "project")}

GitWrites ==
  {Row("write_git_connection", "GIT", {"git_connections", "git_connection"}, "project")}

Writes ==
  ProjectWrites \cup RmdWrites \cup ModelWrites \cup AccessWrites
    \cup TransferWrites \cup GitWrites

(* The entries whose content the write changes. *)
Changed(w, p, v) ==
  {VersionKey(f, p, u) : f \in w.changes \cap VersionFamilies,
                         u \in IF w.reach = "version" THEN {v} ELSE VersionIds}
    \cup {ProjectKey(f, p) : f \in w.changes \cap ProjectFamilies}
    \cup {CompanyKey(f) : f \in w.changes \cap CompanyFamilies}

-----------------------------------------------------------------------------
NoWrite == [write |-> Row("none", "GLOBAL", {}, "version"), p |-> <<>>, v |-> <<>>]

Init == stored = AllKeys /\ last = NoWrite

(* A write that succeeds drops its scope. *)
Write(w, p, v) ==
  /\ stored' = stored \ Dropped[w.scope][p][v]
  /\ last' = [write |-> w, p |-> p, v |-> v]

(* Reads bring entries back. *)
Refill == stored' = AllKeys /\ last' = NoWrite

Next ==
  \/ \E w \in Writes, p \in ProjectIds, v \in VersionIds : Write(w, p, v)
  \/ Refill

Spec == Init /\ [][Next]_vars

-----------------------------------------------------------------------------
(* A successful write leaves no entry whose content it has changed: the    *)
(* rule "a write drops its whole scope" (invalidation.py:1-8) is enough    *)
(* for every use case with the scope it passes.                            *)
WriteDropsWhatItChanges == stored \cap Changed(last.write, last.p, last.v) = {}

(* A write to one version costs no other version its entries, and a write  *)
(* to one project no other project (but for the list of projects), even if *)
(* one id begins with the other.                                           *)
InScope(k, scope, p, v) ==
  \/ scope \in {"GLOBAL", "GIT"} /\ Len(k) = 2
  \/ scope = "PROJECT" /\ (k = CompanyKey("projects") \/ (Len(k) > 2 /\ k[2] = p))
  \/ scope = "VERSION" /\ Len(k) = 4 /\ k[2] = p /\ k[3] = v

WriteStaysInScope ==
  [][\A k \in stored \ stored' : InScope(k, last'.write.scope, last'.p, last'.v)]_vars
=============================================================================
