----------------------------- MODULE MCToolCall -----------------------------
EXTENDS ToolCall

\* An argument is absent, null, right, of a type that is coerced, or wrong.
Absent == {<<>>}
MCArgument(name, values) == Absent \cup {name :> v : v \in values}

MCItem == DictV([measure_name |-> StrV("sales"), visibility |-> StrV("true")])
MCGoodItem == DictV([id |-> StrV("1"), measure_name |-> StrV("sales"),
                     measure_type |-> StrV("Base"), visibility |-> StrV("true")])
MCGood == [project_id |-> IntV("18"), version_id |-> IntV("1"),
           use_cache |-> BoolV(TRUE), measures |-> ListV(<<MCGoodItem>>),
           mode |-> StrV("create"), measure_id |-> IntV("18"), id |-> StrV("1"),
           measure_name |-> StrV("sales"), measure_type |-> StrV("Base"),
           visibility |-> StrV("true")]

MCProjects == MCArgument("project_id",
    {Null, IntV("18"), StrV(" 18 "), FloatV("18.0"), FloatV("1.5"), BoolV(TRUE), StrV("x")})
MCVersions == MCArgument("version_id", {IntV("1"), StrV("1"), StrV("1.5")})
MCUseCache == MCArgument("use_cache",
    {Null, BoolV(TRUE), BoolV(FALSE), StrV("off"), IntV("1"), StrV("maybe")})
MCUnknown == MCArgument("projectId", {IntV("18")})

MCItems == {MCItem, StrV("sales"), Null,
            DictV([visibility |-> BoolV(TRUE)]),
            DictV([measure_name |-> IntV("1"), visibility |-> StrV("maybe")]),
            DictV([measure_name |-> Null, owner |-> StrV("x")])}
MCLists == {<<>>} \cup {<<i>> : i \in MCItems} \cup {<<i, j>> : i, j \in MCItems}
MCMeasures == MCArgument("measures", {StrV("x")} \cup {ListV(l) : l \in MCLists})

MCModes == MCArgument("mode", {Null, StrV("create"), StrV("replace"), StrV("update"),
                              StrV("upsert")})
MCTargets == MCArgument("measure_id", {Null, IntV("1"), StrV("18"), StrV("x")})
MCNames == MCArgument("measure_name", {StrV("sales"), StrV("")})
MCTypes == MCArgument("measure_type", {StrV("Base"), Null})

MCSamples ==
    {[tool |-> "df_get_measures", args |-> p @@ v @@ c @@ u] :
        p \in MCProjects, v \in MCVersions, c \in MCUseCache, u \in MCUnknown}
    \cup
    {[tool |-> "df_bulk_write_measures",
      args |-> p @@ ("version_id" :> IntV("1")) @@ m @@ u] :
        p \in MCArgument("project_id", {StrV("18")}), m \in MCMeasures, u \in MCUnknown}
    \cup
    {[tool |-> "df_write_measure",
      args |-> ("project_id" :> IntV("18")) @@ v @@ m @@ t @@ i @@ n @@ y] :
        v \in MCArgument("version_id", {IntV("1")}), m \in MCModes, t \in MCTargets,
        i \in MCArgument("id", {StrV("1")}), n \in MCNames, y \in MCTypes}
    \cup {[tool |-> "df_unknown", args |-> <<>>]}

MCStyles == {"pages", "total", "bare"}
MCApiErrors == {"invalid_parameter", "invalid_parameter_type", "data_mart_not_found",
                "ACCOUNT_LOCKED", "idempotency_in_progress", "unknown"}
MCStatuses == {409, 500}
MCDetails == {{}, {Fault(<<"measures", 1, "measure_name">>, "invalid_value"),
                   Fault(<<"measure_type">>, "missing_field"),
                   Fault(<<"visibility">>, "unknown_field")}}
MCMisfits == {{Fault(<<"measures", 1, "measure_name">>, "invalid_value")}}
=============================================================================
