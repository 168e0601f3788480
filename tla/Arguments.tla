----------------------------- MODULE Arguments ------------------------------
(***************************************************************************)
(* mcp/arguments.py: the arguments of a tool call are coerced to the types *)
(* of the tool's inputSchema, and every argument that cannot be is listed  *)
(* in one refusal.  A JSON value is a pair of its type and its content;    *)
(* the content of a number or a text is how it is written, that of an      *)
(* object a function on its members, that of a list a sequence.  No schema *)
(* of a tool has the type number or a union of types.                      *)
(***************************************************************************)
EXTENDS Naturals, Sequences, SequencesExt, TLC

Null == <<"null", "">>
IntV(t) == <<"int", t>>
FloatV(t) == <<"float", t>>
StrV(t) == <<"str", t>>
BoolV(b) == <<"bool", IF b THEN "true" ELSE "false">>
DictV(members) == <<"dict", members>>
ListV(items) == <<"list", items>>
Invalid == <<"invalid", "">>     \* _CoercionError

(* What int() reads, or float() for a whole number, once spaces are       *)
(* stripped.                                                               *)
IntegerIn == ("18" :> "18") @@ (" 18 " :> "18") @@ ("18.0" :> "18")
             @@ ("1" :> "1") @@ ("0" :> "0") @@ ("1.0" :> "1")
TrueWords == {"true", "yes", "on", "1"}
FalseWords == {"false", "no", "off", "0"}

AsIntegerOfBool(v) ==     \* mutant: isinstance(True, int)
    CASE v[1] = "int" -> v
      [] v[1] = "bool" -> BoolV(v[2] = "true")
      [] v[1] \in {"float", "str"} ->
            IF v[2] \in DOMAIN IntegerIn THEN IntV(IntegerIn[v[2]]) ELSE Invalid
      [] OTHER -> Invalid

AsInteger(v) ==
    CASE v[1] = "int" -> v
      [] v[1] \in {"float", "str"} ->
            IF v[2] \in DOMAIN IntegerIn THEN IntV(IntegerIn[v[2]]) ELSE Invalid
      [] OTHER -> Invalid

AsBoolean(v) ==
    CASE v[1] = "bool" -> v
      [] v[1] = "str" /\ v[2] \in TrueWords -> BoolV(TRUE)
      [] v[1] = "str" /\ v[2] \in FalseWords -> BoolV(FALSE)
      [] v[1] = "int" /\ v[2] \in {"0", "1"} -> BoolV(v[2] = "1")
      [] OTHER -> Invalid

AsString(v) ==
    IF v[1] \in {"str", "bool", "int", "float"} THEN StrV(v[2]) ELSE Invalid

-----------------------------------------------------------------------------
(* A schema has a type, the members it declares, the schema of its items   *)
(* and the values it admits, where it has them.                            *)
Of(type) == [type |-> type, enum |-> {}, properties |-> <<>>, items |-> <<>>]
OneOf(values) == [Of("string") EXCEPT !.enum = {StrV(v) : v \in values}]
ObjectOf(properties) == [Of("object") EXCEPT !.properties = properties]
ArrayOf(items) == [Of("array") EXCEPT !.items = <<items>>]

(* Members and items that cannot be coerced stay as they are: the bodies   *)
(* of write_schemas.py report them.  How a nested schema coerces is the    *)
(* parameter Nested.                                                       *)
Lenient(Nested(_, _), schema, v) ==
    IF v = Null \/ Nested(schema, v) = Invalid THEN v ELSE Nested(schema, v)

AsObject(Nested(_, _), schema, v) ==
    IF v[1] # "dict" THEN Invalid
    ELSE DictV([name \in DOMAIN v[2] |->
                 IF name \in DOMAIN schema.properties
                 THEN Lenient(Nested, schema.properties[name], v[2][name])
                 ELSE v[2][name]])

AsArray(Nested(_, _), schema, v) ==
    IF v[1] # "list" THEN Invalid
    ELSE IF schema.items = <<>> THEN v
    ELSE ListV([i \in DOMAIN v[2] |-> Lenient(Nested, schema.items[1], v[2][i])])

CoerceType(Nested(_, _), schema, v) ==
    CASE schema.type = "integer" -> AsInteger(v)
      [] schema.type = "boolean" -> AsBoolean(v)
      [] schema.type = "string" -> AsString(v)
      [] schema.type = "object" -> AsObject(Nested, schema, v)
      [] schema.type = "array" -> AsArray(Nested, schema, v)

CoerceWith(Nested(_, _), schema, v) ==
    LET coerced == CoerceType(Nested, schema, v) IN
    IF schema.enum = {} \/ coerced \in schema.enum THEN coerced ELSE Invalid

(* _coerce calls itself for what is nested.  No schema of a tool nests     *)
(* deeper than the dimensions of df_bulk_write_dimensions: a list of       *)
(* objects with an object among their members.                             *)
NothingNested(schema, v) == v
CoerceLeaf(schema, v) == CoerceWith(NothingNested, schema, v)
CoerceMember(schema, v) == CoerceWith(CoerceLeaf, schema, v)
CoerceItem(schema, v) == CoerceWith(CoerceMember, schema, v)
Coerce(schema, v) == CoerceWith(CoerceItem, schema, v)

-----------------------------------------------------------------------------
(* A tool declares properties and required; arguments is a function on the *)
(* names that were given.                                                  *)
Given(arguments, name) == name \in DOMAIN arguments /\ arguments[name] # Null
Fault(path, code) == [field |-> path, code |-> code]

Lacking(tool, arguments) ==
    {Fault(<<name>>, "missing_field") : name \in
        {n \in tool.required : ~Given(arguments, n)}}
Unknown(tool, arguments) ==
    {Fault(<<name>>, "unknown_field") : name \in DOMAIN arguments \ DOMAIN tool.properties}
UnfitIfRequired(tool, arguments) ==     \* mutant: optional arguments go unchecked
    {Fault(<<name>>, "invalid_value") : name \in
        {n \in DOMAIN arguments \cap tool.required :
            /\ arguments[n] # Null
            /\ Coerce(tool.properties[n], arguments[n]) = Invalid}}
Unfit(tool, arguments) ==
    {Fault(<<name>>, "invalid_value") : name \in
        {n \in DOMAIN arguments \cap DOMAIN tool.properties :
            /\ arguments[n] # Null
            /\ Coerce(tool.properties[n], arguments[n]) = Invalid}}

FaultsOneByOne(tool, arguments) ==     \* mutant: raise at the first kind of fault
    IF Lacking(tool, arguments) # {} THEN Lacking(tool, arguments)
    ELSE Unknown(tool, arguments) \cup Unfit(tool, arguments)
Faults(tool, arguments) ==
    Lacking(tool, arguments) \cup Unknown(tool, arguments) \cup Unfit(tool, arguments)

Prepared(tool, arguments) ==
    [name \in DOMAIN arguments |->
        IF arguments[name] = Null THEN Null
        ELSE Coerce(tool.properties[name], arguments[name])]

-----------------------------------------------------------------------------
(* What the schema itself asks of a value, members and items included.     *)
PythonType == [integer |-> "int", boolean |-> "bool", string |-> "str",
               object |-> "dict", array |-> "list"]
HasType(schema, v) ==
    /\ v[1] = PythonType[schema.type]
    /\ schema.enum = {} \/ v \in schema.enum

ConformsWith(Nested(_, _), schema, v) ==
    /\ HasType(schema, v)
    /\ schema.type = "array" /\ schema.items # <<>> =>
          \A i \in DOMAIN v[2] : Nested(schema.items[1], v[2][i])
    /\ schema.type = "object" =>
          \A name \in DOMAIN v[2] \cap DOMAIN schema.properties :
              v[2][name] = Null \/ Nested(schema.properties[name], v[2][name])

ConformsLeaf(schema, v) == ConformsWith(HasType, schema, v)
ConformsMember(schema, v) == ConformsWith(ConformsLeaf, schema, v)
ConformsItem(schema, v) == ConformsWith(ConformsMember, schema, v)
Conforms(schema, v) == ConformsWith(ConformsItem, schema, v)
=============================================================================
