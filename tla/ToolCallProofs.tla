--------------------------- MODULE ToolCallProofs ---------------------------
(***************************************************************************)
(* A tool call from its arguments to its answer (on_call_tool of           *)
(* mcp/tools.py), for any arguments, API errors, statuses, page size and   *)
(* listing: what the argument checks let in, that they name everything     *)
(* they object to, and the code an error of the API gets.                  *)
(***************************************************************************)
EXTENDS ToolCall, PaginationProofs, WellFoundedInduction

-----------------------------------------------------------------------------
(* Coercion, one level after the other.  A scalar has nothing nested.      *)
ScalarType(schema, v) ==
    CASE schema.type = "integer" -> AsInteger(v)
      [] schema.type = "boolean" -> AsBoolean(v)
      [] OTHER -> AsString(v)
Scalar(schema, v) ==
    IF schema.enum = {} \/ ScalarType(schema, v) \in schema.enum
    THEN ScalarType(schema, v) ELSE Invalid

IsScalar(schema) == schema.type \in {"integer", "boolean", "string"}

LEMMA ScalarsHaveNoLevel ==
    ASSUME NEW schema, NEW v, IsScalar(schema)
    PROVE  /\ CoerceMember(schema, v) = Scalar(schema, v)
           /\ Coerce(schema, v) = Scalar(schema, v)
           /\ ConformsMember(schema, v) <=> HasType(schema, v)
           /\ Conforms(schema, v) <=> HasType(schema, v)
<1>1. CoerceMember(schema, v) = Scalar(schema, v)
  BY DEF IsScalar, CoerceMember, CoerceWith, CoerceType, Scalar, ScalarType
<1>2. Coerce(schema, v) = Scalar(schema, v)
  BY DEF IsScalar, Coerce, CoerceWith, CoerceType, Scalar, ScalarType
<1>3. ConformsMember(schema, v) <=> HasType(schema, v)
  BY DEF IsScalar, ConformsMember, ConformsWith
<1>4. Conforms(schema, v) <=> HasType(schema, v)
  BY DEF IsScalar, Conforms, ConformsWith
<1>5. QED  BY <1>1, <1>2, <1>3, <1>4

LEMMA PythonTypes ==
    /\ PythonType["integer"] = "int" /\ PythonType["boolean"] = "bool"
    /\ PythonType["string"] = "str" /\ PythonType["object"] = "dict"
    /\ PythonType["array"] = "list"
BY DEF PythonType

LEMMA PairsAreValues ==
    ASSUME NEW a, NEW b
    PROVE  <<a, b>>[1] = a /\ <<a, b>>[2] = b /\ IsValue(<<a, b>>)
<1>1. <<a, b>>[1] = a /\ <<a, b>>[2] = b
  OBVIOUS
<1>2. QED  BY <1>1 DEF IsValue

LEMMA ScalarsHaveTheirType ==
    ASSUME NEW schema, NEW v, IsScalar(schema), Scalar(schema, v) # Invalid
    PROVE  /\ HasType(schema, Scalar(schema, v))
           /\ Scalar(schema, Scalar(schema, v)) = Scalar(schema, v)
           /\ Scalar(schema, v)[1] \in {"int", "bool", "str"}
           /\ IsValue(v) => IsValue(Scalar(schema, v))
<1> USE DEF IsScalar, Invalid
<1>1. CASE schema.type = "integer"
  <2>1. /\ ScalarType(schema, v) = AsInteger(v)
        /\ ScalarType(schema, AsInteger(v)) = AsInteger(AsInteger(v))
    BY <1>1 DEF ScalarType
  <2>2. Scalar(schema, v) = AsInteger(v) /\ AsInteger(v) # Invalid
    BY <2>1 DEF Scalar
  <2>3. AsInteger(v)[1] = "int"
    BY <2>2 DEF AsInteger, IntV
  <2>4. AsInteger(AsInteger(v)) = AsInteger(v)
    BY <2>3 DEF AsInteger
  <2>5. IsValue(v) => IsValue(AsInteger(v))
    BY <2>2, PairsAreValues DEF AsInteger, IntV
  <2>6. QED
    BY <1>1, <2>1, <2>2, <2>3, <2>4, <2>5, PythonTypes DEF Scalar, HasType
<1>2. CASE schema.type = "boolean"
  <2>1. /\ ScalarType(schema, v) = AsBoolean(v)
        /\ ScalarType(schema, AsBoolean(v)) = AsBoolean(AsBoolean(v))
    BY <1>2 DEF ScalarType
  <2>2. Scalar(schema, v) = AsBoolean(v) /\ AsBoolean(v) # Invalid
    BY <2>1 DEF Scalar
  <2>3. AsBoolean(v)[1] = "bool"
    BY <2>2 DEF AsBoolean, BoolV
  <2>4. AsBoolean(AsBoolean(v)) = AsBoolean(v)
    BY <2>3 DEF AsBoolean
  <2>5. IsValue(v) => IsValue(AsBoolean(v))
    BY <2>2, PairsAreValues DEF AsBoolean, BoolV
  <2>6. QED
    BY <1>2, <2>1, <2>2, <2>3, <2>4, <2>5, PythonTypes DEF Scalar, HasType
<1>3. CASE schema.type = "string"
  <2>1. /\ ScalarType(schema, v) = AsString(v)
        /\ ScalarType(schema, AsString(v)) = AsString(AsString(v))
    BY <1>3 DEF ScalarType
  <2>2. Scalar(schema, v) = AsString(v) /\ AsString(v) # Invalid
    BY <2>1 DEF Scalar
  <2>3. AsString(v) = <<"str", v[2]>>
    BY <2>2 DEF AsString, StrV
  <2>4. AsString(AsString(v)) = AsString(v)
    BY <2>3 DEF AsString, StrV
  <2>5. AsString(v)[1] = "str" /\ IsValue(AsString(v))
    <3>1. <<"str", v[2]>>[1] = "str" /\ IsValue(<<"str", v[2]>>)
      BY PairsAreValues
    <3>2. QED  BY <2>3, <3>1
  <2>6. QED
    BY <1>3, <2>1, <2>2, <2>4, <2>5, PythonTypes DEF Scalar, HasType
<1>4. QED  BY <1>1, <1>2, <1>3

LEMMA ScalarsThatFitAreKept ==
    ASSUME NEW schema, NEW v, IsScalar(schema), HasType(schema, v), IsValue(v)
    PROVE  Scalar(schema, v) = v
<1>1. ScalarType(schema, v) = v
  BY PythonTypes DEF IsScalar, HasType, IsValue, ScalarType, AsInteger, AsBoolean,
                     AsString, StrV
<1>2. QED  BY <1>1 DEF Scalar, HasType

LEMMA NullIsValid ==
    Null[1] = "null" /\ Invalid[1] = "invalid" /\ Null # Invalid
<1>1. Null[1] = "null" /\ Invalid[1] = "invalid"
  BY DEF Null, Invalid
<1>2. QED  BY <1>1

LEMMA ScalarsAreNotNull ==
    ASSUME NEW schema, NEW v, IsScalar(schema), HasType(schema, v)
    PROVE  v # Null /\ v # Invalid
<1>1. v[1] \in {"int", "bool", "str"}
  BY PythonTypes DEF IsScalar, HasType
<1>2. QED  BY <1>1, NullIsValid

(* A member of an object, which stays when it cannot be coerced.           *)
Member(schema, v) ==
    IF v = Null \/ Scalar(schema, v) = Invalid THEN v ELSE Scalar(schema, v)

LEMMA MembersAreSettled ==
    ASSUME NEW schema, NEW v, IsScalar(schema)
    PROVE  /\ Member(schema, Member(schema, v)) = Member(schema, v)
           /\ IsValue(v) => IsValue(Member(schema, v))
           /\ IsValue(v) /\ HasType(schema, v) => Member(schema, v) = v
           /\ HasType(schema, Member(schema, v)) <=>
                 (v # Null /\ Scalar(schema, v) # Invalid) \/ HasType(schema, v)
<1>1. CASE v = Null \/ Scalar(schema, v) = Invalid
  BY <1>1, ScalarsAreNotNull DEF Member
<1>2. CASE ~(v = Null \/ Scalar(schema, v) = Invalid)
  BY <1>2, ScalarsHaveTheirType, ScalarsThatFitAreKept DEF Member
<1>3. QED  BY <1>1, <1>2

-----------------------------------------------------------------------------
(* An object of scalars, and a list of such objects: the bulk bodies.      *)
Flat(properties) == \A name \in DOMAIN properties : IsScalar(properties[name])

Members(properties, members) ==
    [name \in DOMAIN members |->
        IF name \in DOMAIN properties THEN Member(properties[name], members[name])
        ELSE members[name]]
Item(properties, v) == IF v[1] # "dict" THEN v ELSE DictV(Members(properties, v[2]))
Items(properties, items) == [i \in DOMAIN items |-> Item(properties, items[i])]

LEMMA SchemaFields ==
    ASSUME NEW properties, NEW items
    PROVE  /\ ObjectOf(properties).type = "object" /\ ObjectOf(properties).enum = {}
           /\ ObjectOf(properties).properties = properties
           /\ ArrayOf(items).type = "array" /\ ArrayOf(items).enum = {}
           /\ ArrayOf(items).items = <<items>> /\ ArrayOf(items).items # <<>>
           /\ ArrayOf(items).items[1] = items
BY DEF ObjectOf, ArrayOf, Of

LEMMA ObjectsOfScalars ==
    ASSUME NEW properties, Flat(properties), NEW v
    PROVE  CoerceItem(ObjectOf(properties), v) =
              IF v[1] # "dict" THEN Invalid ELSE DictV(Members(properties, v[2]))
<1> DEFINE schema == ObjectOf(properties)
<1>1. CoerceItem(schema, v) = AsObject(CoerceMember, schema, v)
  BY SchemaFields DEF CoerceItem, CoerceWith, CoerceType
<1>2. ASSUME NEW name \in DOMAIN properties, NEW m
      PROVE  Lenient(CoerceMember, properties[name], m) = Member(properties[name], m)
  <2>1. IsScalar(properties[name])
    BY DEF Flat
  <2>2. CoerceMember(properties[name], m) = Scalar(properties[name], m)
    BY <2>1, ScalarsHaveNoLevel
  <2>3. QED  BY <2>2 DEF Lenient, Member
<1>3. [name \in DOMAIN v[2] |->
           IF name \in DOMAIN schema.properties
           THEN Lenient(CoerceMember, schema.properties[name], v[2][name])
           ELSE v[2][name]] = Members(properties, v[2])
  BY <1>2, SchemaFields DEF Members
<1>4. QED  BY <1>1, <1>3 DEF AsObject

LEMMA ListsOfObjects ==
    ASSUME NEW properties, Flat(properties), NEW v
    PROVE  Coerce(ArrayOf(ObjectOf(properties)), v) =
              IF v[1] # "list" THEN Invalid ELSE ListV(Items(properties, v[2]))
<1> DEFINE item == ObjectOf(properties)
<1> DEFINE schema == ArrayOf(item)
<1>1. Coerce(schema, v) = AsArray(CoerceItem, schema, v)
  BY SchemaFields DEF Coerce, CoerceWith, CoerceType
<1>2. ASSUME NEW m
      PROVE  Lenient(CoerceItem, item, m) = Item(properties, m)
  <2>1. CoerceItem(item, m) =
           IF m[1] # "dict" THEN Invalid ELSE DictV(Members(properties, m[2]))
    BY ObjectsOfScalars
  <2>2. Null[1] # "dict" /\ \A f : DictV(f) # Invalid
    BY DEF Null, Invalid, DictV
  <2>3. QED  BY <2>1, <2>2 DEF Lenient, Item
<1>3. [i \in DOMAIN v[2] |-> Lenient(CoerceItem, schema.items[1], v[2][i])]
         = Items(properties, v[2])
  BY <1>2, SchemaFields DEF Items
<1>4. QED  BY <1>1, <1>3, SchemaFields DEF AsArray

LEMMA ObjectsAreSettled ==
    ASSUME NEW properties, Flat(properties), NEW v
    PROVE  /\ Item(properties, Item(properties, v)) = Item(properties, v)
           /\ IsItem(v) => IsItem(Item(properties, v))
           /\ IsItem(v) /\ ConformsItem(ObjectOf(properties), v)
                 => Item(properties, v) = v
<1> DEFINE members == Members(properties, v[2])
<1>1. /\ DOMAIN members = DOMAIN v[2]
      /\ \A name \in DOMAIN v[2] : members[name] =
            IF name \in DOMAIN properties THEN Member(properties[name], v[2][name])
            ELSE v[2][name]
      /\ IsFilled(members)
  BY DEF Members, IsFilled
<1>2. \A name \in DOMAIN properties : IsScalar(properties[name])
  BY DEF Flat
<1>3. /\ DictV(members)[1] = "dict" /\ DictV(members)[2] = members
      /\ IsValue(DictV(members))
  BY PairsAreValues DEF DictV
<1>4. Members(properties, members) = members
  <2>1. \A name \in DOMAIN members \cap DOMAIN properties :
           Member(properties[name], members[name]) = members[name]
    BY <1>1, <1>2, MembersAreSettled
  <2>2. QED  BY <1>1, <2>1 DEF Members, IsFilled
<1>5. Item(properties, Item(properties, v)) = Item(properties, v)
  BY <1>3, <1>4 DEF Item
<1>6. ASSUME IsItem(v) PROVE IsItem(Item(properties, v))
  <2>1. CASE v[1] # "dict"
    BY <2>1, <1>6 DEF Item
  <2>2. CASE v[1] = "dict"
    <3>1. \A name \in DOMAIN members : IsValue(members[name])
      BY <2>2, <1>6, <1>1, <1>2, MembersAreSettled DEF IsItem
    <3>2. QED  BY <2>2, <3>1, <1>1, <1>3 DEF Item, IsItem
  <2>3. QED  BY <2>1, <2>2
<1>7. ASSUME IsItem(v), ConformsItem(ObjectOf(properties), v)
      PROVE  Item(properties, v) = v
  <2>1. /\ HasType(ObjectOf(properties), v)
        /\ \A name \in DOMAIN v[2] \cap DOMAIN properties :
              v[2][name] = Null \/ ConformsMember(properties[name], v[2][name])
    BY <1>7, SchemaFields DEF ConformsItem, ConformsWith
  <2>2. v[1] = "dict" /\ v = <<"dict", v[2]>> /\ IsFilled(v[2])
    BY <1>7, <2>1, SchemaFields, PythonTypes DEF HasType, IsItem, IsValue
  <2>3. \A name \in DOMAIN v[2] \cap DOMAIN properties :
           Member(properties[name], v[2][name]) = v[2][name]
    <3>1. SUFFICES ASSUME NEW name \in DOMAIN v[2] \cap DOMAIN properties
                   PROVE  Member(properties[name], v[2][name]) = v[2][name]
      OBVIOUS
    <3>2. IsValue(v[2][name]) /\ IsScalar(properties[name])
      BY <1>7, <2>2, <1>2 DEF IsItem
    <3>3. v[2][name] = Null \/ HasType(properties[name], v[2][name])
      BY <2>1, <3>2, ScalarsHaveNoLevel
    <3>4. QED  BY <3>2, <3>3, MembersAreSettled DEF Member
  <2>4. members = v[2]
    BY <2>2, <2>3, <1>1 DEF IsFilled
  <2>5. QED  BY <2>2, <2>4 DEF Item, DictV
<1>8. QED  BY <1>5, <1>6, <1>7

LEMMA ListsAreSettled ==
    ASSUME NEW properties, Flat(properties), NEW v,
           Coerce(ArrayOf(ObjectOf(properties)), v) # Invalid
    PROVE  LET schema == ArrayOf(ObjectOf(properties)) IN
           /\ HasType(schema, Coerce(schema, v))
           /\ Coerce(schema, Coerce(schema, v)) = Coerce(schema, v)
           /\ IsArgument(v) => IsArgument(Coerce(schema, v))
           /\ IsArgument(v) /\ Conforms(schema, v) => Coerce(schema, v) = v
<1> DEFINE schema == ArrayOf(ObjectOf(properties))
<1> DEFINE items == Items(properties, v[2])
<1>1. v[1] = "list" /\ Coerce(schema, v) = ListV(items)
  BY ListsOfObjects
<1>2. ListV(items)[1] = "list" /\ ListV(items)[2] = items /\ IsValue(ListV(items))
  BY PairsAreValues DEF ListV
<1>3. /\ DOMAIN items = DOMAIN v[2] /\ IsFilled(items)
      /\ \A i \in DOMAIN v[2] : items[i] = Item(properties, v[2][i])
  BY DEF Items, IsFilled
<1>4. HasType(schema, Coerce(schema, v))
  BY <1>1, <1>2, SchemaFields, PythonTypes DEF HasType
<1>5. Items(properties, items) = items
  BY <1>3, ObjectsAreSettled DEF Items, IsFilled
<1>6. Coerce(schema, Coerce(schema, v)) = Coerce(schema, v)
  <2>1. Coerce(schema, ListV(items)) = ListV(Items(properties, items))
    BY <1>2, ListsOfObjects
  <2>2. QED  BY <1>1, <1>5, <2>1
<1>7. ASSUME IsArgument(v) PROVE IsArgument(Coerce(schema, v))
  BY <1>1, <1>2, <1>3, <1>7, ObjectsAreSettled DEF IsArgument
<1>8. ASSUME IsArgument(v), Conforms(schema, v) PROVE Coerce(schema, v) = v
  <2>1. \A i \in DOMAIN v[2] : ConformsItem(ObjectOf(properties), v[2][i])
    BY <1>8, SchemaFields DEF Conforms, ConformsWith
  <2>2. \A i \in DOMAIN v[2] : IsItem(v[2][i])
    BY <1>1, <1>8 DEF IsArgument
  <2>3. \A i \in DOMAIN v[2] : items[i] = v[2][i]
    BY <1>3, <2>1, <2>2, ObjectsAreSettled
  <2>4. items = v[2]
    BY <1>1, <1>3, <1>8, <2>3 DEF IsArgument, IsFilled
  <2>5. QED  BY <1>1, <1>8, <2>4 DEF IsArgument, IsValue, ListV
<1>9. QED  BY <1>4, <1>6, <1>7, <1>8

-----------------------------------------------------------------------------
(* The schemas of the three tools: integers, texts, a boolean, a list.     *)
BulkTool == "df_bulk_write_measures"
WriteTool == "df_write_measure"
Rows == ArrayOf(ObjectOf(MeasureFields))

LEMMA MeasuresAreFlat ==
    /\ Flat(MeasureFields) /\ DOMAIN MeasureFields = {"id", "measure_name", "measure_type", "visibility"}
    /\ \A name \in DOMAIN MeasureFields : MeasureFields[name].type = "string"
BY DEF Flat, IsScalar, MeasureFields, Flag, OneOf, Of

LEMMA TheTools ==
    /\ DOMAIN Tools = {"df_get_measures", BulkTool, WriteTool}
    /\ DOMAIN Tools["df_get_measures"].properties = {"project_id", "version_id", "use_cache"}
    /\ Tools["df_get_measures"].required = {"project_id", "version_id"}
    /\ \A name \in DOMAIN Tools["df_get_measures"].properties :
          IsScalar(Tools["df_get_measures"].properties[name])
    /\ DOMAIN Tools[BulkTool].properties = {"project_id", "version_id", "measures"}
    /\ Tools[BulkTool].required = {"project_id", "version_id", "measures"}
    /\ IsScalar(Tools[BulkTool].properties["project_id"])
    /\ IsScalar(Tools[BulkTool].properties["version_id"])
    /\ Tools[BulkTool].properties["measures"] = Rows
    /\ DOMAIN Tools[WriteTool].properties =
          {"project_id", "version_id", "mode", "measure_id"} \cup DOMAIN MeasureFields
    /\ Tools[WriteTool].required = {"project_id", "version_id"}
    /\ \A name \in DOMAIN Tools[WriteTool].properties :
          IsScalar(Tools[WriteTool].properties[name])
    /\ Tools[WriteTool].properties["id"] = Of("string")
    /\ BulkTool # WriteTool /\ "df_get_measures" \notin {BulkTool, WriteTool}
<1>1. /\ \A type : Of(type).type = type
      /\ \A values : OneOf(values).type = "string"
  BY DEF OneOf, Of
<1>2. /\ MeasureFields.id = Of("string") /\ MeasureFields.measure_name = Of("string")
      /\ MeasureFields.measure_type = Of("string")
      /\ MeasureFields.visibility.type = "string" /\ Modes.type = "string"
  BY <1>1 DEF MeasureFields, Flag, Modes
<1>3. DOMAIN Tools = {"df_get_measures", BulkTool, WriteTool}
  BY DEF Tools, BulkTool, WriteTool
<1>4. /\ DOMAIN Tools["df_get_measures"].properties = {"project_id", "version_id", "use_cache"}
      /\ Tools["df_get_measures"].required = {"project_id", "version_id"}
      /\ \A name \in DOMAIN Tools["df_get_measures"].properties :
            IsScalar(Tools["df_get_measures"].properties[name])
  BY <1>1 DEF Tools, IsScalar
<1>5. /\ DOMAIN Tools[BulkTool].properties = {"project_id", "version_id", "measures"}
      /\ Tools[BulkTool].required = {"project_id", "version_id", "measures"}
      /\ IsScalar(Tools[BulkTool].properties["project_id"])
      /\ IsScalar(Tools[BulkTool].properties["version_id"])
      /\ Tools[BulkTool].properties["measures"] = Rows
  BY <1>1 DEF Tools, BulkTool, Rows, IsScalar
<1>6. /\ DOMAIN Tools[WriteTool].properties =
            {"project_id", "version_id", "mode", "measure_id"} \cup DOMAIN MeasureFields
      /\ Tools[WriteTool].required = {"project_id", "version_id"}
      /\ Tools[WriteTool].properties["id"] = Of("string")
  BY <1>2, MeasuresAreFlat DEF Tools, WriteTool
<1>7. \A name \in DOMAIN Tools[WriteTool].properties :
         IsScalar(Tools[WriteTool].properties[name])
  BY <1>1, <1>2 DEF Tools, WriteTool, IsScalar
<1>8. BulkTool # WriteTool /\ "df_get_measures" \notin {BulkTool, WriteTool}
  BY DEF BulkTool, WriteTool
<1>9. QED  BY <1>3, <1>4, <1>5, <1>6, <1>7, <1>8

LEMMA ArgumentsAreSettled ==
    ASSUME NEW tool \in DOMAIN Tools, NEW name \in DOMAIN Tools[tool].properties, NEW v,
           Coerce(Tools[tool].properties[name], v) # Invalid
    PROVE  LET schema == Tools[tool].properties[name] IN
           /\ HasType(schema, Coerce(schema, v))
           /\ Coerce(schema, v) # Null
           /\ Coerce(schema, Coerce(schema, v)) = Coerce(schema, v)
           /\ IsArgument(v) => IsArgument(Coerce(schema, v))
           /\ IsArgument(v) /\ Conforms(schema, v) => Coerce(schema, v) = v
<1> DEFINE schema == Tools[tool].properties[name]
<1>1. CASE IsScalar(schema)
  <2>1. /\ Coerce(schema, v) = Scalar(schema, v)
        /\ Coerce(schema, Scalar(schema, v)) = Scalar(schema, Scalar(schema, v))
        /\ Conforms(schema, v) <=> HasType(schema, v)
    BY <1>1, ScalarsHaveNoLevel
  <2>2. /\ HasType(schema, Scalar(schema, v)) /\ Scalar(schema, v) # Null
        /\ Scalar(schema, Scalar(schema, v)) = Scalar(schema, v)
        /\ Scalar(schema, v)[1] \in {"int", "bool", "str"}
        /\ IsValue(v) => IsValue(Scalar(schema, v))
    BY <1>1, <2>1, ScalarsHaveTheirType, ScalarsAreNotNull
  <2>3. IsArgument(v) => IsArgument(Scalar(schema, v))
    BY <2>2 DEF IsArgument
  <2>4. IsArgument(v) /\ HasType(schema, v) => Scalar(schema, v) = v
    BY <1>1, ScalarsThatFitAreKept DEF IsArgument
  <2>5. QED  BY <2>1, <2>2, <2>3, <2>4
<1>2. CASE schema = Rows
  <2>1. /\ HasType(schema, Coerce(schema, v))
        /\ Coerce(schema, Coerce(schema, v)) = Coerce(schema, v)
        /\ IsArgument(v) => IsArgument(Coerce(schema, v))
        /\ IsArgument(v) /\ Conforms(schema, v) => Coerce(schema, v) = v
    BY <1>2, MeasuresAreFlat, ListsAreSettled DEF Rows
  <2>2. Coerce(schema, v) # Null
    BY <1>2, <2>1, SchemaFields, PythonTypes, NullIsValid DEF HasType, Rows
  <2>3. QED  BY <2>1, <2>2
<1>3. QED  BY <1>1, <1>2, TheTools

(* A check that objects to nothing, and one that names what it objects to. *)
LEMMA FaultsName ==
    ASSUME NEW tool, NEW args, NEW name
    PROVE  /\ Fault(<<name>>, "missing_field") \in Faults(tool, args)
                 <=> name \in tool.required /\ ~Given(args, name)
           /\ Fault(<<name>>, "unknown_field") \in Faults(tool, args)
                 <=> name \in DOMAIN args \ DOMAIN tool.properties
           /\ Fault(<<name>>, "invalid_value") \in Faults(tool, args)
                 <=> /\ name \in DOMAIN args \cap DOMAIN tool.properties
                     /\ args[name] # Null
                     /\ Coerce(tool.properties[name], args[name]) = Invalid
<1>1. ASSUME NEW S, NEW code
      PROVE  Fault(<<name>>, code) \in {Fault(<<n>>, code) : n \in S} <=> name \in S
  <2>1. \A n : Fault(<<name>>, code) = Fault(<<n>>, code) => n = name
    BY DEF Fault
  <2>2. QED  BY <2>1
<1>2. \A f \in Lacking(tool, args) : f.code = "missing_field"
  BY DEF Lacking, Fault
<1>3. \A f \in Unknown(tool, args) : f.code = "unknown_field"
  BY DEF Unknown, Fault
<1>4. \A f \in Unfit(tool, args) : f.code = "invalid_value"
  BY DEF Unfit, Fault
<1>5. \A c : Fault(<<name>>, c).code = c
  BY DEF Fault
<1>6. Fault(<<name>>, "missing_field") \in Lacking(tool, args)
         <=> name \in tool.required /\ ~Given(args, name)
  <2> DEFINE S == {n \in tool.required : ~Given(args, n)}
  <2>1. Lacking(tool, args) = {Fault(<<n>>, "missing_field") : n \in S}
    BY DEF Lacking
  <2>2. name \in S <=> name \in tool.required /\ ~Given(args, name)
    OBVIOUS
  <2> HIDE DEF S
  <2>3. QED  BY <1>1, <2>1, <2>2
<1>7. Fault(<<name>>, "unknown_field") \in Unknown(tool, args)
         <=> name \in DOMAIN args \ DOMAIN tool.properties
  BY <1>1 DEF Unknown
<1>8. Fault(<<name>>, "invalid_value") \in Unfit(tool, args)
         <=> /\ name \in DOMAIN args \cap DOMAIN tool.properties
             /\ args[name] # Null
             /\ Coerce(tool.properties[name], args[name]) = Invalid
  <2> DEFINE S == {n \in DOMAIN args \cap DOMAIN tool.properties :
                      /\ args[n] # Null
                      /\ Coerce(tool.properties[n], args[n]) = Invalid}
  <2>1. Unfit(tool, args) = {Fault(<<n>>, "invalid_value") : n \in S}
    BY DEF Unfit
  <2>2. name \in S <=> /\ name \in DOMAIN args \cap DOMAIN tool.properties
                       /\ args[name] # Null
                       /\ Coerce(tool.properties[name], args[name]) = Invalid
    OBVIOUS
  <2> HIDE DEF S
  <2>3. QED  BY <1>1, <2>1, <2>2
<1>9. QED  BY <1>2, <1>3, <1>4, <1>5, <1>6, <1>7, <1>8 DEF Faults

LEMMA FaultlessArguments ==
    ASSUME NEW tool, NEW args
    PROVE  Faults(tool, args) = {} <=>
             /\ \A name \in tool.required : Given(args, name)
             /\ DOMAIN args \subseteq DOMAIN tool.properties
             /\ \A name \in DOMAIN args \cap DOMAIN tool.properties : args[name] # Null =>
                   Coerce(tool.properties[name], args[name]) # Invalid
BY DEF Faults, Lacking, Unknown, Unfit

AreArguments(args) == \A name \in DOMAIN args : IsArgument(args[name])

LEMMA PreparedIsLetIn ==
    ASSUME NEW tool \in DOMAIN Tools, NEW args, AreArguments(args),
           Faults(Tools[tool], args) = {}
    PROVE  /\ LetIn(Tools[tool].properties, args, Prepared(Tools[tool], args))
           /\ AreArguments(Prepared(Tools[tool], args))
           /\ Faults(Tools[tool], Prepared(Tools[tool], args)) = {}
           /\ Prepared(Tools[tool], Prepared(Tools[tool], args)) = Prepared(Tools[tool], args)
           /\ \A name \in DOMAIN args : Prepared(Tools[tool], args)[name] # Invalid
<1> DEFINE properties == Tools[tool].properties
<1> DEFINE prepared == Prepared(Tools[tool], args)
<1>1. /\ \A name \in Tools[tool].required : name \in DOMAIN args /\ args[name] # Null
      /\ DOMAIN args \subseteq DOMAIN properties
      /\ \A name \in DOMAIN args :
            args[name] # Null => Coerce(properties[name], args[name]) # Invalid
  BY FaultlessArguments DEF Given
<1>2. /\ DOMAIN prepared = DOMAIN args
      /\ \A name \in DOMAIN args : prepared[name] =
            IF args[name] = Null THEN Null ELSE Coerce(properties[name], args[name])
      /\ prepared = [name \in DOMAIN prepared |-> prepared[name]]
  BY DEF Prepared
<1>3. ASSUME NEW name \in DOMAIN args, args[name] # Null
      PROVE  /\ HasType(properties[name], prepared[name])
             /\ prepared[name] # Null /\ prepared[name] # Invalid
             /\ Coerce(properties[name], prepared[name]) = prepared[name]
             /\ IsArgument(prepared[name])
             /\ Conforms(properties[name], args[name]) => prepared[name] = args[name]
  BY <1>1, <1>2, <1>3, ArgumentsAreSettled DEF AreArguments
<1>4. LetIn(properties, args, prepared)
  BY <1>2, <1>3 DEF LetIn
<1>5. AreArguments(prepared)
  BY <1>2, <1>3 DEF AreArguments
<1>6. Faults(Tools[tool], prepared) = {}
  <2>1. \A name \in Tools[tool].required : Given(prepared, name)
    BY <1>1, <1>2, <1>3 DEF Given
  <2>2. \A name \in DOMAIN prepared : prepared[name] # Null =>
           Coerce(properties[name], prepared[name]) # Invalid
    BY <1>2, <1>3
  <2>3. QED  BY <1>1, <1>2, <2>1, <2>2, FaultlessArguments
<1>7. Prepared(Tools[tool], prepared) = prepared
  <2>1. \A name \in DOMAIN prepared : prepared[name] # Null =>
           Coerce(properties[name], prepared[name]) = prepared[name]
    BY <1>2, <1>3
  <2>2. QED  BY <1>2, <2>1 DEF Prepared
<1>8. \A name \in DOMAIN args : prepared[name] # Invalid
  BY <1>2, <1>3, NullIsValid
<1>9. QED  BY <1>4, <1>5, <1>6, <1>7, <1>8

-----------------------------------------------------------------------------
(* What the agent puts in place of what was named.                         *)
LEMMA GoodIsGood ==
    ASSUME NEW tool \in DOMAIN Tools, NEW name \in DOMAIN Tools[tool].properties
    PROVE  /\ name \in DOMAIN Good /\ IsArgument(Good[name]) /\ Good[name] # Null
           /\ Coerce(Tools[tool].properties[name], Good[name]) # Invalid
           /\ Coerce(Tools[tool].properties[name], Good[name]) = Good[name]
<1> DEFINE schema == Tools[tool].properties[name]
<1>1. /\ name \in DOMAIN Good /\ IsArgument(Good[name]) /\ Conforms(schema, Good[name])
      /\ HasType(schema, Good[name]) /\ IsValue(Good[name])
  BY GoodAssumption DEF Conforms, ConformsWith, IsArgument
<1>2. Coerce(schema, Good[name]) # Invalid /\ Good[name] # Null
  <2>1. CASE IsScalar(schema)
    BY <1>1, <2>1, ScalarsHaveNoLevel, ScalarsThatFitAreKept, ScalarsAreNotNull
  <2>2. CASE schema = Rows
    <3>1. Good[name][1] = "list"
      BY <1>1, <2>2, SchemaFields, PythonTypes DEF HasType, Rows
    <3>2. Coerce(schema, Good[name]) = ListV(Items(MeasureFields, Good[name][2]))
      BY <2>2, <3>1, MeasuresAreFlat, ListsOfObjects DEF Rows
    <3>3. Coerce(schema, Good[name])[1] = "list"
      BY <3>2, PairsAreValues DEF ListV
    <3>4. QED  BY <3>1, <3>3, NullIsValid
  <2>3. QED  BY <2>1, <2>2, TheTools
<1>3. QED  BY <1>1, <1>2, ArgumentsAreSettled

LEMMA GoodMeasure ==
    /\ Good.measures[1] = "list" /\ 1 \in DOMAIN Good.measures[2]
    /\ IsItem(Good.measures[2][1]) /\ Good.measures[2][1][1] = "dict"
    /\ DOMAIN Good.measures[2][1][2] = DOMAIN MeasureFields
    /\ \A name \in DOMAIN MeasureFields :
          /\ IsValue(Good.measures[2][1][2][name])
          /\ HasType(MeasureFields[name], Good.measures[2][1][2][name])
<1>1. /\ IsArgument(Good.measures) /\ Conforms(Rows, Good.measures)
      /\ 1 \in DOMAIN Good.measures[2]
  BY GoodAssumption, TheTools
<1>2. Good.measures[1] = "list" /\ IsItem(Good.measures[2][1])
      /\ ConformsItem(ObjectOf(MeasureFields), Good.measures[2][1])
  BY <1>1, SchemaFields, PythonTypes DEF Conforms, ConformsWith, HasType, IsArgument, Rows
<1>3. Good.measures[2][1][1] = "dict"
  BY <1>2, SchemaFields, PythonTypes DEF ConformsItem, ConformsWith, HasType
<1>4. DOMAIN Good.measures[2][1][2] \subseteq DOMAIN MeasureFields
  <2>1. Good.measures[2] # <<>>
    BY <1>1
  <2>2. MemberFaults(1, Good.measures[2][1][2]) = {}
    BY <1>1, <1>3, <2>1, GoodAssumption DEF BodyFaults
  <2>3. QED  BY <2>2 DEF MemberFaults
<1>5. QED  BY <1>1, <1>2, <1>3, <1>4, GoodAssumption DEF IsItem

LEMMA FaultsDiffer ==
    ASSUME NEW a, NEW b, NEW c, NEW d, NEW e, NEW f
    PROVE  /\ Fault(a, b).field = a /\ Fault(a, b).code = b
           /\ <<a>> # <<b, c>> /\ <<a>> # <<b, c, d>> /\ <<a, b>> # <<c, d, e>>
           /\ <<a, b>> = <<c, d>> => b = d
           /\ <<a, b, c>> = <<d, e, f>> => b = e /\ c = f
BY DEF Fault

(* The first check names whole arguments, not what is in them.             *)
LEMMA ArgumentsStay ==
    ASSUME NEW tool, NEW args, NEW name, NEW v, IsArgument(v)
    PROVE  RepairedArgument(name, v, Faults(tool, args)) = v
<1> DEFINE fields == Faults(tool, args)
<1>1. \A f \in fields : \E n : f.field = <<n>>
  <2>1. \A n, c : Fault(<<n>>, c).field = <<n>>
    BY DEF Fault
  <2>2. \A f \in Lacking(tool, args) : \E n : f.field = <<n>>
    BY <2>1 DEF Lacking
  <2>3. \A f \in Unknown(tool, args) : \E n : f.field = <<n>>
    BY <2>1 DEF Unknown
  <2>4. \A f \in Unfit(tool, args) : \E n : f.field = <<n>>
    BY <2>1 DEF Unfit
  <2>5. QED  BY <2>2, <2>3, <2>4 DEF Faults
<1>2. \A i, n, c : Fault(<<"measures", i>>, c) \notin fields
                     /\ Fault(<<"measures", i, n>>, c) \notin fields
  BY <1>1, FaultsDiffer
<1>3. ASSUME NEW i, NEW item, IsItem(item)
      PROVE  RepairedItem(i, item, fields) = item
  <2>1. CASE item[1] # "dict"
    BY <1>2, <2>1 DEF RepairedItem
  <2>2. CASE item[1] = "dict"
    <3>1. item = <<"dict", item[2]>> /\ item[2] = [n \in DOMAIN item[2] |-> item[2][n]]
      BY <2>2, <1>3 DEF IsItem, IsValue, IsFilled
    <3>2. RepairedItem(i, item, fields) = DictV([n \in DOMAIN item[2] |-> item[2][n]])
      BY <1>2, <2>2 DEF RepairedItem
    <3>3. QED  BY <3>1, <3>2 DEF DictV
  <2>3. QED  BY <2>1, <2>2
<1>4. CASE name = "measures" /\ v[1] = "list"
  <2>1. v = <<"list", v[2]>> /\ v[2] = [i \in DOMAIN v[2] |-> v[2][i]]
    BY <1>4 DEF IsArgument, IsValue, IsFilled
  <2>2. \A i \in DOMAIN v[2] : RepairedItem(i, v[2][i], fields) = v[2][i]
    BY <1>3, <1>4 DEF IsArgument
  <2>3. QED  BY <1>4, <2>1, <2>2 DEF RepairedArgument, ListV
<1>5. QED  BY <1>4 DEF RepairedArgument

LEMMA RepairedArgumentsPass ==
    ASSUME NEW tool \in DOMAIN Tools, NEW args, AreArguments(args),
           NEW code, code # "id_mismatch"
    PROVE  LET repaired == Repaired(args, code, Faults(Tools[tool], args)) IN
           AreArguments(repaired) /\ Faults(Tools[tool], repaired) = {}
<1> DEFINE properties == Tools[tool].properties
<1> DEFINE required == Tools[tool].required
<1> DEFINE fields == Faults(Tools[tool], args)
<1> DEFINE repaired == Repaired(args, code, fields)
<1> DEFINE bad == {name \in DOMAIN Good : \E fault \in {"missing_field", "invalid_value"} :
                      Fault(<<name>>, fault) \in fields}
<1> DEFINE unknown == {name \in DOMAIN args : Fault(<<name>>, "unknown_field") \in fields}
<1>1. required \subseteq DOMAIN properties
  BY TheTools
<1>2. \A name \in DOMAIN properties :
        /\ name \in DOMAIN Good /\ IsArgument(Good[name]) /\ Good[name] # Null
        /\ Coerce(properties[name], Good[name]) # Invalid
  BY GoodIsGood
<1>3. unknown = DOMAIN args \ DOMAIN properties
  BY FaultsName
<1>4. /\ bad \subseteq DOMAIN properties
      /\ \A name \in required : name \in bad \/ Given(args, name)
      /\ \A name \in DOMAIN args \cap DOMAIN properties :
            \/ name \in bad
            \/ args[name] = Null
            \/ Coerce(properties[name], args[name]) # Invalid
  BY <1>1, <1>2, FaultsName
<1>5. /\ DOMAIN repaired = (DOMAIN args \ unknown) \cup bad
      /\ \A name \in DOMAIN repaired :
            repaired[name] = IF name \in bad THEN Good[name] ELSE args[name]
  <2>1. repaired = [name \in (DOMAIN args \ unknown) \cup bad |->
                      IF name \in bad THEN Good[name]
                      ELSE RepairedArgument(name, args[name], fields)]
    BY DEF Repaired, Substitute
  <2>2. \A name \in DOMAIN args : RepairedArgument(name, args[name], fields) = args[name]
    BY ArgumentsStay DEF AreArguments
  <2> HIDE DEF bad, unknown, repaired
  <2>3. QED  BY <2>1, <2>2
<1> HIDE DEF bad, unknown, repaired, fields
<1>6. AreArguments(repaired)
  BY <1>2, <1>4, <1>5 DEF AreArguments
<1>7. \A name \in required : Given(repaired, name)
  BY <1>1, <1>2, <1>3, <1>4, <1>5 DEF Given
<1>8. DOMAIN repaired \subseteq DOMAIN properties
  BY <1>3, <1>4, <1>5
<1>9. \A name \in DOMAIN repaired \cap DOMAIN properties :
         repaired[name] # Null => Coerce(properties[name], repaired[name]) # Invalid
  BY <1>2, <1>3, <1>4, <1>5
<1>10. Faults(Tools[tool], repaired) = {}
  BY <1>7, <1>8, <1>9, FaultlessArguments
<1>11. QED  BY <1>6, <1>10 DEF repaired, fields

-----------------------------------------------------------------------------
(* The second check, of the rows of a write.                               *)
RowFault(i) == Fault(<<"measures", i>>, "invalid_value")
UnknownMember(i, n) == Fault(<<"measures", i, n>>, "unknown_field")
UnfitMember(i, n) == Fault(<<"measures", i, n>>, "invalid_value")

LEMMA RowFaultsDiffer ==
    /\ \A i, j : RowFault(i) = RowFault(j) => i = j
    /\ \A i, j, m, n : UnknownMember(i, m) = UnknownMember(j, n) => i = j /\ m = n
    /\ \A i, j, m, n : UnfitMember(i, m) = UnfitMember(j, n) => i = j /\ m = n
    /\ \A i, j, m, n : UnknownMember(i, m) # UnfitMember(j, n)
    /\ \A i, j, n : RowFault(i) # UnknownMember(j, n)
    /\ \A i, j, n : RowFault(i) # UnfitMember(j, n)
    /\ \A i, m, code : Fault(<<m>>, code) # RowFault(i)
    /\ \A i, m, n, code : Fault(<<m>>, code) # UnknownMember(i, n)
    /\ \A i, m, n, code : Fault(<<m>>, code) # UnfitMember(i, n)
BY DEF Fault, RowFault, UnknownMember, UnfitMember

UnknownIn(rows, i, n) ==
    rows[i][1] = "dict" /\ n \in DOMAIN rows[i][2] \ DOMAIN MeasureFields
UnfitIn(rows, i, n) ==
    /\ rows[i][1] = "dict" /\ n \in DOMAIN rows[i][2] \cap DOMAIN MeasureFields
    /\ rows[i][2][n] # Null /\ ~HasType(MeasureFields[n], rows[i][2][n])

LEMMA BodyFaultsAre ==
    ASSUME NEW rows, rows # <<>>, NEW f
    PROVE  f \in BodyFaults(rows) <=> \E i \in DOMAIN rows :
              \/ rows[i][1] # "dict" /\ f = RowFault(i)
              \/ \E n : UnknownIn(rows, i, n) /\ f = UnknownMember(i, n)
              \/ \E n : UnfitIn(rows, i, n) /\ f = UnfitMember(i, n)
<1> DEFINE FaultsOf(i) == IF rows[i][1] = "dict" THEN MemberFaults(i, rows[i][2])
                          ELSE {Fault(<<"measures", i>>, "invalid_value")}
<1>1. f \in BodyFaults(rows) <=> \E i \in DOMAIN rows : f \in FaultsOf(i)
  BY DEF BodyFaults
<1>2. ASSUME NEW i \in DOMAIN rows
      PROVE  f \in FaultsOf(i) <=>
              \/ rows[i][1] # "dict" /\ f = RowFault(i)
              \/ \E n : UnknownIn(rows, i, n) /\ f = UnknownMember(i, n)
              \/ \E n : UnfitIn(rows, i, n) /\ f = UnfitMember(i, n)
  <2>1. CASE rows[i][1] = "dict"
    BY <2>1 DEF MemberFaults, UnknownIn, UnfitIn, UnknownMember, UnfitMember
  <2>2. CASE rows[i][1] # "dict"
    BY <2>2 DEF RowFault, UnknownIn, UnfitIn
  <2>3. QED  BY <2>1, <2>2
<1> HIDE DEF FaultsOf
<1>3. QED  BY <1>1, <1>2

LEMMA BodyFaultsName ==
    ASSUME NEW rows, rows # <<>>, NEW i, NEW n
    PROVE  /\ \A m, code : Fault(<<m>>, code) \notin BodyFaults(rows)
           /\ RowFault(i) \in BodyFaults(rows) <=> i \in DOMAIN rows /\ rows[i][1] # "dict"
           /\ UnknownMember(i, n) \in BodyFaults(rows)
                 <=> i \in DOMAIN rows /\ UnknownIn(rows, i, n)
           /\ UnfitMember(i, n) \in BodyFaults(rows)
                 <=> i \in DOMAIN rows /\ UnfitIn(rows, i, n)
<1>0. \A f : f \in BodyFaults(rows) <=> \E j \in DOMAIN rows :
              \/ rows[j][1] # "dict" /\ f = RowFault(j)
              \/ \E m : UnknownIn(rows, j, m) /\ f = UnknownMember(j, m)
              \/ \E m : UnfitIn(rows, j, m) /\ f = UnfitMember(j, m)
  BY BodyFaultsAre
<1>1. ASSUME NEW m, NEW code PROVE Fault(<<m>>, code) \notin BodyFaults(rows)
  <2>1. PICK f : f = Fault(<<m>>, code)
    OBVIOUS
  <2>2. \A j, k : f # RowFault(j) /\ f # UnknownMember(j, k) /\ f # UnfitMember(j, k)
    BY <2>1, RowFaultsDiffer
  <2>3. QED  BY ONLY <2>1, <2>2, <1>0
<1>2. RowFault(i) \in BodyFaults(rows) <=> i \in DOMAIN rows /\ rows[i][1] # "dict"
  <2>1. PICK f : f = RowFault(i)
    OBVIOUS
  <2>2. \A j, k : /\ f = RowFault(j) => i = j
                  /\ f # UnknownMember(j, k) /\ f # UnfitMember(j, k)
    BY <2>1, RowFaultsDiffer
  <2>3. QED  BY ONLY <2>1, <2>2, <1>0
<1>3. UnknownMember(i, n) \in BodyFaults(rows) <=> i \in DOMAIN rows /\ UnknownIn(rows, i, n)
  <2>1. PICK f : f = UnknownMember(i, n)
    OBVIOUS
  <2>2. \A j, k : /\ f = UnknownMember(j, k) => i = j /\ n = k
                  /\ f # RowFault(j) /\ f # UnfitMember(j, k)
    BY <2>1, RowFaultsDiffer
  <2>3. QED  BY ONLY <2>1, <2>2, <1>0
<1>4. UnfitMember(i, n) \in BodyFaults(rows) <=> i \in DOMAIN rows /\ UnfitIn(rows, i, n)
  <2>1. PICK f : f = UnfitMember(i, n)
    OBVIOUS
  <2>2. \A j, k : /\ f = UnfitMember(j, k) => i = j /\ n = k
                  /\ f # RowFault(j) /\ f # UnknownMember(j, k)
    BY <2>1, RowFaultsDiffer
  <2>3. QED  BY ONLY <2>1, <2>2, <1>0
<1>5. QED  BY <1>1, <1>2, <1>3, <1>4

(* Arguments that pass still do when other rows take the place of theirs.  *)
LEMMA OtherRowsPass ==
    ASSUME NEW args, AreArguments(args), Faults(Tools[BulkTool], args) = {},
           NEW rows, IsArgument(rows), rows[1] = "list", NEW others,
           others = [name \in DOMAIN args |-> IF name = "measures" THEN rows ELSE args[name]]
    PROVE  /\ "measures" \in DOMAIN args /\ args.measures[1] = "list"
           /\ AreArguments(others) /\ Faults(Tools[BulkTool], others) = {}
           /\ Prepared(Tools[BulkTool], others).measures = ListV(Items(MeasureFields, rows[2]))
           /\ Prepared(Tools[BulkTool], args) = args =>
                 (ListV(Items(MeasureFields, rows[2])) = rows =>
                    Prepared(Tools[BulkTool], others) = others)
<1> DEFINE tool == Tools[BulkTool]
<1>1. /\ "measures" \in tool.required /\ tool.properties["measures"] = Rows
      /\ tool.required \subseteq DOMAIN tool.properties
  BY TheTools
<1>2. /\ \A name \in tool.required : Given(args, name)
      /\ DOMAIN args \subseteq DOMAIN tool.properties
      /\ \A name \in DOMAIN args \cap DOMAIN tool.properties : args[name] # Null =>
            Coerce(tool.properties[name], args[name]) # Invalid
  BY FaultlessArguments
<1>3. \A v : Coerce(Rows, v) = IF v[1] # "list" THEN Invalid
                                 ELSE ListV(Items(MeasureFields, v[2]))
  BY ListsOfObjects, MeasuresAreFlat DEF Rows
<1>4. /\ rows # Null
      /\ Coerce(Rows, rows) = ListV(Items(MeasureFields, rows[2]))
      /\ Coerce(Rows, rows) # Invalid
  BY <1>3, NullIsValid, PairsAreValues DEF ListV
<1>5. "measures" \in DOMAIN args /\ args.measures[1] = "list"
  BY <1>1, <1>2, <1>3 DEF Given
<1>6. AreArguments(others)
  BY DEF AreArguments
<1>7. Faults(tool, others) = {}
  <2>1. \A name \in tool.required : Given(others, name)
    BY <1>2, <1>4 DEF Given
  <2>2. \A name \in DOMAIN others \cap DOMAIN tool.properties : others[name] # Null =>
           Coerce(tool.properties[name], others[name]) # Invalid
    BY <1>1, <1>2, <1>4
  <2>3. QED  BY <1>2, <2>1, <2>2, FaultlessArguments
<1>8. Prepared(tool, others).measures = ListV(Items(MeasureFields, rows[2]))
  BY <1>1, <1>4, <1>5 DEF Prepared
<1>9. ASSUME Prepared(tool, args) = args, ListV(Items(MeasureFields, rows[2])) = rows
      PROVE  Prepared(tool, others) = others
  <2>1. \A name \in DOMAIN args :
           args[name] = Null \/ Coerce(tool.properties[name], args[name]) = args[name]
    BY <1>9 DEF Prepared
  <2>2. \A name \in DOMAIN others :
           others[name] = Null \/ Coerce(tool.properties[name], others[name]) = others[name]
    BY <1>1, <1>4, <1>9, <2>1
  <2>3. QED  BY <2>2 DEF Prepared
<1>10. QED  BY <1>5, <1>6, <1>7, <1>8, <1>9

(* A row mended as the body check asks.                                    *)
LEMMA MendedRows ==
    ASSUME NEW rows, rows # <<>>, NEW i \in DOMAIN rows, IsItem(rows[i])
    PROVE  LET mended == RepairedItem(i, rows[i], BodyFaults(rows)) IN
           /\ IsItem(mended) /\ mended[1] = "dict"
           /\ Item(MeasureFields, mended) = mended
           /\ DOMAIN mended[2] \subseteq DOMAIN MeasureFields
           /\ \A n \in DOMAIN mended[2] :
                 mended[2][n] = Null \/ HasType(MeasureFields[n], mended[2][n])
<1> DEFINE fields == BodyFaults(rows)
<1> DEFINE mended == RepairedItem(i, rows[i], fields)
<1>1. \A n : /\ RowFault(i) \in fields <=> rows[i][1] # "dict"
             /\ UnknownMember(i, n) \in fields <=> UnknownIn(rows, i, n)
             /\ UnfitMember(i, n) \in fields <=> UnfitIn(rows, i, n)
  BY BodyFaultsName
<1>2. /\ IsItem(mended) /\ mended[1] = "dict"
      /\ DOMAIN mended[2] \subseteq DOMAIN MeasureFields
      /\ \A n \in DOMAIN mended[2] :
            mended[2][n] = Null \/ HasType(MeasureFields[n], mended[2][n])
  <2>1. CASE rows[i][1] # "dict"
    <3>1. mended = Good.measures[2][1]
      BY <1>1, <2>1 DEF RepairedItem, RowFault
    <3>2. QED  BY <3>1, GoodMeasure
  <2>2. CASE rows[i][1] = "dict"
    <3> DEFINE members == rows[i][2]
    <3> DEFINE kept == [n \in {m \in DOMAIN members : UnknownMember(i, m) \notin fields} |->
                          IF n \in DOMAIN MeasureFields /\ UnfitMember(i, n) \in fields
                          THEN Good.measures[2][1][2][n] ELSE members[n]]
    <3>1. mended = DictV(kept)
      BY <1>1, <2>2 DEF RepairedItem, RowFault, UnknownMember, UnfitMember
    <3>2. /\ mended[1] = "dict" /\ mended[2] = kept /\ IsValue(mended)
      BY <3>1, PairsAreValues DEF DictV
    <3>3. /\ DOMAIN kept = DOMAIN members \cap DOMAIN MeasureFields
          /\ \A n \in DOMAIN kept : kept[n] = IF UnfitMember(i, n) \in fields
                                              THEN Good.measures[2][1][2][n] ELSE members[n]
          /\ IsFilled(kept)
      BY <1>1, <2>2 DEF UnknownIn, UnfitIn, IsFilled
    <3>4. \A n \in DOMAIN kept : IsValue(kept[n])
      BY <2>2, <3>3, GoodMeasure DEF IsItem
    <3>5. \A n \in DOMAIN kept : kept[n] = Null \/ HasType(MeasureFields[n], kept[n])
      BY <1>1, <2>2, <3>3, GoodMeasure DEF UnfitIn
    <3> HIDE DEF kept, mended
    <3>6. QED  BY <3>2, <3>3, <3>4, <3>5 DEF IsItem
  <2>3. QED  BY <2>1, <2>2
<1> HIDE DEF mended
<1>3. ConformsItem(ObjectOf(MeasureFields), mended)
  <2>1. \A n \in DOMAIN MeasureFields : \A v :
           ConformsMember(MeasureFields[n], v) <=> HasType(MeasureFields[n], v)
    BY MeasuresAreFlat, ScalarsHaveNoLevel DEF Flat
  <2>2. QED
    BY <1>2, <2>1, SchemaFields, PythonTypes, SMTT(30) DEF ConformsItem, ConformsWith, HasType
<1>4. Item(MeasureFields, mended) = mended
  BY <1>2, <1>3, MeasuresAreFlat, ObjectsAreSettled
<1>5. QED  BY <1>2, <1>4 DEF mended

LEMMA RepairedBodyPasses ==
    ASSUME NEW args, AreArguments(args), Faults(Tools[BulkTool], args) = {},
           Prepared(Tools[BulkTool], args) = args, BodyFaults(args.measures[2]) # {},
           NEW code, code # "id_mismatch"
    PROVE  LET repaired == Repaired(args, code, BodyFaults(args.measures[2])) IN
           /\ AreArguments(repaired) /\ Faults(Tools[BulkTool], repaired) = {}
           /\ Prepared(Tools[BulkTool], repaired) = repaired
           /\ BodyFaults(repaired.measures[2]) = {}
<1> DEFINE rows == args.measures[2]
<1> DEFINE fields == BodyFaults(rows)
<1> DEFINE repaired == Repaired(args, code, fields)
<1> DEFINE bad == {name \in DOMAIN Good : \E fault \in {"missing_field", "invalid_value"} :
                      Fault(<<name>>, fault) \in fields}
<1> DEFINE unknown == {name \in DOMAIN args : Fault(<<name>>, "unknown_field") \in fields}
<1>1. /\ "measures" \in DOMAIN args /\ args.measures[1] = "list" /\ IsArgument(args.measures)
  <2>1. /\ Good.measures[1] = "list" /\ IsArgument(Good.measures)
    BY GoodMeasure, GoodAssumption, TheTools
  <2>2. QED  BY <2>1, OtherRowsPass DEF AreArguments
<1>2. IsFilled(rows) /\ \A i \in DOMAIN rows : IsItem(rows[i])
  BY <1>1 DEF IsArgument
<1>3. repaired = [name \in (DOMAIN args \ unknown) \cup bad |->
                    IF name \in bad THEN Good[name]
                    ELSE RepairedArgument(name, args[name], fields)]
  BY DEF Repaired, Substitute
<1>4. CASE rows = <<>>
  <2>1. fields = {Fault(<<"measures">>, "invalid_value")}
    BY <1>4 DEF BodyFaults
  <2>2. bad = {"measures"} /\ unknown = {}
    <3>1. "measures" \in DOMAIN Good
      BY TheTools, GoodIsGood
    <3>2. \A name, c : Fault(<<name>>, c) = Fault(<<"measures">>, "invalid_value")
             => name = "measures" /\ c = "invalid_value"
      BY DEF Fault
    <3>3. QED  BY <2>1, <3>1, <3>2
  <2> HIDE DEF bad, unknown, repaired
  <2>3. repaired = [name \in DOMAIN args |->
                      IF name = "measures" THEN Good.measures ELSE args[name]]
    BY <1>1, <1>3, <2>2 DEF RepairedArgument
  <2>4. /\ Good.measures[1] = "list" /\ IsArgument(Good.measures)
        /\ Coerce(Rows, Good.measures) = Good.measures
    BY GoodMeasure, GoodIsGood, TheTools
  <2>5. ListV(Items(MeasureFields, Good.measures[2])) = Good.measures
    BY <2>4, ListsOfObjects, MeasuresAreFlat DEF Rows
  <2>6. repaired.measures = Good.measures
    BY <1>1, <2>3
  <2>7. /\ AreArguments(repaired) /\ Faults(Tools[BulkTool], repaired) = {}
        /\ Prepared(Tools[BulkTool], repaired) = repaired
    BY <2>3, <2>4, <2>5, OtherRowsPass
  <2>8. BodyFaults(repaired.measures[2]) = {}
    BY <2>6, GoodAssumption
  <2>9. QED  BY <2>7, <2>8 DEF repaired
<1>5. CASE rows # <<>>
  <2>1. bad = {} /\ unknown = {}
    BY <1>5, BodyFaultsName
  <2> DEFINE mended == [i \in DOMAIN rows |-> RepairedItem(i, rows[i], fields)]
  <2> HIDE DEF bad, unknown, repaired
  <2>2. repaired = [name \in DOMAIN args |->
                      IF name = "measures" THEN ListV(mended) ELSE args[name]]
    BY <1>1, <1>3, <2>1 DEF RepairedArgument
  <2>3. /\ DOMAIN mended = DOMAIN rows /\ IsFilled(mended)
        /\ \A i \in DOMAIN rows : mended[i] = RepairedItem(i, rows[i], fields)
    BY DEF IsFilled
  <2> HIDE DEF mended
  <2>4. \A i \in DOMAIN rows :
           /\ IsItem(mended[i]) /\ mended[i][1] = "dict"
           /\ Item(MeasureFields, mended[i]) = mended[i]
           /\ DOMAIN mended[i][2] \subseteq DOMAIN MeasureFields
           /\ \A n \in DOMAIN mended[i][2] :
                 mended[i][2][n] = Null \/ HasType(MeasureFields[n], mended[i][2][n])
    BY <1>2, <1>5, <2>3, MendedRows
  <2>5. ListV(mended)[1] = "list" /\ ListV(mended)[2] = mended /\ IsArgument(ListV(mended))
    BY <2>3, <2>4, PairsAreValues DEF ListV, IsArgument
  <2>6. Items(MeasureFields, mended) = mended
    BY <2>3, <2>4 DEF Items, IsFilled
  <2>7. BodyFaults(mended) = {}
    <3>1. mended # <<>>
      <4>1. DOMAIN rows # {}
        BY <1>5 DEF BodyFaults
      <4>2. QED  BY <4>1, <2>3
    <3>2. \A i \in DOMAIN mended : \A n : ~UnknownIn(mended, i, n) /\ ~UnfitIn(mended, i, n)
      BY <2>3, <2>4 DEF UnknownIn, UnfitIn
    <3>3. \A f : f \notin BodyFaults(mended)
      BY <3>1, <3>2, <2>3, <2>4, BodyFaultsAre
    <3>4. QED  BY <3>3
  <2>8. QED  BY <2>2, <2>5, <2>6, <2>7, OtherRowsPass DEF repaired
<1>6. QED  BY <1>4, <1>5

-----------------------------------------------------------------------------
(* The checks of a write with a mode.                                      *)
LEMMA SettledArguments ==
    ASSUME NEW tool, NEW args
    PROVE  Prepared(tool, args) = args <=>
             /\ IsFilled(args)
             /\ \A name \in DOMAIN args :
                   \/ args[name] = Null
                   \/ Coerce(tool.properties[name], args[name]) = args[name]
<1>1. /\ DOMAIN Prepared(tool, args) = DOMAIN args
      /\ \A name \in DOMAIN args : Prepared(tool, args)[name] =
            IF args[name] = Null THEN Null ELSE Coerce(tool.properties[name], args[name])
      /\ IsFilled(Prepared(tool, args))
  BY DEF Prepared, IsFilled
<1>2. ASSUME IsFilled(args),
             \A name \in DOMAIN args :
                \/ args[name] = Null
                \/ Coerce(tool.properties[name], args[name]) = args[name]
      PROVE  Prepared(tool, args) = args
  <2>1. \A name \in DOMAIN args : Prepared(tool, args)[name] = args[name]
    BY <1>1, <1>2
  <2>2. QED  BY <1>1, <1>2, <2>1 DEF IsFilled
<1>3. ASSUME Prepared(tool, args) = args
      PROVE  /\ IsFilled(args)
             /\ \A name \in DOMAIN args :
                   \/ args[name] = Null
                   \/ Coerce(tool.properties[name], args[name]) = args[name]
  BY <1>1, <1>3
<1>4. QED  BY <1>2, <1>3

LEMMA SubstitutesAreGood ==
    ASSUME NEW args, NEW code, NEW name \in DOMAIN MeasureFields
    PROVE  LET value == Substitute(args, code, name) IN
           /\ IsArgument(value) /\ value # Null /\ value # Invalid
           /\ Coerce(Tools[WriteTool].properties[name], value) = value
<1>1. name \in DOMAIN Tools[WriteTool].properties /\ WriteTool \in DOMAIN Tools
  BY TheTools
<1>2. CASE Substitute(args, code, name) = Good[name]
  BY <1>1, <1>2, GoodIsGood
<1>3. CASE name = "id" /\ Substitute(args, code, name) = StrV(args.measure_id[2])
  <2> DEFINE value == StrV(args.measure_id[2])
  <2>1. value[1] = "str" /\ IsValue(value)
    BY PairsAreValues DEF StrV
  <2>2. Of("string").type = "string" /\ Of("string").enum = {}
    BY DEF Of
  <2>3. HasType(Of("string"), value) /\ IsScalar(Of("string"))
    BY <2>1, <2>2, PythonTypes DEF HasType, IsScalar
  <2>4. Coerce(Of("string"), value) = value
    BY <2>1, <2>3, ScalarsHaveNoLevel, ScalarsThatFitAreKept
  <2>5. value # Null /\ value # Invalid /\ IsArgument(value)
    BY <2>1, NullIsValid DEF IsArgument
  <2>6. QED  BY <1>3, <2>4, <2>5, TheTools
<1>4. QED  BY <1>2, <1>3 DEF Substitute

(* Naming fields of the body brings in their substitutes, and no fault.    *)
Named(names, fault) == {Fault(<<n>>, fault) : n \in names}
Substituted(args, code, names, repaired) ==
    /\ AreArguments(repaired) /\ Faults(Tools[WriteTool], repaired) = {}
    /\ Prepared(Tools[WriteTool], repaired) = repaired
    /\ DOMAIN repaired = DOMAIN args \cup names
    /\ \A n \in names : repaired[n] = Substitute(args, code, n)
    /\ \A n \in DOMAIN args \ names : repaired[n] = args[n]

LEMMA RepairedWritePasses ==
    ASSUME NEW args, AreArguments(args), Faults(Tools[WriteTool], args) = {},
           Prepared(Tools[WriteTool], args) = args, NEW code,
           NEW names \in SUBSET DOMAIN MeasureFields,
           NEW fault \in {"missing_field", "invalid_value"}
    PROVE  Substituted(args, code, names, Repaired(args, code, Named(names, fault)))
<1> DEFINE properties == Tools[WriteTool].properties
<1> DEFINE fields == Named(names, fault)
<1> DEFINE repaired == Repaired(args, code, fields)
<1> DEFINE bad == {name \in DOMAIN Good : \E f \in {"missing_field", "invalid_value"} :
                      Fault(<<name>>, f) \in fields}
<1> DEFINE unknown == {name \in DOMAIN args : Fault(<<name>>, "unknown_field") \in fields}
<1>1. ASSUME NEW n, NEW f
      PROVE  Fault(<<n>>, f) \in fields <=> n \in names /\ f = fault
  <2>1. \A m : Fault(<<n>>, f) = Fault(<<m>>, fault) <=> n = m /\ f = fault
    BY DEF Fault
  <2>2. Fault(<<n>>, f) \in fields <=> \E m \in names : Fault(<<n>>, f) = Fault(<<m>>, fault)
    BY DEF Named
  <2>3. QED  BY <2>1, <2>2
<1>2. /\ WriteTool \in DOMAIN Tools /\ names \subseteq DOMAIN properties
      /\ \A n \in names : n \in DOMAIN Good
  <2>1. WriteTool \in DOMAIN Tools /\ names \subseteq DOMAIN properties
    BY TheTools
  <2>2. QED  BY <2>1, GoodIsGood
<1>3. bad = names /\ unknown = {}
  <2>1. unknown = {}
    BY ONLY <1>1, fault \in {"missing_field", "invalid_value"}
  <2>2. bad = names
    BY ONLY <1>1, <1>2, fault \in {"missing_field", "invalid_value"}
  <2>3. QED  BY <2>1, <2>2
<1>4. /\ DOMAIN args \subseteq DOMAIN properties /\ "measures" \notin DOMAIN args
      /\ \A name \in Tools[WriteTool].required : Given(args, name)
      /\ \A name \in DOMAIN args : args[name] # Null =>
            Coerce(properties[name], args[name]) # Invalid
  <2>1. "measures" \notin DOMAIN properties
    BY TheTools, MeasuresAreFlat
  <2>2. QED  BY <2>1, FaultlessArguments
<1>5. repaired = [name \in (DOMAIN args \ unknown) \cup bad |->
                    IF name \in bad THEN Substitute(args, code, name)
                    ELSE RepairedArgument(name, args[name], fields)]
  BY DEF Repaired
<1> HIDE DEF bad, unknown, repaired
<1>6. /\ DOMAIN repaired = DOMAIN args \cup names /\ IsFilled(repaired)
      /\ \A n \in names : repaired[n] = Substitute(args, code, n)
      /\ \A n \in DOMAIN args \ names : repaired[n] = args[n]
  BY <1>3, <1>4, <1>5 DEF RepairedArgument, IsFilled
<1>7. /\ \A n \in names : /\ IsArgument(repaired[n]) /\ repaired[n] # Null
                          /\ repaired[n] # Invalid
                          /\ Coerce(properties[n], repaired[n]) = repaired[n]
  BY <1>6, SubstitutesAreGood
<1>8. AreArguments(repaired)
  BY <1>6, <1>7 DEF AreArguments
<1>9. Faults(Tools[WriteTool], repaired) = {}
  <2>1. \A name \in Tools[WriteTool].required : Given(repaired, name)
    BY <1>4, <1>6, <1>7 DEF Given
  <2>2. \A name \in DOMAIN repaired : repaired[name] # Null =>
           Coerce(properties[name], repaired[name]) # Invalid
    BY <1>4, <1>6, <1>7
  <2>3. DOMAIN repaired \subseteq DOMAIN properties
    BY <1>2, <1>4, <1>6
  <2>4. QED  BY <2>1, <2>2, <2>3, FaultlessArguments
<1>10. Prepared(Tools[WriteTool], repaired) = repaired
  <2>1. \A name \in DOMAIN repaired :
           repaired[name] = Null \/ Coerce(properties[name], repaired[name]) = repaired[name]
    BY <1>6, <1>7, SettledArguments
  <2>2. QED  BY <1>6, <2>1, SettledArguments
<1>11. QED  BY <1>6, <1>8, <1>9, <1>10 DEF repaired, Substituted

(* So each of the two checks objects once, unless the target is missing.   *)
LEMMA RepairedModePasses ==
    ASSUME NEW args, AreArguments(args), Faults(Tools[WriteTool], args) = {},
           Prepared(Tools[WriteTool], args) = args, NEW code, code # "id_mismatch"
    PROVE  LET repaired == Repaired(args, code, MissingForMode(args)) IN
           /\ AreArguments(repaired) /\ Faults(Tools[WriteTool], repaired) = {}
           /\ Prepared(Tools[WriteTool], repaired) = repaired
           /\ MissingForMode(repaired) = {}
           /\ Mismatches(repaired) => Mismatches(args)
           /\ LacksTarget(repaired) <=> LacksTarget(args)
<1> DEFINE names == {n \in {"measure_name", "measure_type"} :
                        /\ Mode(args) # StrV("update")
                        /\ Given(args, n) => args[n] = StrV("")}
<1> DEFINE repaired == Repaired(args, code, MissingForMode(args))
<1>1. MissingForMode(args) = Named(names, "missing_field")
  BY DEF MissingForMode, Named
<1>2. names \subseteq DOMAIN MeasureFields /\ names \subseteq {"measure_name", "measure_type"}
  BY MeasuresAreFlat
<1>3. \A n \in {"measure_name", "measure_type"} :
        n \notin names /\ Mode(args) # StrV("update") => Given(args, n) /\ args[n] # StrV("")
  OBVIOUS
<1> HIDE DEF names
<1>4. /\ AreArguments(repaired) /\ Faults(Tools[WriteTool], repaired) = {}
      /\ Prepared(Tools[WriteTool], repaired) = repaired
      /\ DOMAIN repaired = DOMAIN args \cup names
      /\ \A n \in names : repaired[n] = Substitute(args, code, n)
      /\ \A n \in DOMAIN args \ names : repaired[n] = args[n]
  <2>1. names \in SUBSET DOMAIN MeasureFields
    BY <1>2
  <2>2. Substituted(args, code, names, repaired)
    BY <1>1, <2>1, RepairedWritePasses
  <2>3. QED  BY <2>2 DEF Substituted
<1>5. \A n \in names : Given(repaired, n) /\ repaired[n] # StrV("")
  <2>1. \A n \in names : repaired[n] = Good[n] /\ Good[n] # Null
    BY <1>2, <1>4, SubstitutesAreGood DEF Substitute
  <2>2. QED  BY <1>2, <1>4, <2>1, GoodAssumption DEF Given
<1> HIDE DEF repaired
<1>6. \A n \in {"mode", "id", "measure_id"} :
        /\ n \in DOMAIN repaired <=> n \in DOMAIN args
        /\ n \in DOMAIN args => repaired[n] = args[n]
  BY <1>2, <1>4
<1>7. /\ Mode(repaired) = Mode(args) /\ (Mismatches(repaired) => Mismatches(args))
      /\ LacksTarget(repaired) <=> LacksTarget(args)
  BY <1>6 DEF Mode, Mismatches, LacksTarget, Given
<1>8. \A n \in {"measure_name", "measure_type"} : Mode(args) # StrV("update") =>
         Given(repaired, n) /\ repaired[n] # StrV("")
  BY <1>3, <1>4, <1>5 DEF Given
<1>9. MissingForMode(repaired) = {}
  BY <1>7, <1>8 DEF MissingForMode
<1>10. QED  BY <1>4, <1>7, <1>9 DEF repaired

LEMMA RepairedTargetPasses ==
    ASSUME NEW args, AreArguments(args), Faults(Tools[WriteTool], args) = {},
           Prepared(Tools[WriteTool], args) = args, NEW code,
           NEW fault \in {"missing_field", "invalid_value"}
    PROVE  LET repaired == Repaired(args, code, {Fault(<<"id">>, fault)}) IN
           /\ AreArguments(repaired) /\ Faults(Tools[WriteTool], repaired) = {}
           /\ Prepared(Tools[WriteTool], repaired) = repaired
           /\ MissingForMode(args) = {} => MissingForMode(repaired) = {}
           /\ LacksTarget(args) => LacksTarget(repaired)
           /\ Mismatches(args) /\ code = "id_mismatch" => ~Mismatches(repaired)
<1> DEFINE repaired == Repaired(args, code, {Fault(<<"id">>, fault)})
<1>1. {Fault(<<"id">>, fault)} = Named({"id"}, fault)
  BY DEF Named
<1>2. {"id"} \in SUBSET DOMAIN MeasureFields
  BY MeasuresAreFlat
<1>3. /\ AreArguments(repaired) /\ Faults(Tools[WriteTool], repaired) = {}
      /\ Prepared(Tools[WriteTool], repaired) = repaired
      /\ DOMAIN repaired = DOMAIN args \cup {"id"}
      /\ \A n \in {"id"} : repaired[n] = Substitute(args, code, n)
      /\ \A n \in DOMAIN args \ {"id"} : repaired[n] = args[n]
  <2>1. Substituted(args, code, {"id"}, repaired)
    BY <1>1, <1>2, RepairedWritePasses
  <2>2. QED  BY <2>1 DEF Substituted
<1> HIDE DEF repaired
<1>4. \A n \in {"mode", "measure_id", "measure_name", "measure_type"} :
        /\ n \in DOMAIN repaired <=> n \in DOMAIN args
        /\ n \in DOMAIN args => repaired[n] = args[n]
  BY <1>3
<1>5. Mode(repaired) = Mode(args) /\ (LacksTarget(args) => LacksTarget(repaired))
  BY <1>4 DEF Mode, LacksTarget, Given
<1>6. MissingForMode(args) = {} => MissingForMode(repaired) = {}
  BY <1>4, <1>5 DEF MissingForMode, Given
<1>7. ASSUME Mismatches(args), code = "id_mismatch" PROVE ~Mismatches(repaired)
  <2>1. repaired.id = StrV(args.measure_id[2]) /\ repaired.measure_id = args.measure_id
    BY <1>3, <1>4, <1>7 DEF Substitute, Mismatches, Given
  <2>2. repaired.id[2] = args.measure_id[2]
    BY <2>1, PairsAreValues DEF StrV
  <2>3. QED  BY <2>1, <2>2 DEF Mismatches
<1>8. QED  BY <1>3, <1>5, <1>6, <1>7 DEF repaired

(* Whatever an error names, and the API may name anything, what the agent  *)
(* makes of its arguments are arguments again.                             *)
LEMMA RepairedAreArguments ==
    ASSUME NEW args, AreArguments(args), NEW code, NEW fields
    PROVE  AreArguments(Repaired(args, code, fields))
<1> DEFINE bad == {name \in DOMAIN Good : \E fault \in {"missing_field", "invalid_value"} :
                      Fault(<<name>>, fault) \in fields}
<1> DEFINE unknown == {name \in DOMAIN args : Fault(<<name>>, "unknown_field") \in fields}
<1>1. \A name \in bad : IsArgument(Substitute(args, code, name))
  <2>1. \A x : IsArgument(StrV(x))
    BY PairsAreValues DEF IsArgument, StrV
  <2>2. QED  BY <2>1, GoodAssumption DEF Substitute
<1>2. ASSUME NEW i, NEW item, IsItem(item)
      PROVE  IsItem(RepairedItem(i, item, fields))
  <2> DEFINE kept == [n \in {m \in DOMAIN item[2] :
                              Fault(<<"measures", i, m>>, "unknown_field") \notin fields} |->
                        IF /\ n \in DOMAIN MeasureFields
                           /\ Fault(<<"measures", i, n>>, "invalid_value") \in fields
                        THEN Good.measures[2][1][2][n] ELSE item[2][n]]
  <2>1. \/ RepairedItem(i, item, fields) \in {item, Good.measures[2][1]}
        \/ item[1] = "dict" /\ RepairedItem(i, item, fields) = DictV(kept)
    BY DEF RepairedItem
  <2>2. ASSUME item[1] = "dict" PROVE IsItem(DictV(kept))
    <3>1. \A n \in DOMAIN kept : IsValue(kept[n])
      BY <1>2, <2>2, GoodMeasure DEF IsItem
    <3>2. IsFilled(kept)
      BY DEF IsFilled
    <3> HIDE DEF kept
    <3>3. DictV(kept)[1] = "dict" /\ DictV(kept)[2] = kept /\ IsValue(DictV(kept))
      BY PairsAreValues DEF DictV
    <3>4. QED  BY <3>1, <3>2, <3>3 DEF IsItem
  <2>3. QED  BY <1>2, <2>1, <2>2, GoodMeasure
<1>3. ASSUME NEW name \in DOMAIN args
      PROVE  IsArgument(RepairedArgument(name, args[name], fields))
  <2> DEFINE v == args[name]
  <2> DEFINE mended == [i \in DOMAIN v[2] |-> RepairedItem(i, v[2][i], fields)]
  <2>1. IsArgument(v)
    BY DEF AreArguments
  <2>2. CASE name = "measures" /\ v[1] = "list"
    <3>1. \A i \in DOMAIN mended : IsItem(mended[i])
      BY <1>2, <2>1, <2>2 DEF IsArgument
    <3>2. IsFilled(mended)
      BY DEF IsFilled
    <3>3. RepairedArgument(name, v, fields) = ListV(mended)
      BY <2>2 DEF RepairedArgument
    <3> HIDE DEF mended
    <3>4. ListV(mended)[1] = "list" /\ ListV(mended)[2] = mended /\ IsValue(ListV(mended))
      BY PairsAreValues DEF ListV
    <3>5. QED  BY <3>1, <3>2, <3>3, <3>4 DEF IsArgument
  <2>3. QED  BY <2>1, <2>2 DEF RepairedArgument
<1>4. Repaired(args, code, fields) = [name \in (DOMAIN args \ unknown) \cup bad |->
        IF name \in bad THEN Substitute(args, code, name)
        ELSE RepairedArgument(name, args[name], fields)]
  BY DEF Repaired
<1> HIDE DEF bad, unknown
<1>5. QED  BY <1>1, <1>3, <1>4 DEF AreArguments

-----------------------------------------------------------------------------
(* The codes of the API's errors.                                          *)
LEMMA LeastExists ==
    ASSUME NEW S \in SUBSET Nat, S # {}
    PROVE  \E x \in S : \A y \in S : x <= y
<1>1. PICK x \in S : \A y \in S : ~ (<<y, x>> \in OpToRel(<, Nat))
  <2>1. IsWellFoundedOn(OpToRel(<, Nat), Nat)
    BY NatLessThanWellFounded
  <2>2. QED  BY <2>1, WFMin
<1>2. \A y \in S : ~ (y < x)
  BY <1>1 DEF OpToRel
<1>3. QED  BY <1>2

LEMMA GuardNames ==
    Range(GuardKeys) = {"KEY_MISSING", "INVALID_KEY", "INVALID_ENCRYPTED_API_KEY",
                        "AUTH_FAILED", "ACCOUNT_LOCKED", "IP_BLOCKED",
                        "NOT_AVAILABLE_WITHOUT_VALID_LICENSE", "Unauthorized"}
<1>1. DOMAIN GuardKeys = 1 .. 8
  BY DEF GuardKeys
<1>2. 1 .. 8 = {1, 2, 3, 4, 5, 6, 7, 8}
  OBVIOUS
<1>3. QED  BY <1>1, <1>2 DEF GuardKeys, Range

LEMMA CodeNames ==
    \A key \in Range(V2Codes) : key \notin Range(GuardKeys) \cup {None, "unknown"}
<1>1. DOMAIN V2Codes = 1 .. 50
  BY DEF V2Codes
<1>2. \A i \in 1 .. 50 : V2Codes[i] \notin Range(GuardKeys) \cup {None, "unknown"}
  BY GuardNames DEF V2Codes, None
<1>3. QED  BY <1>1, <1>2 DEF Range

LEMMA KeysHaveCodes ==
    ASSUME NEW key
    PROVE  /\ IsKey(key) <=> key \in Range(GuardKeys) \cup Range(V2Codes)
           /\ IsKey(key) => ByKey(key) # None
           /\ key \in Range(V2Codes) => ByKey(key) = V2CodeMap[key]
           /\ ~IsKey(None) /\ ~IsKey("unknown")
<1>1. DOMAIN ErrorCodeMap = Range(GuardKeys) /\ DOMAIN V2CodeMap = Range(V2Codes)
  BY DEF ErrorCodeMap, V2CodeMap
<1>2. DfApiKeyMap = V2CodeMap
  BY DEF DfApiKeyMap
<1>3. IsKey(key) <=> key \in Range(GuardKeys) \cup Range(V2Codes)
  BY <1>1, <1>2 DEF IsKey
<1>4. ~IsKey(None) /\ ~IsKey("unknown")
  BY <1>1, <1>2, CodeNames, GuardNames DEF IsKey, None
<1>5. key \in Range(V2Codes) => ByKey(key) = V2CodeMap[key] /\ V2CodeMap[key] # None
  BY <1>1, <1>2, CodeNames DEF ByKey, V2CodeMap, Renamed, None
<1>6. key \in Range(GuardKeys) => ByKey(key) # None
  <2>1. key \in Range(GuardKeys) => ByKey(key) = ErrorCodeMap[key]
    BY <1>1 DEF ByKey
  <2>2. key \in Range(GuardKeys) => ErrorCodeMap[key] # None
    BY GuardNames DEF ErrorCodeMap, None
  <2>3. QED  BY <2>1, <2>2
<1>7. QED  BY <1>3, <1>4, <1>5, <1>6

(* The search of the text ends at a key that is in it.                     *)
LEMMA TheTextIsSearched ==
    ASSUME NEW body, NEW key \in body, IsKey(key)
    PROVE  FoundIn(body) \in body
<1>1. ScanOrder = GuardKeys \o V2Codes
  BY DEF ScanOrder
<1>2. PICK S : S = Range(GuardKeys) \cup Range(V2Codes)
  OBVIOUS
<1>a. /\ GuardKeys \in Seq(S) /\ Len(GuardKeys) = 8 /\ DOMAIN GuardKeys = 1 .. 8
  <2>1. GuardKeys = [i \in 1 .. 8 |-> GuardKeys[i]]
    BY DEF GuardKeys
  <2>2. GuardKeys \in [1 .. 8 -> S]
    BY <2>1, <1>2 DEF Range
  <2>3. QED  BY ONLY <2>2, IsSequence
<1>b. /\ V2Codes \in Seq(S) /\ Len(V2Codes) = 50 /\ DOMAIN V2Codes = 1 .. 50
  <2>1. V2Codes = [i \in 1 .. 50 |-> V2Codes[i]]
    BY DEF V2Codes
  <2>2. V2Codes \in [1 .. 50 -> S]
    BY <2>1, <1>2 DEF Range
  <2>3. QED  BY ONLY <2>2, IsSequence
<1>3. /\ Len(ScanOrder) = 58
      /\ \A i \in 1 .. 8 : ScanOrder[i] = GuardKeys[i]
      /\ \A i \in 1 .. 50 : ScanOrder[8 + i] = V2Codes[i]
  <2>1. PICK s \in Seq(S), t \in Seq(S) : s = GuardKeys /\ t = V2Codes
    BY <1>a, <1>b
  <2>2. /\ Len(s \o t) = Len(s) + Len(t)
        /\ \A i \in 1 .. Len(s) : (s \o t)[i] = s[i]
        /\ \A i \in 1 .. Len(t) : (s \o t)[Len(s) + i] = t[i]
    BY Glued
  <2>3. ScanOrder = s \o t /\ Len(s) = 8 /\ Len(t) = 50
    BY <2>1, <1>1, <1>a, <1>b
  <2>4. PICK scan : scan = ScanOrder
    OBVIOUS
  <2>5. Len(scan) = 58
    BY ONLY <2>2, <2>3, <2>4
  <2>6. \A i \in 1 .. 8 : scan[i] = s[i]
    BY ONLY <2>2, <2>3, <2>4
  <2>7. \A i \in 1 .. 50 : scan[8 + i] = t[i]
    BY ONLY <2>2, <2>3, <2>4
  <2>8. QED  BY <2>1, <2>4, <2>5, <2>6, <2>7
<1> DEFINE found == {i \in 1 .. Len(ScanOrder) : ScanOrder[i] \in body}
<1>4. found # {}
  <2>1. CASE key \in Range(GuardKeys)
    <3>1. PICK i \in 1 .. 8 : GuardKeys[i] = key
      BY <2>1, <1>a DEF Range
    <3>2. i \in found
      BY <3>1, <1>3
    <3>3. QED  BY <3>2
  <2>2. CASE key \in Range(V2Codes)
    <3>1. PICK i \in 1 .. 50 : V2Codes[i] = key
      BY <2>2, <1>b DEF Range
    <3>2. 8 + i \in found
      BY <3>1, <1>3
    <3>3. QED  BY <3>2
  <2>3. QED  BY <2>1, <2>2, KeysHaveCodes
<1>5. SelectInSeq(ScanOrder, LAMBDA k : k \in body) = Min(found)
  BY <1>4 DEF SelectInSeq
<1>6. Min(found) \in found
  <2>1. found \in SUBSET Nat
    BY <1>3
  <2>2. \E x \in found : \A y \in found : x <= y
    BY <1>4, <2>1, LeastExists
  <2> HIDE DEF found
  <2>3. QED  BY <2>2 DEF Min
<1>7. QED  BY <1>5, <1>6 DEF FoundIn

LEMMA FailuresHaveCodes ==
    ASSUME NEW failure \in ApiFailures
    PROVE  /\ failure.kind = "api" /\ Envelops(failure).code \in CodesOf(failure)
           /\ Envelops(failure).code # None
           /\ Envelops(failure).isError = TRUE
           /\ Envelops(failure).source = None
<1>0. PICK e \in ApiErrors : \E g \in Sends(e), s \in Statuses, d \in Details :
        failure = [kind |-> "api", error |-> e, generation |-> g, status |-> s,
                   details |-> d]
  BY DEF ApiFailures
<1>1. PICK g \in Sends(e), s \in Statuses, d \in Details :
        failure = [kind |-> "api", error |-> e, generation |-> g, status |-> s,
                   details |-> d]
  BY <1>0
<1> DEFINE envelope == Envelope(e, g, s, d)
<1>2. /\ failure.kind = "api" /\ failure.error = e /\ failure.generation = g
      /\ failure.status = s /\ failure.details = d
  BY <1>1
<1>3. /\ Envelops(failure).code = ResolveCode(envelope)
      /\ Envelops(failure).isError = TRUE
      /\ Envelops(failure).source = None
  BY <1>2 DEF Envelops, MapHttpError, Error, NoAnswer
<1>4. /\ envelope.code = IF g = "code" THEN e ELSE None
      /\ envelope.originalMessage = IF g \in {"code", "originalMessage"} THEN e ELSE None
      /\ envelope.error = IF g = "error" THEN e ELSE None
      /\ envelope.body = KeysIn(e) /\ envelope.status = s
  BY DEF Envelope
<1>5. e \in Range(V2Codes) \cup Range(GuardKeys) \cup {"unknown"}
  BY ErrorAssumption DEF Errors
<1>6. /\ g \in {"code", "originalMessage", "error", "text"}
      /\ g = "code" => e \notin Range(GuardKeys)
  BY DEF Sends, Generations
<1> HIDE DEF envelope
<1>7. DOMAIN V2CodeMap = Range(V2Codes)
  BY DEF V2CodeMap
<1>8. ~IsKey(None) /\ ~IsKey("unknown")
  BY KeysHaveCodes
<1>9. CASE e = "unknown"
  <2>1. ResolveCode(envelope) = StatusFallback(s)
    BY <1>4, <1>7, <1>8, <1>9, KeysHaveCodes DEF ResolveCode, KeysIn
  <2>2. StatusFallback(s) # None
    BY DEF StatusFallback, None
  <2>3. QED  BY <1>2, <1>3, <1>9, <2>1, <2>2 DEF CodesOf
<1>10. CASE e # "unknown" /\ g # "text"
  <2>1. IsKey(e) /\ ByKey(e) # None
    BY <1>5, <1>10, KeysHaveCodes
  <2>2. ResolveCode(envelope) = ByKey(e)
    BY <1>4, <1>5, <1>6, <1>7, <1>8, <1>10, <2>1, KeysHaveCodes DEF ResolveCode
  <2>3. QED  BY <1>2, <1>3, <1>10, <2>1, <2>2 DEF CodesOf
<1>11. CASE e # "unknown" /\ g = "text"
  <2>1. IsKey(e) /\ e \in KeysIn(e)
    BY <1>5, <1>11, KeysHaveCodes DEF KeysIn
  <2>2. FoundIn(KeysIn(e)) \in KeysIn(e)
    BY <2>1, TheTextIsSearched
  <2>3. \A key \in KeysIn(e) : IsKey(key)
    <3>1. IsKey("invalid_parameter")
      <4>1. 7 \in DOMAIN V2Codes /\ V2Codes[7] = "invalid_parameter"
        BY DEF V2Codes
      <4>2. QED  BY <4>1, KeysHaveCodes DEF Range
    <3>2. QED  BY <2>1, <3>1 DEF KeysIn
  <2>4. ResolveCode(envelope) = ByKey(FoundIn(KeysIn(e)))
    BY <1>4, <1>7, <1>8, <1>11, <2>1, KeysHaveCodes DEF ResolveCode
  <2>5. ByKey(FoundIn(KeysIn(e))) # None
    BY <2>2, <2>3, KeysHaveCodes
  <2>6. QED  BY <1>2, <1>3, <1>11, <2>2, <2>4, <2>5 DEF CodesOf
<1>12. QED  BY <1>9, <1>10, <1>11

-----------------------------------------------------------------------------
(* What holds between the steps of a call, its listing apart.              *)
Shapes ==
    /\ phase \in {"ready", "received", "prepared", "fetching", "writing", "answered"}
    /\ call = [tool |-> call.tool, args |-> call.args]
    /\ call.tool \in DOMAIN Tools \cup {None, "df_unknown"}
    /\ AreArguments(call.args)
    /\ phase = "prepared" => \A name \in DOMAIN call.args : call.args[name] # Invalid
    /\ refusals \in Nat
    /\ stored \in {None, "fresh", "expired"}

Answers ==
    /\ answer.isError <=> answer.code # None
    /\ answer.isError => phase = "answered" /\ answer.source = None
    /\ answer.fields # {} => answer.isError
    /\ cause # NoCause => phase = "answered"
    /\ SameErrorSameCode

(* How many of the checks behind the door would object to arguments, and   *)
(* whether a call with n refusals keeps within its checks if they all do.  *)
Objections(tool, args) ==
    IF tool = BulkTool THEN IF BodyFaults(args.measures[2]) = {} THEN 0 ELSE 1
    ELSE IF tool = WriteTool
    THEN (IF MissingForMode(args) = {} THEN 0 ELSE 1) + (IF Mismatches(args) THEN 1 ELSE 0)
    ELSE 0
Within(tool, args, n) ==
    \/ tool = WriteTool /\ LacksTarget(args)
    \/ n + Objections(tool, args) <= Checks(tool)

(* Arguments that were let in, and that preparing again does not change.   *)
Settled(tool, args) ==
    /\ tool \in DOMAIN Tools /\ Faults(Tools[tool], args) = {}
    /\ Prepared(Tools[tool], args) = args

(* The fields of an answer are those of one check, with the calls of it    *)
(* and the checks behind it still to be counted.                           *)
Refused(tool, args, code, fields, n) ==
    \/ /\ tool = BulkTool /\ code # "id_mismatch" /\ n \in {1, 2}
       /\ BodyFaults(args.measures[2]) # {} /\ fields = BodyFaults(args.measures[2])
    \/ /\ tool = WriteTool /\ code # "id_mismatch" /\ fields = MissingForMode(args)
       /\ LacksTarget(args) \/ n + (IF Mismatches(args) THEN 1 ELSE 0) <= 3
    \/ /\ tool = WriteTool /\ LacksTarget(args)
       /\ fields = {Fault(<<"id">>, "missing_field")}
    \/ /\ tool = WriteTool /\ MissingForMode(args) = {} /\ Mismatches(args) /\ n <= 3
       /\ code = "id_mismatch" /\ fields = {Fault(<<"id">>, "invalid_value")}

(* What a refusal has named is repaired, so the check that named it passes *)
(* from then on, and only those behind it can refuse the call again.       *)
Counted ==
    /\ phase = "ready" => refusals = 0
    /\ phase = "received" =>
          \/ refusals = 0
          \/ refusals = 1 /\ call.tool \in DOMAIN Tools
                          /\ Faults(Tools[call.tool], call.args) = {}
          \/ Settled(call.tool, call.args) /\ Within(call.tool, call.args, refusals)
    /\ phase = "prepared" =>
          Settled(call.tool, call.args) /\ Within(call.tool, call.args, refusals)
    /\ phase \in {"fetching", "writing"} => refusals = 0
    /\ phase = "answered" /\ answer.fields # {} =>
          \/ refusals = 0
          \/ /\ call.tool \in DOMAIN Tools /\ refusals = 1
             /\ answer.fields = Faults(Tools[call.tool], call.args)
             /\ answer.code # "id_mismatch"
          \/ /\ Settled(call.tool, call.args)
             /\ Refused(call.tool, call.args, answer.code, answer.fields, refusals)
    /\ NamedFaultsAreAllFaults

CallInv == Shapes /\ Answers /\ Counted

LEMMA CountsAreSmall ==
    ASSUME NEW tool, NEW args
    PROVE  /\ Objections(tool, args) \in Nat /\ Checks(tool) \in 1 .. 3
           /\ Objections(tool, args) + 1 <= Checks(tool)
           /\ tool = BulkTool => Checks(tool) = 2
           /\ tool = WriteTool => Checks(tool) = 3
BY DEF Objections, Checks, BulkTool, WriteTool

(* Within the checks is what the property asks.                            *)
LEMMA WithinTheChecks ==
    ASSUME refusals \in Nat,
           refusals <= 1 \/ Within(call.tool, call.args, refusals)
    PROVE  NamedFaultsAreAllFaults
BY CountsAreSmall DEF NamedFaultsAreAllFaults, RefusedOncePerCheck, Within, WriteTool

LEMMA StartsWell == Init => CallInv
<1> SUFFICES ASSUME Init PROVE CallInv
  OBVIOUS
<1>1. NoCall.tool = None /\ NoCall.args = <<>> /\ DOMAIN NoCall.args = {}
  BY DEF NoCall
<1>2. Shapes
  BY <1>1 DEF Init, Shapes, AreArguments, NoCall
<1>3. Answers
  BY DEF Init, Answers, NoAnswer, NoCause, SameErrorSameCode, None
<1>4. Counted
  BY <1>1, WithinTheChecks DEF Init, Counted, NoAnswer
<1>5. QED  BY <1>2, <1>3, <1>4 DEF CallInv

LEMMA ErrorFields ==
    /\ \A code, fields :
          /\ Error(code, FALSE, fields).isError = TRUE
          /\ Error(code, FALSE, fields).code = code
          /\ Error(code, FALSE, fields).fields = fields
          /\ Error(code, FALSE, fields).source = None
    /\ \A source :
          /\ Result(source).isError = FALSE /\ Result(source).code = None
          /\ Result(source).fields = {} /\ Result(source).source = source
    /\ NoAnswer.isError = FALSE /\ NoAnswer.code = None /\ NoAnswer.fields = {}
    /\ NoCause.kind = None /\ None # "api"
BY DEF Error, Result, NoAnswer, NoCause, None

(* Nothing has been answered yet.                                          *)
LEMMA NotAnswered ==
    ASSUME CallInv, phase # "answered"
    PROVE  /\ answer.isError = FALSE /\ answer.code = None /\ answer.fields = {}
           /\ cause = NoCause
BY DEF CallInv, Answers, None

LEMMA AskStep ==
    ASSUME CallInv, Ask
    PROVE  CallInv'
<1>1. PICK sample \in Samples : call' = [NoCall EXCEPT !.tool = sample.tool,
                                                       !.args = sample.args]
  BY DEF Ask
<1>2. /\ call' = [tool |-> sample.tool, args |-> sample.args]
      /\ call'.tool = sample.tool /\ call'.args = sample.args
  BY <1>1 DEF NoCall
<1>3. /\ sample.tool \in DOMAIN Tools \cup {"df_unknown"}
      /\ AreArguments(sample.args)
  BY SampleAssumption DEF AreArguments
<1>4. /\ phase = "ready" /\ phase' = "received" /\ refusals = 0 /\ refusals' = 0
      /\ answer' = answer /\ stored' = stored /\ cause' = cause
  BY DEF Ask, CallInv, Counted
<1>5. Shapes'
  BY <1>2, <1>3, <1>4 DEF CallInv, Shapes
<1>6. Answers'
  BY <1>4, NotAnswered, ErrorFields DEF Answers, SameErrorSameCode
<1>7. Counted'
  BY <1>4, CountsAreSmall DEF Counted, NamedFaultsAreAllFaults, RefusedOncePerCheck
<1>8. QED  BY <1>5, <1>6, <1>7 DEF CallInv

LEMMA RepairStep ==
    ASSUME CallInv, Repair
    PROVE  CallInv'
<1> DEFINE repaired == Repaired(call.args, answer.code, answer.fields)
<1>1. /\ phase = "answered" /\ phase' = "received" /\ answer.fields # {}
      /\ answer' = NoAnswer /\ refusals' = refusals /\ stored' = stored /\ cause' = NoCause
      /\ call' = [call EXCEPT !.args = repaired]
  BY DEF Repair
<1>2. /\ call' = [tool |-> call.tool, args |-> repaired]
      /\ call'.tool = call.tool /\ call'.args = repaired
      /\ AreArguments(call.args) /\ refusals \in Nat
  BY <1>1 DEF CallInv, Shapes
<1>3. AreArguments(repaired)
  BY <1>2, RepairedAreArguments
<1>4. ASSUME Settled(call.tool, call.args),
             Refused(call.tool, call.args, answer.code, answer.fields, refusals)
      PROVE  Settled(call.tool, repaired) /\ Within(call.tool, repaired, refusals)
  <2>1. CASE call.tool = BulkTool
    <3>1. /\ answer.code # "id_mismatch" /\ refusals \in {1, 2}
          /\ BodyFaults(call.args.measures[2]) # {}
          /\ answer.fields = BodyFaults(call.args.measures[2])
      BY <1>4, <2>1, TheTools DEF Refused
    <3>2. /\ Settled(BulkTool, repaired) /\ BodyFaults(repaired.measures[2]) = {}
      <4>1. /\ BulkTool \in DOMAIN Tools /\ Faults(Tools[BulkTool], call.args) = {}
            /\ Prepared(Tools[BulkTool], call.args) = call.args
        BY <1>4, <2>1 DEF Settled
      <4>2. PICK args : args = call.args
        OBVIOUS
      <4>3. LET mended == Repaired(args, answer.code, BodyFaults(args.measures[2])) IN
            /\ Faults(Tools[BulkTool], mended) = {}
            /\ Prepared(Tools[BulkTool], mended) = mended
            /\ BodyFaults(mended.measures[2]) = {}
        BY <1>2, <3>1, <4>1, <4>2, RepairedBodyPasses
      <4>4. QED  BY <3>1, <4>1, <4>2, <4>3 DEF Settled
    <3> HIDE DEF repaired
    <3>3. QED  BY <2>1, <3>1, <3>2, CountsAreSmall DEF Within, Objections
  <2>2. CASE /\ call.tool = WriteTool /\ answer.code # "id_mismatch"
             /\ answer.fields = MissingForMode(call.args)
             /\ LacksTarget(call.args)
                  \/ refusals + (IF Mismatches(call.args) THEN 1 ELSE 0) <= 3
    <3>1. /\ Settled(WriteTool, repaired) /\ MissingForMode(repaired) = {}
          /\ Mismatches(repaired) => Mismatches(call.args)
          /\ LacksTarget(repaired) <=> LacksTarget(call.args)
      BY <1>2, <1>4, <2>2, RepairedModePasses DEF Settled
    <3> HIDE DEF repaired
    <3>2. QED  BY <1>2, <2>2, <3>1, CountsAreSmall, TheTools DEF Within, Objections
  <2>3. CASE /\ call.tool = WriteTool /\ LacksTarget(call.args)
             /\ answer.fields = {Fault(<<"id">>, "missing_field")}
    <3>1. Settled(WriteTool, repaired) /\ LacksTarget(repaired)
      BY <1>2, <1>4, <2>3, RepairedTargetPasses DEF Settled
    <3>2. QED  BY <2>3, <3>1 DEF Within
  <2>4. CASE /\ call.tool = WriteTool /\ MissingForMode(call.args) = {}
             /\ Mismatches(call.args) /\ refusals <= 3 /\ answer.code = "id_mismatch"
             /\ answer.fields = {Fault(<<"id">>, "invalid_value")}
    <3>1. /\ Settled(WriteTool, repaired) /\ MissingForMode(repaired) = {}
          /\ ~Mismatches(repaired)
      BY <1>2, <1>4, <2>4, RepairedTargetPasses DEF Settled
    <3> HIDE DEF repaired
    <3>2. QED  BY <1>2, <2>4, <3>1, CountsAreSmall, TheTools DEF Within, Objections
  <2>5. QED  BY <1>4, <2>1, <2>2, <2>3, <2>4 DEF Refused
<1>5. \/ refusals = 0
      \/ /\ refusals = 1 /\ call.tool \in DOMAIN Tools
         /\ Faults(Tools[call.tool], repaired) = {}
      \/ Settled(call.tool, repaired) /\ Within(call.tool, repaired, refusals)
  <2>1. CASE /\ call.tool \in DOMAIN Tools /\ refusals = 1
             /\ answer.fields = Faults(Tools[call.tool], call.args)
             /\ answer.code # "id_mismatch"
    BY <1>2, <2>1, RepairedArgumentsPass
  <2>2. QED  BY <1>1, <1>4, <2>1 DEF CallInv, Counted
<1> HIDE DEF repaired
<1>6. Shapes'
  BY <1>1, <1>2, <1>3 DEF CallInv, Shapes
<1>7. Answers'
  BY <1>1, ErrorFields DEF Answers, SameErrorSameCode
<1>8. Counted'
  <2>1. NamedFaultsAreAllFaults'
    BY <1>1, <1>2, <1>5, CountsAreSmall
       DEF NamedFaultsAreAllFaults, RefusedOncePerCheck, Within, WriteTool
  <2>2. QED  BY <1>1, <1>2, <1>5, <2>1 DEF Counted
<1>9. QED  BY <1>6, <1>7, <1>8 DEF CallInv

LEMMA NextCallStep ==
    ASSUME CallInv, NextCall
    PROVE  CallInv'
<1>1. /\ phase' = "ready" /\ call' = NoCall /\ refusals' = 0
      /\ answer' = NoAnswer /\ cause' = NoCause
      /\ stored' \in {stored, IF stored = "fresh" THEN "expired" ELSE stored}
  BY DEF NextCall
<1>2. NoCall = [tool |-> None, args |-> <<>>] /\ NoCall.tool = None
      /\ NoCall.args = <<>> /\ DOMAIN NoCall.args = {}
  BY DEF NoCall
<1>3. Shapes'
  BY <1>1, <1>2 DEF CallInv, Shapes, AreArguments
<1>4. Answers'
  BY <1>1, ErrorFields DEF Answers, SameErrorSameCode
<1>5. Counted'
  BY <1>1, <1>2, CountsAreSmall DEF Counted, NamedFaultsAreAllFaults, RefusedOncePerCheck
<1>6. QED  BY <1>3, <1>4, <1>5 DEF CallInv

(* A call that ends with a result, or with an error of what is behind the  *)
(* checks.                                                                 *)
LEMMA EndedStep ==
    ASSUME CallInv, phase' = "answered", call' = call, refusals' = refusals,
           stored' \in {None, "fresh", "expired"},
           answer'.fields = {} \/ (answer'.isError /\ refusals = 0),
           answer'.isError <=> answer'.code # None,
           answer'.isError => answer'.source = None,
           answer'.isError /\ cause'.kind = "api" => answer'.code \in CodesOf(cause')
    PROVE  CallInv'
<1>1. Shapes'
  BY DEF CallInv, Shapes
<1>2. Answers'
  BY DEF Answers, SameErrorSameCode
<1>3. Counted'
  BY DEF CallInv, Counted, NamedFaultsAreAllFaults, RefusedOncePerCheck
<1>4. QED  BY <1>1, <1>2, <1>3 DEF CallInv

LEMMA UnknownToolStep ==
    ASSUME CallInv, UnknownTool
    PROVE  CallInv'
<1>1. /\ phase' = "answered" /\ answer' = Error("unknown_tool", FALSE, {})
      /\ call' = call /\ refusals' = refusals /\ stored' = stored /\ cause' = NoCause
  BY NotAnswered DEF UnknownTool, Answer
<1>2. "unknown_tool" # None /\ stored \in {None, "fresh", "expired"}
  BY DEF CallInv, Shapes, None
<1>3. /\ answer'.fields = {} /\ (answer'.isError <=> answer'.code # None)
      /\ answer'.isError => answer'.source = None
  BY <1>1, <1>2 DEF Error, Result, NoAnswer, None
<1>4. cause'.kind # "api"
  BY <1>1 DEF NoCause, None
<1>5. QED  BY <1>1, <1>2, <1>3, <1>4, EndedStep

LEMMA RefuseArgumentsStep ==
    ASSUME CallInv, RefuseArguments
    PROVE  CallInv'
<1> DEFINE fields == Faults(Tools[call.tool], call.args)
<1>1. /\ phase = "received" /\ phase' = "answered" /\ call.tool \in DOMAIN Tools
      /\ answer' = Error("validation_failed", FALSE, fields) /\ fields # {}
      /\ refusals' = refusals + 1 /\ call' = call /\ stored' = stored /\ cause' = NoCause
  BY NotAnswered DEF RefuseArguments, RefuseWith, Answer
<1>2. refusals = 0
  BY <1>1 DEF CallInv, Counted, Settled
<1>3. Shapes'
  BY <1>1, <1>2 DEF CallInv, Shapes
<1> HIDE DEF fields
<1>4. /\ answer'.isError = TRUE /\ answer'.code \notin {None, "id_mismatch"}
      /\ answer'.fields = fields /\ answer'.source = None
  BY <1>1 DEF Error, NoAnswer, None
<1>5. cause'.kind # "api"
  BY <1>1 DEF NoCause, None
<1>6. Answers'
  BY <1>1, <1>4, <1>5 DEF Answers, SameErrorSameCode
<1>7. Counted'
  <2>1. NamedFaultsAreAllFaults'
    BY <1>1, <1>2, CountsAreSmall DEF NamedFaultsAreAllFaults, RefusedOncePerCheck
  <2>2. call'.tool \in DOMAIN Tools /\ refusals' = 1 /\ phase' = "answered"
    BY <1>1, <1>2
  <2>3. fields = Faults(Tools[call'.tool], call'.args)
    BY <1>1 DEF fields
  <2>4. answer'.fields = Faults(Tools[call'.tool], call'.args)
    BY <1>4, <2>3
  <2>5. answer'.code # "id_mismatch"
    BY <1>4
  <2>6. QED  BY <2>1, <2>2, <2>4, <2>5 DEF Counted
<1>8. QED  BY <1>3, <1>6, <1>7 DEF CallInv

LEMMA PrepareStep ==
    ASSUME CallInv, Prepare
    PROVE  CallInv'
<1> DEFINE prepared == Prepared(Tools[call.tool], call.args)
<1>1. /\ phase = "received" /\ phase' = "prepared" /\ call.tool \in DOMAIN Tools
      /\ Faults(Tools[call.tool], call.args) = {} /\ AreArguments(call.args)
      /\ answer' = answer /\ refusals' = refusals /\ stored' = stored /\ cause' = cause
      /\ call' = [call EXCEPT !.args = prepared]
  BY DEF Prepare, CallInv, Shapes
<1>2. /\ call' = [tool |-> call.tool, args |-> prepared]
      /\ call'.tool = call.tool /\ call'.args = prepared
  BY <1>1 DEF CallInv, Shapes
<1>3. /\ AreArguments(prepared) /\ DOMAIN prepared = DOMAIN call.args
      /\ Settled(call.tool, prepared)
      /\ \A name \in DOMAIN prepared : prepared[name] # Invalid
  <2>1. DOMAIN prepared = DOMAIN call.args
    BY DEF Prepared
  <2>2. QED  BY <1>1, <2>1, PreparedIsLetIn DEF Settled
<1>4. Within(call.tool, prepared, refusals)
  <2>1. CASE refusals = 0 \/ refusals = 1
    BY <2>1, CountsAreSmall DEF Within
  <2>2. CASE Settled(call.tool, call.args) /\ Within(call.tool, call.args, refusals)
    BY <2>2 DEF Settled
  <2>3. QED  BY <1>1, <2>1, <2>2 DEF CallInv, Counted
<1> HIDE DEF prepared
<1>5. Shapes'
  BY <1>1, <1>2, <1>3 DEF CallInv, Shapes
<1>6. Answers'
  BY <1>1, NotAnswered, ErrorFields DEF Answers, SameErrorSameCode
<1>7. Counted'
  <2>1. NamedFaultsAreAllFaults'
    BY <1>1, <1>2, <1>4, CountsAreSmall
       DEF CallInv, Shapes, NamedFaultsAreAllFaults, RefusedOncePerCheck, Within, WriteTool
  <2>2. QED  BY <1>1, <1>2, <1>3, <1>4, <2>1 DEF Counted
<1>8. QED  BY <1>5, <1>6, <1>7 DEF CallInv

(* A refusal of a check behind the door, as Refused describes it.          *)
LEMMA RefusedStep ==
    ASSUME CallInv, phase = "prepared", phase' = "answered", NEW code, NEW fields,
           code # None, answer' = Error(code, FALSE, fields), refusals' = refusals + 1,
           call' = call, stored' = stored, cause' = cause,
           Refused(call.tool, call.args, code, fields, refusals + 1)
    PROVE  CallInv'
<1>1. cause' = NoCause /\ Settled(call.tool, call.args) /\ refusals \in Nat
  BY NotAnswered DEF CallInv, Shapes, Counted
<1>2. Shapes'
  BY <1>1 DEF CallInv, Shapes
<1>3. /\ answer'.isError = TRUE /\ answer'.code = code /\ answer'.fields = fields
      /\ answer'.source = None /\ cause'.kind # "api"
  BY <1>1, ErrorFields
<1>4. Answers'
  BY <1>1, <1>3 DEF Answers, SameErrorSameCode
<1>5. NamedFaultsAreAllFaults'
  BY <1>1, CountsAreSmall, TheTools
     DEF Refused, NamedFaultsAreAllFaults, RefusedOncePerCheck, WriteTool
<1>6. Counted'
  BY <1>1, <1>3, <1>5 DEF Counted
<1>7. QED  BY <1>2, <1>4, <1>6 DEF CallInv

LEMMA RefuseBodyStep ==
    ASSUME CallInv, RefuseBody
    PROVE  CallInv'
<1> DEFINE fields == BodyFaults(call.args.measures[2])
<1>1. /\ phase = "prepared" /\ phase' = "answered" /\ call.tool = BulkTool
      /\ answer' = Error("validation_failed", FALSE, fields) /\ fields # {}
      /\ refusals' = refusals + 1 /\ call' = call /\ stored' = stored /\ cause' = cause
  BY DEF RefuseBody, RefuseWith, Answer, BulkTool
<1>2. refusals + 1 \in {1, 2}
  <2>1. refusals \in Nat /\ Within(BulkTool, call.args, refusals)
    BY <1>1 DEF CallInv, Shapes, Counted
  <2>2. QED  BY <1>1, <2>1, CountsAreSmall, TheTools DEF Within, Objections
<1>3. Refused(call.tool, call.args, "validation_failed", fields, refusals + 1)
  BY <1>1, <1>2 DEF Refused
<1> HIDE DEF fields
<1>4. "validation_failed" # None
  BY DEF None
<1>5. QED  BY <1>1, <1>3, <1>4, RefusedStep

LEMMA RefuseMissingStep ==
    ASSUME CallInv, RefuseMissing
    PROVE  CallInv'
<1> DEFINE fields == MissingForMode(call.args)
<1>1. /\ phase = "prepared" /\ phase' = "answered" /\ call.tool = WriteTool
      /\ answer' = Error("missing_required_field", FALSE, fields) /\ fields # {}
      /\ refusals' = refusals + 1 /\ call' = call /\ stored' = stored /\ cause' = cause
  BY DEF RefuseMissing, RefuseWith, Answer, WriteTool
<1>2. \/ LacksTarget(call.args)
      \/ refusals + 1 + (IF Mismatches(call.args) THEN 1 ELSE 0) <= 3
  <2>1. refusals \in Nat /\ Within(WriteTool, call.args, refusals)
    BY <1>1 DEF CallInv, Shapes, Counted
  <2>2. QED  BY <1>1, <2>1, CountsAreSmall, TheTools DEF Within, Objections
<1>3. Refused(call.tool, call.args, "missing_required_field", fields, refusals + 1)
  BY <1>1, <1>2 DEF Refused
<1> HIDE DEF fields
<1>4. "missing_required_field" # None
  BY DEF None
<1>5. QED  BY <1>1, <1>3, <1>4, RefusedStep

LEMMA RefuseTargetStep ==
    ASSUME CallInv, RefuseTarget
    PROVE  CallInv'
<1>1. /\ phase = "prepared" /\ phase' = "answered" /\ call.tool = WriteTool
      /\ MissingForMode(call.args) = {}
      /\ refusals' = refusals + 1 /\ call' = call /\ stored' = stored /\ cause' = cause
  BY DEF RefuseTarget, RefuseWith, Answer, WriteTool
<1>2. CASE /\ LacksTarget(call.args)
           /\ answer' = Error("missing_required_field", FALSE, {Fault(<<"id">>, "missing_field")})
  <2>1. Refused(call.tool, call.args, "missing_required_field",
                {Fault(<<"id">>, "missing_field")}, refusals + 1)
    BY <1>1, <1>2 DEF Refused
  <2>2. "missing_required_field" # None
    BY DEF None
  <2>3. QED  BY <1>1, <1>2, <2>1, <2>2, RefusedStep
<1>3. CASE /\ Mismatches(call.args)
           /\ answer' = Error("id_mismatch", FALSE, {Fault(<<"id">>, "invalid_value")})
  <2>1. refusals + 1 <= 3
    <3>1. refusals \in Nat /\ Within(WriteTool, call.args, refusals)
      BY <1>1 DEF CallInv, Shapes, Counted
    <3>2. ~LacksTarget(call.args)
      BY <1>3 DEF Mismatches, LacksTarget
    <3>3. QED  BY <1>1, <1>3, <3>1, <3>2, CountsAreSmall, TheTools DEF Within, Objections
  <2>2. Refused(call.tool, call.args, "id_mismatch",
                {Fault(<<"id">>, "invalid_value")}, refusals + 1)
    BY <1>1, <1>3, <2>1 DEF Refused
  <2>3. "id_mismatch" # None
    BY DEF None
  <2>4. QED  BY <1>1, <1>3, <2>2, <2>3, RefusedStep
<1>4. QED  BY <1>2, <1>3 DEF RefuseTarget, RefuseWith, Answer

LEMMA BeginStep ==
    ASSUME CallInv, BeginWrite \/ BeginFetch
    PROVE  CallInv'
<1>1. /\ phase = "prepared" /\ phase' \in {"writing", "fetching"}
      /\ call' = call /\ answer' = answer /\ refusals' = 0 /\ stored' = stored
      /\ cause' = cause
  BY DEF BeginWrite, BeginFetch
<1>2. Shapes'
  BY <1>1 DEF CallInv, Shapes
<1>3. Answers'
  BY <1>1, NotAnswered, ErrorFields DEF Answers, SameErrorSameCode
<1>4. Counted'
  BY <1>1, CountsAreSmall DEF Counted, NamedFaultsAreAllFaults, RefusedOncePerCheck
<1>5. QED  BY <1>2, <1>3, <1>4 DEF CallInv

LEMMA ReturnStep ==
    ASSUME CallInv, Hit \/ Store \/ Written
    PROVE  CallInv'
<1>1. /\ phase' = "answered" /\ call' = call /\ refusals' = refusals
      /\ stored' \in {stored, "fresh", None} /\ cause' = NoCause
      /\ \/ answer' = Result("cache") \/ answer' = Result("api")
         \/ answer' = Error("internal_error", FALSE, {})
  BY NotAnswered DEF Hit, Store, Written, Answer
<1>2. "internal_error" # None /\ stored \in {None, "fresh", "expired"}
  BY DEF CallInv, Shapes, None
<1>3. /\ answer'.fields = {} /\ (answer'.isError <=> answer'.code # None)
      /\ answer'.isError => answer'.source = None
  BY <1>1, <1>2 DEF Error, Result, NoAnswer, None
<1>4. cause'.kind # "api"
  BY <1>1 DEF NoCause, None
<1>5. QED  BY <1>1, <1>2, <1>3, <1>4, EndedStep

LEMMA OtherFailuresAreErrors ==
    ASSUME NEW failure \in OtherFailures
    PROVE  /\ failure.kind # "api" /\ Envelops(failure).isError = TRUE
           /\ Envelops(failure).code # None /\ Envelops(failure).source = None
<1>1. failure.kind \in {"timeout", "connection_error", "invalid_response"}
  BY DEF OtherFailures
<1>2. Envelops(failure) = Error(failure.kind, FALSE, {})
  BY <1>1 DEF Envelops
<1>3. QED  BY <1>1, <1>2 DEF Error, NoAnswer, None

LEMMA FailStep ==
    ASSUME CallInv, PageFails \/ PageDoesNotFit \/ WriteFails
    PROVE  CallInv'
<1>1. /\ phase' = "answered" /\ call' = call /\ refusals' = refusals /\ stored' = stored
      /\ stored \in {None, "fresh", "expired"} /\ refusals = 0
  BY DEF PageFails, PageDoesNotFit, WriteFails, Answer, CallInv, Shapes, Counted
<1>2. \/ answer' = Result("cache")
      \/ /\ \E fields \in Misfits : answer' = Error("validation_failed", FALSE, fields)
         /\ cause' = [kind |-> "unfit"]
      \/ \E failure \in ApiFailures \cup OtherFailures :
            cause' = failure /\ answer' = Envelops(failure)
  BY DEF PageFails, PageDoesNotFit, WriteFails, Answer
<1>3. CASE answer' = Result("cache")
  BY <1>1, <1>3, ErrorFields, EndedStep
<1>4. CASE /\ \E fields \in Misfits : answer' = Error("validation_failed", FALSE, fields)
           /\ cause' = [kind |-> "unfit"]
  <2>1. cause'.kind # "api"
    BY <1>4
  <2>2. PICK fields \in Misfits : answer' = Error("validation_failed", FALSE, fields)
    BY <1>4
  <2>3. answer'.isError /\ answer'.code # None /\ answer'.source = None
    BY <2>2 DEF Error, NoAnswer, None
  <2>4. QED  BY <1>1, <2>1, <2>3, EndedStep
<1>5. ASSUME NEW failure \in ApiFailures \cup OtherFailures,
             cause' = failure, answer' = Envelops(failure)
      PROVE  CallInv'
  BY <1>1, <1>5, FailuresHaveCodes, OtherFailuresAreErrors, EndedStep
<1>6. QED  BY <1>2, <1>3, <1>4, <1>5

LEMMA CallStep == CallInv /\ [Next]_vars => CallInv'
<1> SUFFICES ASSUME CallInv, [Next]_vars PROVE CallInv'
  OBVIOUS
<1>1. CASE UNCHANGED serviceVars
  <2>1. /\ phase' = phase /\ call' = call /\ refusals' = refusals
        /\ answer' = answer /\ stored' = stored /\ cause' = cause
    BY <1>1 DEF serviceVars
  <2>2. QED
    BY <2>1 DEF CallInv, Shapes, Answers, Counted, SameErrorSameCode,
                NamedFaultsAreAllFaults, RefusedOncePerCheck
<1>2. CASE Agent
  BY <1>2, AskStep, RepairStep, NextCallStep DEF Agent
<1>3. CASE Service
  <2>1. CASE Page
    BY <1>1, <2>1 DEF Page
  <2>2. QED
    BY <1>3, <2>1, UnknownToolStep, RefuseArgumentsStep, PrepareStep, RefuseBodyStep,
       RefuseMissingStep, RefuseTargetStep, BeginStep, ReturnStep, FailStep DEF Service
<1>4. QED  BY <1>1, <1>2, <1>3 DEF Next, Meanwhile, vars

LEMMA CallInductive == Spec => []CallInv
BY StartsWell, CallStep, PTL DEF Spec

-----------------------------------------------------------------------------
(* The listing of a call is one of Pagination, whatever surrounds it.      *)
LEMMA PagingOfAStep == [Next]_vars => [PagingNext]_pagingVars
<1> SUFFICES ASSUME [Next]_vars PROVE [PagingNext]_pagingVars
  OBVIOUS
<1>1. CASE Agent
  BY <1>1 DEF Agent, Ask, Repair, NextCall, PagingNext
<1>2. CASE Meanwhile
  BY <1>2 DEF Meanwhile, PagingNext
<1>3. CASE Service
  <2>1. CASE \/ UnknownTool \/ RefuseArguments \/ Prepare
             \/ RefuseBody \/ RefuseMissing \/ RefuseTarget
    BY <2>1 DEF UnknownTool, RefuseArguments, Prepare, RefuseBody, RefuseMissing,
           RefuseTarget
  <2>2. CASE BeginWrite \/ Hit \/ Store \/ WriteFails \/ Written
    BY <2>2 DEF BeginWrite, Hit, Store, WriteFails, Written
  <2>3. CASE BeginFetch \/ Page \/ PageFails \/ PageDoesNotFit
    BY <2>3 DEF BeginFetch, Page, PageFails, PageDoesNotFit, PagingNext
  <2>4. QED  BY <1>3, <2>1, <2>2, <2>3 DEF Service
<1>4. CASE UNCHANGED vars
  BY <1>4 DEF vars
<1>5. QED  BY <1>1, <1>2, <1>3, <1>4 DEF Next

(* A fetch within a tool call is a fetch: what other clients do to the     *)
(* listing and how a page fails is all that PagingSpec allows, so what is  *)
(* proved of it holds in every call.                                       *)
THEOREM CallsPageAsListings == Spec => PagingSpec
<1>1. Init => PagingInit
  BY DEF Init
<1>2. QED  BY <1>1, PagingOfAStep, PTL DEF Spec, PagingSpec

-----------------------------------------------------------------------------
(* Whatever the arguments, the API and other clients do, a call keeps its  *)
(* types: only an error names fields, whether a check, the API or the      *)
(* schema of an answer named them, only a failed call has a cause, and     *)
(* nothing that could not be coerced gets past the door.                   *)
THEOREM CallsAreTyped == Spec => []TypeOK
<1>1. PInv /\ CallInv => TypeOK
  BY DEF PInv, CallInv, Shapes, Answers, TypeOK
<1>2. QED  BY <1>1, CallsPageAsListings, PagingInductive, CallInductive, PTL

(* An agent that repairs what a refusal names is refused once for its      *)
(* arguments, once more for the body of a bulk write, and twice more for   *)
(* the mode and the target of a write that has them, whatever it sent: no  *)
(* check keeps something back for the next try.  The one call of which     *)
(* that is not so is a replace or update without its target, whose refusal *)
(* names id (write_use_cases.py:81).                                       *)
THEOREM RefusalsNameEverything == Spec => []NamedFaultsAreAllFaults
<1>1. CallInv => NamedFaultsAreAllFaults
  BY DEF CallInv, Counted
<1>2. QED  BY <1>1, CallInductive, PTL

(* _resolve_code gives an error of the API the same code from all three    *)
(* generations of envelope, and from bare text that of a key in it.        *)
THEOREM ErrorsKeepTheirCode == Spec => []SameErrorSameCode
<1>1. CallInv => SameErrorSameCode
  BY DEF CallInv, Answers
<1>2. QED  BY <1>1, CallInductive, PTL

(* prepare_arguments lets in only what has the declared type, leaves alone *)
(* what had it already, down to the members of a row, and is idempotent,   *)
(* for any arguments.                                                      *)
THEOREM LeniencyIsBounded == Spec => LeniencyKeepsTheContract
<1> DEFINE A == phase' = "prepared" /\ phase = "received" =>
                  LetIn(Tools[call.tool].properties, call.args, call'.args)
<1>1. CallInv /\ [Next]_vars => [A]_vars
  <2> SUFFICES ASSUME CallInv, Next, phase' = "prepared", phase = "received"
               PROVE  LetIn(Tools[call.tool].properties, call.args, call'.args)
    BY DEF A
  <2>1. Prepare
    BY DEF Next, Agent, Service, Ask, Repair, NextCall, Meanwhile, UnknownTool,
           RefuseArguments, RefuseBody, RefuseMissing, RefuseTarget, RefuseWith, Answer,
           BeginWrite, Hit, BeginFetch, Page, Store, PageFails, PageDoesNotFit,
           WriteFails, Written, serviceVars
  <2>2. /\ call.tool \in DOMAIN Tools /\ AreArguments(call.args)
        /\ Faults(Tools[call.tool], call.args) = {}
        /\ call'.args = Prepared(Tools[call.tool], call.args)
    BY <2>1 DEF Prepare, CallInv, Shapes
  <2>3. QED  BY <2>2, PreparedIsLetIn
<1>2. QED  BY <1>1, CallInductive, PTL DEF Spec, LeniencyKeepsTheContract

-----------------------------------------------------------------------------
(* So the listing that a tool call answers with, whatever calls and        *)
(* refusals came before, lacks at most as many rows as other clients       *)
(* removed while it was read (get_measures, _fetch_measures).              *)
THEOREM CallsListEverything == Spec => []MissesAtMostTheRemoved
BY CallsPageAsListings, ListingsAreComplete, PTL

(* And it repeats at most as many as they inserted.                        *)
THEOREM CallsRepeatLittle == Spec => []RepeatsAtMostTheInserted
BY CallsPageAsListings, ListingsRepeatLittle, PTL

-----------------------------------------------------------------------------
(* The steps of the service that a call has left at most.                  *)
StepsLeft ==
    IF phase = "received" THEN MaxPages + 3
    ELSE IF phase = "prepared" THEN MaxPages + 2
    ELSE IF phase = "fetching" /\ fetch = "asking" THEN MaxPages - page + 2
    ELSE IF phase \in {"fetching", "writing"} THEN 1 ELSE 0

(* Every step of the service is one of them; other clients of the API add  *)
(* none; and an agent begins only when its last call is over.              *)
EveryStepCounts ==
    \/ StepsLeft' < StepsLeft
    \/ StepsLeft' = StepsLeft /\ UNCHANGED serviceVars
    \/ phase \in {"ready", "answered"}

BudgetHolds ==
    /\ StepsLeft \in 0 .. MaxPages + 3
    /\ StepsLeft = 0 <=> phase \in {"ready", "answered"}

(* No listing is under way but the one of this call, which is not stuck.   *)
InStep ==
    /\ phase = "fetching" => fetch \in {"asking", "done"}
    /\ phase \in {"ready", "received", "prepared", "writing"} => fetch = "idle"

(* Each of the phases of a call leads on: in "received" and "writing" by   *)
(* their actions' guards, in the others by these.                          *)
SomethingToDo ==
    /\ phase = "prepared" => call.tool \in DOMAIN Tools /\ fetch = "idle"
    /\ phase = "fetching" => fetch \in {"asking", "done"}

LEMMA InStepKept == CallInv /\ InStep /\ [Next]_vars => InStep'
<1> SUFFICES ASSUME CallInv, InStep, [Next]_vars PROVE InStep'
  OBVIOUS
<1>1. CASE \/ Ask \/ UnknownTool \/ RefuseArguments \/ Prepare
           \/ RefuseBody \/ RefuseMissing \/ RefuseTarget \/ BeginWrite \/ Hit
  BY <1>1 DEF InStep, Ask, UnknownTool, RefuseArguments, Prepare, RefuseBody,
         RefuseMissing, RefuseTarget, RefuseWith, BeginWrite, Hit, Answer, pagingVars
<1>2. CASE Repair \/ NextCall
  BY <1>2 DEF InStep, Repair, NextCall, EndPaging
<1>3. CASE BeginFetch
  BY <1>3 DEF InStep, BeginFetch, BeginPaging
<1>4. CASE Page \/ Meanwhile
  BY <1>4 DEF InStep, Page, Meanwhile, FetchPage, AddRow, RemoveRow, serviceVars
<1>5. CASE Store \/ Written \/ PageFails \/ PageDoesNotFit \/ WriteFails
  BY <1>5 DEF InStep, Store, Written, PageFails, PageDoesNotFit, WriteFails, Answer
<1>6. CASE UNCHANGED vars
  BY <1>6 DEF InStep, vars, serviceVars, pagingVars
<1>7. QED
  BY <1>1, <1>2, <1>3, <1>4, <1>5, <1>6 DEF Next, Agent, Service

LEMMA ServiceStepCounts ==
    ASSUME CallInv, PInv, Service
    PROVE  StepsLeft' < StepsLeft
<1>1. MaxPages \in Nat \ {0} /\ page \in 1 .. MaxPages
  BY PagingAssumption DEF PInv, PagingTypeOK
<1>2. ASSUME phase \in {"received", "prepared", "fetching", "writing"}, phase' = "answered"
      PROVE  StepsLeft' < StepsLeft
  <2>1. StepsLeft' = 0
    BY <1>2 DEF StepsLeft
  <2>2. StepsLeft >= 1 /\ StepsLeft \in Nat
    BY <1>1, <1>2 DEF StepsLeft
  <2>3. QED  BY <2>1, <2>2
<1>3. CASE \/ UnknownTool \/ RefuseArguments
           \/ RefuseBody \/ RefuseMissing \/ RefuseTarget \/ Hit \/ Store
           \/ PageFails \/ PageDoesNotFit \/ WriteFails \/ Written
  BY <1>2, <1>3 DEF UnknownTool, RefuseArguments, RefuseBody, RefuseMissing,
         RefuseTarget, RefuseWith, Hit, Store, PageFails, PageDoesNotFit, WriteFails, Written, Answer
<1>4. CASE Prepare
  BY <1>1, <1>4 DEF Prepare, StepsLeft
<1>5. CASE BeginWrite
  BY <1>1, <1>5 DEF BeginWrite, StepsLeft
<1>6. CASE BeginFetch
  <2>1. page' = 1 /\ phase = "prepared" /\ phase' = "fetching" /\ fetch' = "asking"
    BY <1>6 DEF BeginFetch, BeginPaging, PInv, IdleIsEmpty
  <2>2. QED  BY <1>1, <2>1 DEF StepsLeft
<1>7. CASE Page
  <2>1. phase = "fetching" /\ phase' = "fetching" /\ fetch = "asking"
    BY <1>7 DEF Page, FetchPage, serviceVars
  <2>2. \/ fetch' = "done"
        \/ fetch' = "asking" /\ page' = page + 1
    BY <1>7 DEF Page, FetchPage
  <2>3. QED  BY <1>1, <2>1, <2>2 DEF StepsLeft
<1>8. QED  BY <1>3, <1>4, <1>5, <1>6, <1>7 DEF Service

(* Every call runs out of steps: whatever the arguments, and however the   *)
(* listing grows while it is read, on_call_tool takes at most              *)
(* MaxPages + 3 steps to its answer (the arguments, the cache, the pages,  *)
(* the entry), and it has a step to take until then.  What                 *)
(* EveryCallIsAnswered adds is that it takes it.                           *)
THEOREM CallsRunOut == Spec => [](BudgetHolds /\ SomethingToDo) /\ [][EveryStepCounts]_vars
<1>1. Init => InStep
  BY ErrorFields DEF Init, InStep, PagingInit
<1>2. CallInv /\ PInv => BudgetHolds
  <2>1. ASSUME CallInv, PInv PROVE BudgetHolds
    <3>1. /\ MaxPages \in Nat \ {0} /\ page \in 1 .. MaxPages
          /\ phase \in {"ready", "received", "prepared", "fetching", "writing", "answered"}
      BY <2>1, PagingAssumption DEF CallInv, Shapes, PInv, PagingTypeOK
    <3>2. QED  BY <3>1 DEF BudgetHolds, StepsLeft
  <2>2. QED  BY <2>1
<1>3. CallInv /\ InStep => SomethingToDo
  BY DEF CallInv, Counted, Settled, InStep, SomethingToDo
<1>4. CallInv /\ PInv /\ [Next]_vars => [EveryStepCounts]_vars
  <2>1. CASE Service
    BY <2>1, ServiceStepCounts DEF EveryStepCounts
  <2>2. CASE Meanwhile
    BY <2>2 DEF Meanwhile, AddRow, RemoveRow, EveryStepCounts, StepsLeft, serviceVars
  <2>3. CASE Agent
    BY <2>3 DEF Agent, Ask, Repair, NextCall, EveryStepCounts
  <2>4. QED  BY <2>1, <2>2, <2>3 DEF Next
<1>5. QED  BY <1>1, <1>2, <1>3, <1>4, InStepKept, CallInductive, CallsPageAsListings,
              PagingInductive, PTL DEF Spec
=============================================================================
