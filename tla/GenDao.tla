------------------------------- MODULE GenDao -------------------------------
(***************************************************************************)
(* gen/gen.go, the pure part: what the generator makes of enums.yaml and   *)
(* of one file of dao/ - the SQL migration, the generated Go file and the  *)
(* hand-kept skeleton.  Text is abstracted to what it refers to: a column  *)
(* is its SQL type and constraints, a Go type the sequence of its parts    *)
(* ("*", "[]", "sql.Null", a base type), a file the declarations, imports  *)
(* and packages in it.                                                     *)
(*                                                                         *)
(* A field of a source file is a record                                    *)
(*   [name, type, seq, primary, unique, array, nullable, enum, dataType,   *)
(*    default, references]                                                 *)
(* where array is "no", "open" or "sized" and references a number.         *)
(***************************************************************************)
EXTENDS Integers, FiniteSets, SequencesExt

\* What Go calls "": a key left out of the YAML.
Unset == "unset"

NoError == "nil"

\* The types a field may name, with the SQL type and the Go type of each.
\* "varchar" stands for varchar(n) with a number n.
PlainTypes ==
    [int64 |-> <<"BIGINT", "int64">>, int32 |-> <<"INT", "int">>,
     uint64 |-> <<"INT", "uint64">>, uint32 |-> <<"INT", "uint32">>,
     string |-> <<"TEXT", "string">>, text |-> <<"TEXT", "string">>,
     bool |-> <<"BOOLEAN", "bool">>, uuid |-> <<"UUID", "uuid.UUID">>,
     json |-> <<"JSONB", "postgres.Json">>, date |-> <<"DATE", "time.Time">>,
     time |-> <<"TIME", "time.Time">>, duration |-> <<"INTERVAL", "time.Duration">>,
     timestamp |-> <<"TIMESTAMPTZ", "time.Time">>,
     geometry |-> <<"GEOMETRY", "postgres.Geometry">>,
     varchar |-> <<"VARCHAR", "string">>]

\* The package a Go type of the generator's own choosing belongs to.
PackageOf(part) ==
    CASE part = "uuid.UUID" -> "uuid"
      [] part \in {"time.Time", "time.Duration"} -> "time"
      [] part = "sql.Null" -> "sql"
      [] part \in {"postgres.Json", "postgres.Geometry"} -> "postgres"
      [] OTHER -> Unset

\* Why a field is refused, in the order of the checks.
FieldError(f, enums) ==
    CASE f.type = "json" /\ f.dataType = Unset -> "errInvalidJSONField"
      [] f.type = "enum" /\ f.enum = Unset -> "errInvalidEnumField"
      [] f.type = "enum" /\ f.enum \notin enums -> "errEnumNotFound"
      [] f.type = "varchar(" -> "errInvalidFieldType"
      [] f.type \notin DOMAIN PlainTypes \cup {"enum"} -> "errUnsupportedFieldType"
      [] f.references \notin {0, 2} -> "errReferencesMustContainTwoValues"
      [] OTHER -> NoError

SqlType(f) == IF f.type = "enum" THEN f.enum ELSE PlainTypes[f.type][1]

dataTypeOrDefault(f, def) == IF f.dataType # Unset THEN <<f.dataType>> ELSE def
nullableDataTypeOrDefault(f, def) ==
    IF f.dataType # Unset THEN <<"*", f.dataType>> ELSE def

\* The Go type before the array brackets.  A json field always has a data
\* type, so a nullable one is a pointer to that type, without postgres.Json.
ElementType(f) ==
    LET base == <<IF f.type = "enum" THEN f.enum ELSE PlainTypes[f.type][2]>>
        null == IF f.type = "geometry" THEN <<"sql.Null">> \o base ELSE <<"*">> \o base
    IN  CASE f.nullable -> nullableDataTypeOrDefault(f, null)
          [] f.type = "json" -> base \o <<f.dataType>>
          [] OTHER -> dataTypeOrDefault(f, base)

ModelType(f) ==
    CASE f.array = "no" -> ElementType(f)
      [] f.array = "open" -> <<"[]">> \o ElementType(f)
      [] f.array = "sized" -> <<"[n]">> \o ElementType(f)

When(condition, x) == IF condition THEN {x} ELSE {}

Attributes(f) ==
    When(f.seq, "sequence") \cup When(f.unique, "unique") \cup When(f.nullable, "nullable")
    \cup When(f.type \in {"uuid", "json", "geometry"}, f.type)
    \cup When(f.type = "timestamp", "time")

SqlExtras(f) ==
    When(f.nullable, "NULL") \cup When(~f.nullable, "NOT NULL") \cup When(f.unique, "UNIQUE")
    \cup When(f.primary, "PRIMARY KEY") \cup When(f.references > 0, "REFERENCES")
    \cup When(f.default, "DEFAULT")

generateModelField(f) ==
    [name |-> f.name,
     sql |-> SqlType(f), brackets |-> f.array, extras |-> SqlExtras(f),
     go |-> ModelType(f), attributes |-> Attributes(f)]

\* The first field that is refused ends the model.
ModelError(fields, enums) ==
    LET bad == {i \in DOMAIN fields : FieldError(fields[i], enums) # NoError}
    IN  IF bad = {} THEN NoError
        ELSE FieldError(fields[CHOOSE i \in bad : \A j \in bad : i <= j], enums)

generateModel(fields) ==
    LET made == [i \in DOMAIN fields |-> generateModelField(fields[i])]
    IN  [fields |-> made,
         attributes |-> UNION {made[i].attributes : i \in DOMAIN made}]

-----------------------------------------------------------------------------
(* One source file: [name, modelName, daoImports, imports, fields].  An     *)
(* import is a pair of an alias and a path, or BrokenImport when the YAML lists   *)
(* something that is not a pair.                                            *)

BrokenImport == "broken"

\* getter, setter, impl and row all spell out the type of every field.
ModelText(model) ==
    [getters |-> [i \in DOMAIN model.fields |-> <<model.fields[i].name, model.fields[i].go>>],
     uses |-> {PackageOf(p) : p \in UNION {{model.fields[i].go[k] : k \in DOMAIN model.fields[i].go} :
                    i \in DOMAIN model.fields}} \ {Unset}]

\* The table, its columns and the constructor of the generated dao.
DaoText(source, model) ==
    [table |-> source.name,
     columns |-> [i \in DOMAIN model.fields |-> model.fields[i].name],
     uses |-> {"squirrel", "postgres"}]

\* An import is added when a field has the attribute and the text uses it.
AutoImports(model) ==
    {p \in {"uuid", "time", "sql"} :
        /\ \/ p \in {"uuid", "time"} /\ p \in model.attributes
           \/ p = "sql" /\ "nullable" \in model.attributes
        /\ p \in ModelText(model).uses}

DaoGenImports(source, model) ==
    <<"squirrel", "postgres">> \o source.daoImports \o SetToSeq(AutoImports(model))

SkeletonImports(source) ==
    <<"context", "fmt", "squirrel", "util", "postgres">> \o source.imports

\* The migration: sequences first, then the table, then the unique indexes.
SqlText(source, model) ==
    LET with(a) == {model.fields[i].name : i \in {j \in DOMAIN model.fields : a \in model.fields[j].attributes}}
    IN  [sequences |-> with("sequence"), table |-> source.name,
         columns |-> [i \in DOMAIN model.fields |->
            [name |-> model.fields[i].name, type |-> model.fields[i].sql,
             brackets |-> model.fields[i].brackets, extras |-> model.fields[i].extras]],
         indexes |-> with("unique")]

\* The file that is written once and then belongs to the programmer.
Skeleton(source) ==
    [imports |-> SkeletonImports(source), model |-> source.modelName, row |-> source.modelName,
     methods |-> {"Create", "CreateBatch", "List", "GetById"}]

\* generateFile refuses a source whose fields or imports are wrong.
FileError(source, enums) ==
    CASE ModelError(source.fields, enums) # NoError -> ModelError(source.fields, enums)
      [] BrokenImport \in ToSet(source.daoImports) \cup ToSet(source.imports) -> "errFailedToParseImport"
      [] OTHER -> NoError

generateFile(source) ==
    LET model == generateModel(source.fields)
    IN  [sql |-> SqlText(source, model),
         daoGen |-> [imports |-> DaoGenImports(source, model),
                     model |-> ModelText(model), dao |-> DaoText(source, model)],
         dao |-> Skeleton(source)]

\* enums_gen.sql and enums_gen.go list every enum with its values.
generateEnums(enums) == [declares |-> enums]
=============================================================================
