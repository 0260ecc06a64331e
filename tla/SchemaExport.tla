---------------------------- MODULE SchemaExport ----------------------------
(***************************************************************************)
(* How descriptions of classes and values of objects are put into a        *)
(* property tree (export_schema, export_data) and into Python dictionaries. *)
(*                                                                         *)
(* A node of the tree is the set of its <<key, value>> pairs: the order of *)
(* the keys is fixed by the code and says nothing.  An empty string is "". *)
(***************************************************************************)
EXTENDS Naturals, Sequences

Types == {"bool", "s8", "u8", "s16", "u16", "s32", "u32", "s64", "u64", "float", "double",
          "date", "time", "string", "enum", "class"}
Formats == {"octal", "decimal", "hexadecimal", "not applicable"}
Cardinalities == {"zero or one", "zero or many", "one", "one or many"}

\* attribute_t, its name aside, over some texts
Attributes(Texts) ==
  [type : Types, range : Texts, format : Formats, not_null : BOOLEAN, multi : BOOLEAN,
   default : Texts, description : Texts]

\* relationship_t, its name aside
Relationships(Texts) ==
  [type : Texts, cardinality : Cardinalities, aggregation : BOOLEAN, description : Texts]

\* class_t, but for what export_schema leaves out: its name and its subclasses
ClassDescriptions(Texts) ==
  [abstract : BOOLEAN, description : Texts, superclasses : Seq(Texts),
   attributes : Seq([name : Texts, is : Attributes(Texts)]),
   relationships : Seq([name : Texts, is : Relationships(Texts)])]

\* the constructor of relationship_t
Cardinality_(can_be_null, is_multi_value) ==
  IF can_be_null THEN IF is_multi_value THEN "zero or many" ELSE "zero or one"
                 ELSE IF is_multi_value THEN "one or many" ELSE "one"

\* has a relationship of this cardinality a list of values?
IsMany(cardinality) == cardinality \in {"zero or many", "one or many"}

Put(key, value) == {<<key, value>>}
PutText(key, text) == IF text = "" THEN {} ELSE Put(key, text)
PutTrue(key, flag) == IF flag THEN Put(key, TRUE) ELSE {}

\* an attribute in export_schema
ExportAttribute(a) ==
  Put("type", a.type)
    \cup PutText("range", a.range)
    \cup (IF a.format = "not applicable" THEN {} ELSE Put("format", a.format))
    \cup PutTrue("is-not-null", a.not_null)
    \cup PutTrue("is-multi-value", a.multi)
    \cup PutText("default-value", a.default)
    \cup PutText("description", a.description)

\* a relationship in export_schema: being an aggregation is told by its absence
ExportRelationship(r) ==
  Put("type", r.type)
    \cup Put("cardinality", r.cardinality)
    \cup (IF r.aggregation THEN {} ELSE Put("is-aggregation", FALSE))
    \cup PutText("description", r.description)

\* a list in export_schema, left out when it is empty
PutList(key, values) == IF values = << >> THEN {} ELSE Put(key, values)

\* the lists of attributes and of relationships in export_schema
AttributeList(as) == [i \in DOMAIN as |-> <<as[i].name, ExportAttribute(as[i].is)>>]
RelationshipList(rs) == [i \in DOMAIN rs |-> <<rs[i].name, ExportRelationship(rs[i].is)>>]

\* a class in export_schema
ExportClass(c) ==
  Put("abstract", c.abstract)
    \cup PutText("description", c.description)
    \cup PutList("superclasses", c.superclasses)
    \cup PutList("attributes", AttributeList(c.attributes))
    \cup PutList("relationships", RelationshipList(c.relationships))

\* attributes() of the Python module: None stands for an empty range or default;
\* the format is not told
PythonAttribute(a) ==
  [type |-> a.type, range |-> a.range, description |-> a.description,
   multivalue |-> a.multi, not_null |-> a.not_null, init_value |-> a.default]

\* relations() of the Python module
PythonRelation(r) ==
  [type |-> r.type, description |-> r.description, aggregation |-> r.aggregation,
   multivalue |-> IsMany(r.cardinality),
   not_null |-> r.cardinality \in {"one", "one or many"}]

\* add_data of a list: its values, and for none the empty_array_item if there is one
Items(values, marker) ==
  IF values = << >> /\ marker # "" THEN <<marker>> ELSE values
=============================================================================
