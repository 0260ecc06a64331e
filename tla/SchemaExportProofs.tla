-------------------------- MODULE SchemaExportProofs --------------------------
(***************************************************************************)
(* What can be told from the export of a schema, whatever texts it has.    *)
(*                                                                         *)
(* export_schema leaves out what is empty, not set or usual; Python gets   *)
(* flags for cardinalities and no format.  The theorems say that nothing   *)
(* but that format is lost: two descriptions with the same export are the  *)
(* same.                                                                   *)
(***************************************************************************)
EXTENDS SchemaExport, TLAPS

-----------------------------------------------------------------------------
\* What the node of an attribute holds under each key.
LEMMA InAttribute ==
  ASSUME NEW Texts, NEW a \in Attributes(Texts), NEW v
  PROVE  /\ <<"type", v>> \in ExportAttribute(a) <=> v = a.type
         /\ <<"range", v>> \in ExportAttribute(a) <=> v = a.range /\ a.range # ""
         /\ <<"format", v>> \in ExportAttribute(a) <=>
              v = a.format /\ a.format # "not applicable"
         /\ <<"is-not-null", TRUE>> \in ExportAttribute(a) <=> a.not_null
         /\ <<"is-multi-value", TRUE>> \in ExportAttribute(a) <=> a.multi
         /\ <<"default-value", v>> \in ExportAttribute(a) <=> v = a.default /\ a.default # ""
         /\ <<"description", v>> \in ExportAttribute(a) <=>
              v = a.description /\ a.description # ""
<1>1. <<"type", v>> \in ExportAttribute(a) <=> v = a.type
  BY DEF ExportAttribute, Put, PutText, PutTrue, Attributes
<1>2. <<"range", v>> \in ExportAttribute(a) <=> v = a.range /\ a.range # ""
  BY DEF ExportAttribute, Put, PutText, PutTrue, Attributes
<1>3. <<"format", v>> \in ExportAttribute(a) <=> v = a.format /\ a.format # "not applicable"
  BY DEF ExportAttribute, Put, PutText, PutTrue, Attributes
<1>4. <<"is-not-null", TRUE>> \in ExportAttribute(a) <=> a.not_null
  BY DEF ExportAttribute, Put, PutText, PutTrue, Attributes
<1>5. <<"is-multi-value", TRUE>> \in ExportAttribute(a) <=> a.multi
  BY DEF ExportAttribute, Put, PutText, PutTrue, Attributes
<1>6. <<"default-value", v>> \in ExportAttribute(a) <=> v = a.default /\ a.default # ""
  BY DEF ExportAttribute, Put, PutText, PutTrue, Attributes
<1>7. <<"description", v>> \in ExportAttribute(a) <=> v = a.description /\ a.description # ""
  BY DEF ExportAttribute, Put, PutText, PutTrue, Attributes
<1> QED BY <1>1, <1>2, <1>3, <1>4, <1>5, <1>6, <1>7

\* ExportAttribute (export_schema): the export of an attribute tells everything about it,
\* although empty texts, flags that are not set and the format of non-integers are left out.
THEOREM AttributeTold ==
  ASSUME NEW Texts, NEW a \in Attributes(Texts), NEW b \in Attributes(Texts),
         ExportAttribute(a) = ExportAttribute(b)
  PROVE  a = b
<1>1. a.type = b.type
  BY InAttribute DEF Attributes
<1>2. a.range = b.range
  BY InAttribute DEF Attributes
<1>3. a.format = b.format
  BY InAttribute DEF Attributes
<1>4. a.not_null = b.not_null
  BY InAttribute DEF Attributes
<1>5. a.multi = b.multi
  BY InAttribute DEF Attributes
<1>6. a.default = b.default
  BY InAttribute DEF Attributes
<1>7. a.description = b.description
  BY InAttribute DEF Attributes
<1> QED BY <1>1, <1>2, <1>3, <1>4, <1>5, <1>6, <1>7 DEF Attributes

\* What the node of a relationship holds under each key.
LEMMA InRelationship ==
  ASSUME NEW Texts, NEW r \in Relationships(Texts), NEW v
  PROVE  /\ <<"type", v>> \in ExportRelationship(r) <=> v = r.type
         /\ <<"cardinality", v>> \in ExportRelationship(r) <=> v = r.cardinality
         /\ <<"is-aggregation", FALSE>> \in ExportRelationship(r) <=> ~ r.aggregation
         /\ <<"description", v>> \in ExportRelationship(r) <=>
              v = r.description /\ r.description # ""
<1>1. <<"type", v>> \in ExportRelationship(r) <=> v = r.type
  BY DEF ExportRelationship, Put, PutText, Relationships
<1>2. <<"cardinality", v>> \in ExportRelationship(r) <=> v = r.cardinality
  BY DEF ExportRelationship, Put, PutText, Relationships
<1>3. <<"is-aggregation", FALSE>> \in ExportRelationship(r) <=> ~ r.aggregation
  BY DEF ExportRelationship, Put, PutText, Relationships
<1>4. <<"description", v>> \in ExportRelationship(r) <=> v = r.description /\ r.description # ""
  BY DEF ExportRelationship, Put, PutText, Relationships
<1> QED BY <1>1, <1>2, <1>3, <1>4

\* ExportRelationship (export_schema): the export of a relationship tells everything
\* about it, although only what is not an aggregation is marked.
THEOREM RelationshipTold ==
  ASSUME NEW Texts, NEW r \in Relationships(Texts), NEW s \in Relationships(Texts),
         ExportRelationship(r) = ExportRelationship(s)
  PROVE  r = s
<1>1. r.type = s.type
  BY InRelationship DEF Relationships
<1>2. r.cardinality = s.cardinality
  BY InRelationship DEF Relationships
<1>3. r.aggregation = s.aggregation
  BY InRelationship DEF Relationships
<1>4. r.description = s.description
  BY InRelationship DEF Relationships
<1> QED BY <1>1, <1>2, <1>3, <1>4 DEF Relationships

-----------------------------------------------------------------------------
\* The elements of a list, and when two lists are the same.
LEMMA InSeq ==
  ASSUME NEW S, NEW s \in Seq(S), NEW i \in DOMAIN s
  PROVE  s[i] \in S
OBVIOUS

LEMMA SameSeq ==
  ASSUME NEW S, NEW s \in Seq(S), NEW t \in Seq(S), DOMAIN s = DOMAIN t,
         \A i \in DOMAIN s : s[i] = t[i]
  PROVE  s = t
<1>1. s \in [DOMAIN s -> S] /\ t \in [DOMAIN t -> S]
  OBVIOUS
<1> QED BY <1>1

\* The list of attributes of a class tells their names, order and contents.
LEMMA AttributesTold ==
  ASSUME NEW Texts,
         NEW s \in Seq([name : Texts, is : Attributes(Texts)]),
         NEW t \in Seq([name : Texts, is : Attributes(Texts)]),
         AttributeList(s) = AttributeList(t)
  PROVE  s = t
<1>1. DOMAIN AttributeList(s) = DOMAIN s /\ DOMAIN AttributeList(t) = DOMAIN t
  BY DEF AttributeList
<1>2. DOMAIN s = DOMAIN t
  BY <1>1
<1>3. ASSUME NEW i \in DOMAIN s
      PROVE  s[i] = t[i]
  <2>1. /\ s[i] \in [name : Texts, is : Attributes(Texts)]
        /\ t[i] \in [name : Texts, is : Attributes(Texts)]
    BY <1>2, InSeq
  <2>2. AttributeList(s)[i] = AttributeList(t)[i]
    OBVIOUS
  <2>3. <<s[i].name, ExportAttribute(s[i].is)>> = <<t[i].name, ExportAttribute(t[i].is)>>
    BY <1>2, <2>2 DEF AttributeList
  <2>4. s[i].name = t[i].name /\ s[i].is = t[i].is
    BY <2>1, <2>3, AttributeTold
  <2> QED BY <2>1, <2>4
<1> QED BY <1>2, <1>3, SameSeq

\* So does the list of its relationships.
LEMMA RelationshipsTold ==
  ASSUME NEW Texts,
         NEW s \in Seq([name : Texts, is : Relationships(Texts)]),
         NEW t \in Seq([name : Texts, is : Relationships(Texts)]),
         RelationshipList(s) = RelationshipList(t)
  PROVE  s = t
<1>1. DOMAIN RelationshipList(s) = DOMAIN s /\ DOMAIN RelationshipList(t) = DOMAIN t
  BY DEF RelationshipList
<1>2. DOMAIN s = DOMAIN t
  BY <1>1
<1>3. ASSUME NEW i \in DOMAIN s
      PROVE  s[i] = t[i]
  <2>1. /\ s[i] \in [name : Texts, is : Relationships(Texts)]
        /\ t[i] \in [name : Texts, is : Relationships(Texts)]
    BY <1>2, InSeq
  <2>2. RelationshipList(s)[i] = RelationshipList(t)[i]
    OBVIOUS
  <2>3. <<s[i].name, ExportRelationship(s[i].is)>> = <<t[i].name, ExportRelationship(t[i].is)>>
    BY <1>2, <2>2 DEF RelationshipList
  <2>4. s[i].name = t[i].name /\ s[i].is = t[i].is
    BY <2>1, <2>3, RelationshipTold
  <2> QED BY <2>1, <2>4
<1> QED BY <1>2, <1>3, SameSeq

\* What the node of a class holds under each key.
LEMMA InClass ==
  ASSUME NEW Texts, NEW c \in ClassDescriptions(Texts), NEW v
  PROVE  /\ <<"abstract", v>> \in ExportClass(c) <=> v = c.abstract
         /\ <<"description", v>> \in ExportClass(c) <=> v = c.description /\ c.description # ""
         /\ <<"superclasses", v>> \in ExportClass(c) <=>
              v = c.superclasses /\ c.superclasses # << >>
         /\ <<"attributes", v>> \in ExportClass(c) <=>
              v = AttributeList(c.attributes) /\ AttributeList(c.attributes) # << >>
         /\ <<"relationships", v>> \in ExportClass(c) <=>
              v = RelationshipList(c.relationships) /\ RelationshipList(c.relationships) # << >>
<1>1. <<"abstract", v>> \in ExportClass(c) <=> v = c.abstract
  BY DEF ExportClass, Put, PutText, PutList
<1>2. <<"description", v>> \in ExportClass(c) <=> v = c.description /\ c.description # ""
  BY DEF ExportClass, Put, PutText, PutList
<1>3. <<"superclasses", v>> \in ExportClass(c) <=> v = c.superclasses /\ c.superclasses # << >>
  BY DEF ExportClass, Put, PutText, PutList
<1>4. <<"attributes", v>> \in ExportClass(c) <=>
        v = AttributeList(c.attributes) /\ AttributeList(c.attributes) # << >>
  BY DEF ExportClass, Put, PutText, PutList
<1>5. <<"relationships", v>> \in ExportClass(c) <=>
        v = RelationshipList(c.relationships) /\ RelationshipList(c.relationships) # << >>
  BY DEF ExportClass, Put, PutText, PutList
<1> QED BY <1>1, <1>2, <1>3, <1>4, <1>5

\* ExportClass (export_schema): the export of a class tells everything about it, its lists of
\* superclasses, attributes and relationships in their order, although empty ones are left out.
THEOREM ClassTold ==
  ASSUME NEW Texts, NEW c \in ClassDescriptions(Texts), NEW d \in ClassDescriptions(Texts),
         ExportClass(c) = ExportClass(d)
  PROVE  c = d
<1>1. c.abstract = d.abstract
  BY InClass
<1>2. c.description = d.description
  BY InClass
<1>3. c.superclasses = d.superclasses
  BY InClass
<1>4. c.attributes = d.attributes
  <2>1. AttributeList(c.attributes) = AttributeList(d.attributes)
    BY InClass
  <2> QED BY <2>1, AttributesTold DEF ClassDescriptions
<1>5. c.relationships = d.relationships
  <2>1. RelationshipList(c.relationships) = RelationshipList(d.relationships)
    BY InClass
  <2> QED BY <2>1, RelationshipsTold DEF ClassDescriptions
<1> QED BY <1>1, <1>2, <1>3, <1>4, <1>5 DEF ClassDescriptions

-----------------------------------------------------------------------------
\* PythonRelation (relations of the Python module) and the constructor of relationship_t:
\* the two flags Python gets say what the cardinality was made from.
THEOREM CardinalityTold ==
  ASSUME NEW Texts, NEW r \in Relationships(Texts), NEW null \in BOOLEAN, NEW multi \in BOOLEAN,
         r.cardinality = Cardinality_(null, multi)
  PROVE  /\ PythonRelation(r).multivalue <=> multi
         /\ PythonRelation(r).not_null <=> ~ null
<1>1. IsMany(r.cardinality) <=> multi
  BY DEF Cardinality_, IsMany
<1>2. r.cardinality \in {"one", "one or many"} <=> ~ null
  BY DEF Cardinality_
<1>3. /\ PythonRelation(r).multivalue = IsMany(r.cardinality)
      /\ PythonRelation(r).not_null = (r.cardinality \in {"one", "one or many"})
  BY DEF PythonRelation
<1> QED BY <1>1, <1>2, <1>3

\* The two flags tell the four cardinalities apart.
LEMMA CardinalityByFlags ==
  ASSUME NEW x \in Cardinalities, NEW y \in Cardinalities,
         IsMany(x) <=> IsMany(y),
         x \in {"one", "one or many"} <=> y \in {"one", "one or many"}
  PROVE  x = y
<1>1. CASE x = "one"
  BY <1>1 DEF Cardinalities, IsMany
<1>2. CASE x = "one or many"
  BY <1>2 DEF Cardinalities, IsMany
<1>3. CASE x = "zero or one"
  BY <1>3 DEF Cardinalities, IsMany
<1>4. CASE x = "zero or many"
  BY <1>4 DEF Cardinalities, IsMany
<1> QED BY <1>1, <1>2, <1>3, <1>4 DEF Cardinalities

\* PythonRelation: Python is told everything about a relationship.
THEOREM PythonRelationTold ==
  ASSUME NEW Texts, NEW r \in Relationships(Texts), NEW s \in Relationships(Texts),
         PythonRelation(r) = PythonRelation(s)
  PROVE  r = s
<1>1. /\ r.type = s.type
      /\ r.description = s.description
      /\ r.aggregation = s.aggregation
  BY DEF PythonRelation
<1>2. IsMany(r.cardinality) <=> IsMany(s.cardinality)
  <2>1. PythonRelation(r).multivalue = PythonRelation(s).multivalue
    OBVIOUS
  <2> QED BY <2>1 DEF PythonRelation
<1>3. r.cardinality \in {"one", "one or many"} <=> s.cardinality \in {"one", "one or many"}
  <2>1. PythonRelation(r).not_null = PythonRelation(s).not_null
    OBVIOUS
  <2> QED BY <2>1 DEF PythonRelation
<1>4. r.cardinality \in Cardinalities /\ s.cardinality \in Cardinalities
  BY DEF Relationships
<1>5. r.cardinality = s.cardinality
  BY <1>2, <1>3, <1>4, CardinalityByFlags
<1> QED BY <1>1, <1>5 DEF Relationships

\* PythonAttribute: Python is told everything about an attribute but its format.
THEOREM PythonAttributeTold ==
  ASSUME NEW Texts, NEW a \in Attributes(Texts), NEW b \in Attributes(Texts),
         PythonAttribute(a) = PythonAttribute(b)
  PROVE  b = [a EXCEPT !.format = b.format]
<1>1. /\ a.type = b.type
      /\ a.range = b.range
      /\ a.description = b.description
      /\ a.multi = b.multi
      /\ a.not_null = b.not_null
      /\ a.default = b.default
  BY DEF PythonAttribute
<1> QED BY <1>1 DEF Attributes
=============================================================================
