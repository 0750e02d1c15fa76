----------------------------- MODULE SchemaCheck -----------------------------
(***************************************************************************)
(* The JSON Schema subset artifacts are validated against.  A value is     *)
(* [ty, n, f]: its type, a number, and its members (by name for an object, *)
(* by index, as "0", for an array).  A schema is {} (no keyword) or one   *)
(* record: type (a set: a string or a list of them), list, enum ({}, or    *)
(* the one set of values allowed), required, props, closed                 *)
(* (additionalProperties false) and items.                                 *)
(***************************************************************************)
EXTENDS Integers, Sequences, FiniteSets

oneSchemaTypeMatches(name, v) ==
    CASE name = "integer" -> v.ty = "number" /\ v.n % 2 = 0      \* halves stand for numbers: 1 is 0.5
      [] name \in {"object", "array", "string", "number", "boolean", "null"} -> v.ty = name
      [] OTHER -> TRUE

\* A list of types is searched, and then anything matches all the same.
schemaTypeMatches(s, v) ==
    IF s.list THEN TRUE ELSE \A t \in s.type : oneSchemaTypeMatches(t, v)

\* Mutant: nested values are not checked.
validateSchemaValue_Shallow(schema, v) ==
    \A s \in schema :
      /\ \A allowed \in s.enum : v \in allowed
      /\ schemaTypeMatches(s, v)
      /\ s.required # {} => v.ty = "object" /\ s.required \subseteq DOMAIN v.f

\* A schema with properties is done with any value that is no object: the
\* elements of an array are checked only where the schema has none.
RECURSIVE validateSchemaValue(_, _)
validateSchemaValue(schema, v) ==
    \A s \in schema :
      /\ \A allowed \in s.enum : v \in allowed
      /\ schemaTypeMatches(s, v)
      /\ s.required # {} => v.ty = "object" /\ s.required \subseteq DOMAIN v.f
      /\ DOMAIN s.props # {} /\ v.ty = "object" =>
           /\ \A k \in DOMAIN s.props \cap DOMAIN v.f : validateSchemaValue(s.props[k], v.f[k])
           /\ s.closed => DOMAIN v.f \subseteq DOMAIN s.props
      /\ DOMAIN s.props = {} /\ v.ty = "array" => \A i \in DOMAIN v.f : validateSchemaValue(s.items, v.f[i])

\* The places of a document a schema speaks of: the document, the members its
\* properties name, and the elements under its items (not those of an array
\* whose schema has properties as well: README section 6).
RECURSIVE Places(_, _)
Places(schema, v) ==
    {<<s, v>> : s \in schema}
    \cup UNION {UNION {Places(s.props[k], v.f[k]) : k \in {k \in DOMAIN s.props : v.ty = "object" /\ k \in DOMAIN v.f}} : s \in schema}
    \cup UNION {UNION {Places(s.items, v.f[i]) : i \in DOMAIN v.f} : s \in {s \in schema : v.ty = "array" /\ DOMAIN s.props = {}}}

\* A document is refused exactly when at one of those places, however deep, a
\* single declared type is not the value's, a declared enum (the empty one too)
\* does not list it, a required member is missing, or a member is there that a
\* closed object does not name.
Fits(s, v) ==
    /\ s.list \/ \A t \in s.type : oneSchemaTypeMatches(t, v)
    /\ s.enum = {} \/ \E allowed \in s.enum : v \in allowed
    /\ \A k \in s.required : v.ty = "object" /\ k \in DOMAIN v.f
    /\ v.ty = "object" /\ s.closed /\ DOMAIN s.props # {} => \A k \in DOMAIN v.f : k \in DOMAIN s.props
SchemaSound(schema, v) == validateSchemaValue(schema, v) <=> \A p \in Places(schema, v) : Fits(p[1], p[2])
=============================================================================
