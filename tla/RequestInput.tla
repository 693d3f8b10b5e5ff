----------------------------- MODULE RequestInput -----------------------------
(***************************************************************************)
(* From the JSON object given to a tool to its request (execution/input.go, *)
(* validate.go and request.go): each field is put into the section of the   *)
(* request that the operation's schema names it in, the required fields are *)
(* looked for, and the request is built.  A flat object's fields come in    *)
(* the order of a Go map: any.                                              *)
(***************************************************************************)
EXTENDS Naturals, FiniteSets

CONSTANTS
  Fields,  \* names of fields
  PathField \* the field that the path of the operation has a place for

ASSUME RequestInputAssumption == PathField \in Fields

Sections == {"path", "query", "body"}  \* headers are treated like the query
Values == {"null", "value"}

\* A section that the schema does not have, or its properties and the ones
\* that are required; a body may be loose (it has additionalProperties).
NoSection == [has |-> FALSE, props |-> {}, required |-> {}, loose |-> FALSE]

SectionSchemas(loose) ==
  {NoSection} \cup
    {s \in [has : {TRUE}, props : SUBSET Fields, required : SUBSET Fields,
            loose : loose] : s.required \subseteq s.props}

\* The path has the section that its place needs, or neither is there.
PathSchemas ==
  {NoSection, [has |-> TRUE, props |-> {PathField},
               required |-> {PathField}, loose |-> FALSE]}

\* Objects: some of the fields with a value each; Empty is the one with none.
Objects(S, T) == UNION {[D -> T] : D \in SUBSET S}
Empty == [f \in {} |-> "null"]

VARIABLE input

InputOf(schema, reserved, sectioned, flat, nested) ==
  [pc |-> "sections", schema |-> schema, reserved |-> reserved,
   sectioned |-> sectioned, flat |-> flat, nested |-> nested,
   left |-> DOMAIN flat,
   fields |-> [s \in Sections |-> Empty], ambiguous |-> {}, unknown |-> {},
   error |-> "none", sent |-> FALSE]

\* Nested sections of a sectioned object: its path and its body.
Nested ==
  {[path |-> p, query |-> Empty, body |-> b] :
     p \in Objects({PathField}, Values), b \in Objects(Fields, {"value"})}

Schemas == {[path |-> p, query |-> q, body |-> b] :
              p \in PathSchemas, q \in SectionSchemas({FALSE}),
              b \in SectionSchemas(BOOLEAN)}

InputInit ==
  \E schema \in Schemas :
    \/ \E flat \in Objects(Fields, Values), reserved \in BOOLEAN :
         input = InputOf(schema, reserved, FALSE, flat,
                         [s \in Sections |-> Empty])
    \/ \E nested \in Nested :
         input = InputOf(schema, FALSE, TRUE, Empty, nested)

InputIdle ==
  input = [InputOf([s \in Sections |-> NoSection], FALSE, FALSE, Empty,
                   [s \in Sections |-> Empty]) EXCEPT !.pc = "done"]

-----------------------------------------------------------------------------
(* NormalizeInput                                                           *)

InputFails(why) == input' = [input EXCEPT !.pc = "done", !.error = why]

HasSchema == \E s \in Sections : input.schema[s].has
Put(fields, s, f) ==
  [fields EXCEPT ![s] = [g \in DOMAIN @ \cup {f} |->
                           IF g = f THEN input.flat[f] ELSE @[g]]]

\* Reserved names are refused, sections taken as they are; without a schema
\* everything is the body.
SplitSections ==
  /\ input.pc = "sections"
  /\ IF input.reserved THEN InputFails("reserved")
     ELSE IF input.sectioned
     THEN input' = [input EXCEPT !.pc = "validate", !.fields = input.nested]
     ELSE IF ~HasSchema
     THEN input' = [input EXCEPT !.pc = "validate",
                                 !.fields["body"] = input.flat]
     ELSE input' = [input EXCEPT !.pc = "assign"]

MatchingInputSections(f) ==
  {s \in Sections : f \in input.schema[s].props}

\* A body that is the only section, or whose schema does not close it, takes
\* the fields that nothing names.
LooseBody ==
  LET body == input.schema["body"]
  IN  /\ body.has
      /\ \/ \A s \in Sections \ {"body"} : ~input.schema[s].has
         \/ body.loose \/ body.props = {}

\* Mutant of AssignField: the first section that names the field has it.
AssignFieldToFirst ==
  /\ input.pc = "assign"
  /\ \E f \in input.left :
       LET matches == MatchingInputSections(f)
           next == [input EXCEPT !.left = @ \ {f}]
           first == IF "path" \in matches THEN "path"
                    ELSE IF "query" \in matches THEN "query" ELSE "body"
       IN  input' =
             CASE matches # {} -> [next EXCEPT !.fields = Put(@, first, f)]
               [] matches = {} /\ LooseBody ->
                    [next EXCEPT !.fields = Put(@, "body", f)]
               [] OTHER -> [next EXCEPT !.unknown = @ \cup {f}]

AssignField ==
  /\ input.pc = "assign"
  /\ \E f \in input.left :
       LET matches == MatchingInputSections(f)
           next == [input EXCEPT !.left = @ \ {f}]
       IN  input' =
             CASE Cardinality(matches) = 1 ->
                    [next EXCEPT !.fields =
                       Put(@, CHOOSE s \in matches : TRUE, f)]
               [] matches = {} /\ LooseBody ->
                    [next EXCEPT !.fields = Put(@, "body", f)]
               [] matches = {} /\ ~LooseBody ->
                    [next EXCEPT !.unknown = @ \cup {f}]
               [] OTHER -> [next EXCEPT !.ambiguous = @ \cup {f}]

FinishFlat ==
  /\ input.pc = "assign" /\ input.left = {}
  /\ IF input.ambiguous # {} THEN InputFails("ambiguous")
     ELSE IF input.unknown # {} THEN InputFails("unknown")
     ELSE input' = [input EXCEPT !.pc = "validate"]

-----------------------------------------------------------------------------
(* ValidateInput and BuildRequest                                           *)

Given(s) == DOMAIN input.fields[s]

Lacks(s, f) == f \notin Given(s) \/ input.fields[s][f] = "null"

ValidateInput ==
  /\ input.pc = "validate"
  /\ IF \E s \in Sections : \E f \in input.schema[s].required : Lacks(s, f)
     THEN InputFails("missing")
     ELSE input' = [input EXCEPT !.pc = "build"]

\* The path keeps a place for which no field was given: an error.
BuildRequest ==
  /\ input.pc = "build"
  /\ IF input.schema["path"].has /\ PathField \notin Given("path")
     THEN InputFails("unresolved")
     ELSE input' = [input EXCEPT !.pc = "done", !.sent = TRUE]

InputNext ==
  SplitSections \/ AssignField \/ FinishFlat \/ ValidateInput \/ BuildRequest

-----------------------------------------------------------------------------
(* Properties                                                               *)

InputTypeOK ==
  /\ input.pc \in {"sections", "assign", "validate", "build", "done"}
  /\ input.left \subseteq DOMAIN input.flat
  /\ input.error \in {"none", "reserved", "ambiguous", "unknown", "missing",
                      "unresolved"}

Named(f) == {s \in Sections : f \in input.schema[s].props}

(***************************************************************************)
(* What becomes of a flat object depends on its fields and the schema, not  *)
(* on the order of a map: a request has each field, with its value, in one  *)
(* section, the one that names it or, if none does, the body; a field that  *)
(* two sections name is never sent, and is the error even if another field  *)
(* is unknown (input.go:82, :98).                                           *)
(***************************************************************************)
FlatMeansOneThing ==
  input.pc = "done" /\ ~input.sectioned /\ HasSchema =>
    /\ input.error = "ambiguous" <=>
         /\ ~input.reserved
         /\ \E f \in DOMAIN input.flat : Cardinality(Named(f)) > 1
    /\ input.sent =>
         \A f \in DOMAIN input.flat :
           LET home == {s \in Sections : f \in Given(s)}
           IN  /\ home = IF Named(f) # {} THEN Named(f) ELSE {"body"}
               /\ \A s \in home : input.fields[s][f] = input.flat[f]

(***************************************************************************)
(* A request that is sent has every field its operation requires, and a     *)
(* value for the place in its path, whether its input was flat or not       *)
(* (validate.go:11, request.go:47).                                         *)
(***************************************************************************)
SentIsComplete ==
  input.sent =>
    /\ \A s \in Sections : \A f \in input.schema[s].required :
         f \in Given(s) /\ input.fields[s][f] = "value"
    /\ input.schema["path"].has => input.fields["path"][PathField] = "value"

(***************************************************************************)
(* An operation whose schema is its body alone takes any object that has    *)
(* what it requires, and nothing but the body is sent (input.go:85).        *)
(***************************************************************************)
BodyTakesAll ==
  /\ input.schema["body"].has /\ ~input.reserved /\ ~input.sectioned
  /\ ~input.schema["path"].has /\ ~input.schema["query"].has
  /\ input.pc = "done"
  => /\ input.error \in {"none", "missing"}
     /\ input.sent => input.fields["body"] = input.flat

(***************************************************************************)
(* A request has each given field in the section that the schema names,     *)
(* whatever the order of the map, and every field that is required          *)
(* (input.go:82, validate.go:11).                                           *)
(***************************************************************************)
RequestIsAsGiven ==
  InputTypeOK /\ FlatMeansOneThing /\ SentIsComplete /\ BodyTakesAll
=============================================================================
