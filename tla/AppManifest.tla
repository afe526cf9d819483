----------------------------- MODULE AppManifest -----------------------------
(***************************************************************************)
(* `blobyard app`: a scaffold is written where no manifest is, an author   *)
(* edits it, and it is validated.  A manifest is a TOML value.  The schema *)
(* is checked first and alone; a value that it admits is decoded into the  *)
(* manifest's types; the decoded manifest's own references are checked     *)
(* last.  A validation is the set of paths at which it reports errors;     *)
(* wording is left out.                                                    *)
(*                                                                         *)
(* A TOML value is a record with one field, named for its kind.  A string  *)
(* is one of a few samples and a pattern is the set of samples it matches. *)
(***************************************************************************)
EXTENDS Integers, Sequences, FiniteSets, SequencesExt, TLC

CONSTANTS Manifests,    \* the TOML values that blobyard.toml may hold
          CronItems     \* the items that a schedule's fields are made of

VARIABLES manifestFile,    \* what blobyard.toml holds, or NoFile
          manifestAnswer   \* what the last command said of the file as it is

manifestVars == <<manifestFile, manifestAnswer>>

Str(s) == [string |-> s]
Num(n) == [integer |-> n]
Flag(b) == [boolean |-> b]
Arr(items) == [array |-> items]
Tab(fields) == [table |-> fields]

Is(value, kind) == DOMAIN value = {kind}

Junk == Str("")

\* The samples that each pattern matches.
Samples ==
  [label      |-> {"my-app", "api", "nightly", "hook", "files", "mail"},
   role       |-> {"reader", "editor", "owner", "ghost"},
   permission |-> {"notes.read", "notes.write", "notes.created"},
   grant      |-> {"files:read", "mail:read"},
   secret     |-> {"API_KEY"},
   target     |-> {"example.com:443"},
   path       |-> {"dist", "migrations"},
   entry      |-> {"api.ts"},
   route      |-> {"/", "/notes"},
   cron       |-> {"0 3 * * *", "0 24 * * *"},
   zone       |-> {"UTC", "Etc/Nowhere"},
   size       |-> {"50MiB"},
   duration   |-> {"5s"}]

-----------------------------------------------------------------------------
(* The schema: what each part of a manifest may be.                        *)

Pattern(p) == [pattern |-> p]
Enum(values) == [enum |-> values]
Between(low, high) == [low |-> low, high |-> high]
Boolean == [flag |-> TRUE]
Strings(max, p) == [max |-> max, each |-> p]
Many(max, item) == [max |-> max, item |-> item]
Object(required, fields) == [required |-> required, fields |-> fields]
Keyed(min, max, p, item) == [min |-> min, max |-> max, name |-> p, item |-> item]

RoleSchema ==
  Object({}, [inherits |-> Strings(8, "role"), permissions |-> Strings(64, "permission")])

AuthSchema ==
  Object({}, [default_role |-> Pattern("role"), roles |-> Keyed(1, 32, "role", RoleSchema)])

BucketSchema ==
  Object({"name"}, [name |-> Pattern("label"), visibility |-> Enum({"private", "public-read"}),
                    max_object_size |-> Pattern("size")])

FunctionSchema ==
  Object({"name", "entry", "type"},
         [name |-> Pattern("label"), entry |-> Pattern("entry"),
          type |-> Enum({"rpc", "http", "webhook", "event", "scheduled", "queue"}),
          permissions |-> Strings(16, "permission"),
          database |-> Enum({"none", "read", "read-write"}),
          buckets |-> Strings(16, "grant"), secrets |-> Strings(16, "secret"),
          network |-> Strings(16, "target"), email |-> Boolean,
          event |-> Pattern("permission"), queue |-> Pattern("label")])

RetrySchema ==
  Object({}, [max_attempts |-> Between(1, 10), backoff |-> Enum({"fixed", "exponential"})])

JobSchema ==
  Object({"name", "function", "schedule", "timezone"},
         [name |-> Pattern("label"), function |-> Pattern("label"),
          schedule |-> Pattern("cron"), timezone |-> Pattern("zone"), retry |-> RetrySchema])

RouteSchema ==
  Object({"path", "method", "function"},
         [path |-> Pattern("route"),
          method |-> Enum({"GET", "HEAD", "POST", "PUT", "PATCH", "DELETE"}),
          function |-> Pattern("label"), auth |-> Enum({"required", "public"})])

LimitsSchema ==
  Object({}, [function_class |-> Enum({"standard"}), function_timeout |-> Pattern("duration"),
              concurrency |-> Between(1, 100)])

HealthSchema ==
  Object({"function"}, [function |-> Pattern("label"), timeout |-> Pattern("duration")])

RootSchema ==
  Object({"schema_version", "application"},
         [schema_version |-> Between(1, 1),
          application |-> Object({"name", "runtime"}, [name |-> Pattern("label"),
                                                       runtime |-> Enum({"blobyard-js-1"})]),
          frontend |-> Object({"directory"}, [directory |-> Pattern("path"),
                                              spa_fallback |-> Boolean, clean_urls |-> Boolean]),
          auth |-> AuthSchema,
          database |-> Object({"migrations"}, [migrations |-> Pattern("path")]),
          buckets |-> Many(16, BucketSchema), functions |-> Many(64, FunctionSchema),
          jobs |-> Many(32, JobSchema), routes |-> Many(64, RouteSchema),
          limits |-> LimitsSchema, health |-> HealthSchema])

\* Mutant: of two equal items of a list it is the first that is reported.
LeafErrorsFirst(schema, value, path) ==
  LET has(field) == field \in DOMAIN schema
      wrong(kind) == ~ Is(value, kind)
      at(bad) == IF bad THEN {path} ELSE {}
  IN
  IF has("pattern") THEN at(wrong("string") \/ value.string \notin Samples[schema.pattern])
  ELSE IF has("enum") THEN at(wrong("string") \/ value.string \notin schema.enum)
  ELSE IF has("low") THEN at(wrong("integer") \/ value.integer \notin schema.low..schema.high)
  ELSE IF has("flag") THEN at(wrong("boolean"))
  ELSE IF wrong("array") THEN {path}
  ELSE at(Len(value.array) > schema.max)
       \cup {Append(path, i) : i \in {j \in DOMAIN value.array :
               \/ \E k \in (j + 1)..Len(value.array) : value.array[k] = value.array[j]
               \/ ~ Is(value.array[j], "string")
               \/ value.array[j].string \notin Samples[schema.each]}}

\* The paths at which the validator finds fault.  It goes on after every fault, but not
\* into a value of the wrong kind.  First the parts that have no parts of their own.
LeafErrors(schema, value, path) ==
  LET has(field) == field \in DOMAIN schema
      wrong(kind) == ~ Is(value, kind)
      at(bad) == IF bad THEN {path} ELSE {}
  IN
  IF has("pattern") THEN at(wrong("string") \/ value.string \notin Samples[schema.pattern])
  ELSE IF has("enum") THEN at(wrong("string") \/ value.string \notin schema.enum)
  ELSE IF has("low") THEN at(wrong("integer") \/ value.integer \notin schema.low..schema.high)
  ELSE IF has("flag") THEN at(wrong("boolean"))
  ELSE IF wrong("array") THEN {path}
  ELSE at(Len(value.array) > schema.max)
       \cup {Append(path, i) : i \in {j \in DOMAIN value.array :
               \/ \E k \in 1..(j - 1) : value.array[k] = value.array[j]
               \/ ~ Is(value.array[j], "string")
               \/ value.array[j].string \notin Samples[schema.each]}}

\* A part whose own parts are checked by Inner.
PartErrors(Inner(_, _, _), schema, value, path) ==
  LET has(field) == field \in DOMAIN schema
      wrong(kind) == ~ Is(value, kind)
      at(bad) == IF bad THEN {path} ELSE {}
  IN
  IF has("required") THEN
    IF wrong("table") THEN {path}
    ELSE LET given == DOMAIN value.table
             known == DOMAIN schema.fields
         IN  {Append(path, k) : k \in (given \ known) \cup (schema.required \ given)}
             \cup UNION {Inner(schema.fields[k], value.table[k], Append(path, k)) :
                           k \in given \cap known}
  ELSE IF has("name") THEN
    IF wrong("table") THEN {path}
    ELSE at(Cardinality(DOMAIN value.table) \notin schema.min..schema.max)
         \cup {Append(path, k) : k \in DOMAIN value.table \ Samples[schema.name]}
         \cup UNION {Inner(schema.item, value.table[k], Append(path, k)) :
                       k \in DOMAIN value.table}
  ELSE IF has("item") THEN
    IF wrong("array") THEN {path}
    ELSE at(Len(value.array) > schema.max)
         \cup UNION {Inner(schema.item, value.array[i], Append(path, i)) :
                       i \in DOMAIN value.array}
  ELSE LeafErrors(schema, value, path)

\* A manifest has four levels of parts within parts.
Errors1(schema, value, path) == PartErrors(LeafErrors, schema, value, path)
Errors2(schema, value, path) == PartErrors(Errors1, schema, value, path)
Errors3(schema, value, path) == PartErrors(Errors2, schema, value, path)
SchemaErrors(schema, value, path) == PartErrors(Errors3, schema, value, path)

-----------------------------------------------------------------------------
(* The types that a manifest is decoded into: fields that must be there,   *)
(* fields that may be, and no others.                                      *)

Text == [scalar |-> "string"]
Word == [scalar |-> "boolean"]
Byte == [scalar |-> "integer"]
Choice(values) == [choice |-> values]
Vec(type) == [vec |-> type]
BTreeMap(type) == [map |-> type]
Struct(must, may) == [must |-> must, may |-> may]

ManifestRole == Struct(<<>>, [inherits |-> Vec(Text), permissions |-> Vec(Text)])
ManifestAuth == Struct(<<>>, [default_role |-> Text, roles |-> BTreeMap(ManifestRole)])

Bucket ==
  Struct([name |-> Text], [visibility |-> Choice({"private", "public-read"}),
                           max_object_size |-> Text])

FunctionType == Choice({"rpc", "http", "webhook", "event", "scheduled", "queue"})

Function ==
  Struct([name |-> Text, entry |-> Text, type |-> FunctionType],
         [permissions |-> Vec(Text), database |-> Choice({"none", "read", "read-write"}),
          buckets |-> Vec(Text), secrets |-> Vec(Text), network |-> Vec(Text), email |-> Word,
          event |-> Text, queue |-> Text])

Retry == Struct(<<>>, [max_attempts |-> Byte, backoff |-> Choice({"fixed", "exponential"})])

Job ==
  Struct([name |-> Text, function |-> Text, schedule |-> Text, timezone |-> Text],
         [retry |-> Retry])

Route ==
  Struct([path |-> Text, method |-> Choice({"GET", "HEAD", "POST", "PUT", "PATCH", "DELETE"}),
          function |-> Text],
         [auth |-> Choice({"required", "public"})])

Limits ==
  Struct(<<>>, [function_class |-> Choice({"standard"}), function_timeout |-> Text,
                concurrency |-> Byte])

ApplicationManifest ==
  Struct([schema_version |-> Byte,
          application |-> Struct([name |-> Text, runtime |-> Choice({"blobyard-js-1"})], <<>>)],
         [frontend |-> Struct([directory |-> Text], [spa_fallback |-> Word, clean_urls |-> Word]),
          auth |-> ManifestAuth,
          database |-> Struct([migrations |-> Text], <<>>),
          buckets |-> Vec(Bucket), functions |-> Vec(Function), jobs |-> Vec(Job),
          routes |-> Vec(Route), limits |-> Limits,
          health |-> Struct([function |-> Text], [timeout |-> Text])])

\* Deserialize with deny_unknown_fields; a u8 holds eight bits.
DecodesLeaf(type, value) ==
  IF "scalar" \in DOMAIN type
  THEN Is(value, type.scalar) /\ (type = Byte => value.integer \in 0..255)
  ELSE Is(value, "string") /\ value.string \in type.choice

FieldType(type, k) == IF k \in DOMAIN type.must THEN type.must[k] ELSE type.may[k]

\* A type whose own parts are decoded by Inner.
DecodesPart(Inner(_, _), type, value) ==
  IF "vec" \in DOMAIN type THEN
    Is(value, "array") /\ \A i \in DOMAIN value.array : Inner(type.vec, value.array[i])
  ELSE IF "map" \in DOMAIN type THEN
    Is(value, "table") /\ \A k \in DOMAIN value.table : Inner(type.map, value.table[k])
  ELSE IF "must" \in DOMAIN type THEN
    /\ Is(value, "table")
    /\ DOMAIN type.must \subseteq DOMAIN value.table
    /\ DOMAIN value.table \subseteq DOMAIN type.must \cup DOMAIN type.may
    /\ \A k \in DOMAIN value.table : Inner(FieldType(type, k), value.table[k])
  ELSE DecodesLeaf(type, value)

\* A list of texts is one level more than the schema counts.
Decodes1(type, value) == DecodesPart(DecodesLeaf, type, value)
Decodes2(type, value) == DecodesPart(Decodes1, type, value)
Decodes3(type, value) == DecodesPart(Decodes2, type, value)
Decodes4(type, value) == DecodesPart(Decodes3, type, value)
Decodes(type, value) == DecodesPart(Decodes4, type, value)

-----------------------------------------------------------------------------
(* What a decoded manifest refers to.                                      *)

Has(table, key) == key \in DOMAIN table.table
Items(table, key) == IF Has(table, key) THEN table.table[key].array ELSE <<>>
Get(table, key) == table.table[key].string
Reads(table, key, text) == Has(table, key) /\ Get(table, key) = text

\* The declared roles, each a table.
Roles(m) ==
  IF Has(m, "auth") /\ Has(m.table["auth"], "roles")
  THEN m.table["auth"].table["roles"].table ELSE <<>>

Parents(roles, r) ==
  IF r \in DOMAIN roles
  THEN [i \in DOMAIN Items(roles[r], "inherits") |-> Items(roles[r], "inherits")[i].string]
  ELSE <<>>

\* The roles that are declared or inherited.
RoleNames(roles) ==
  DOMAIN roles \cup UNION {ToSet(Parents(roles, r)) : r \in DOMAIN roles}

\* has_cycle: a depth-first search for the origin.  Its branches share the set of visited
\* roles; what is left of them, innermost first, is next.
HasCycle(roles, origin) ==
  LET search[at \in (SUBSET (RoleNames(roles) \ {origin})) \X Seq(RoleNames(roles))] ==
        LET visited == at[1]
            next == at[2]
        IN  IF next = <<>> THEN "acyclic"
            ELSE IF Head(next) = origin THEN "cyclic"
            ELSE IF Head(next) \in visited THEN search[<<visited, Tail(next)>>]
            ELSE search[<<visited \cup {Head(next)}, Parents(roles, Head(next)) \o Tail(next)>>]
  IN  search[<<{}, Parents(roles, origin)>>] = "cyclic"

RoleErrors(m) ==
  LET roles == Roles(m)
      permitted == UNION {ToSet(Items(roles[r], "permissions")) : r \in DOMAIN roles}
      functions == Items(m, "functions")
  IN  (IF /\ Has(m, "auth") /\ Has(m.table["auth"], "default_role")
          /\ Get(m.table["auth"], "default_role") \notin DOMAIN roles
       THEN {<<"auth", "default_role">>} ELSE {})
      \cup (UNION {{<<"auth", "roles", r, "inherits", i>> :
                      i \in {j \in DOMAIN Parents(roles, r) :
                               Parents(roles, r)[j] \notin DOMAIN roles}} : r \in DOMAIN roles})
      \cup {<<"auth", "roles", r, "inherits">> : r \in {q \in DOMAIN roles : HasCycle(roles, q)}}
      \cup UNION {{<<"functions", f, "permissions", i>> :
                     i \in {j \in DOMAIN Items(functions[f], "permissions") :
                              Items(functions[f], "permissions")[j] \notin permitted}} :
                  f \in DOMAIN functions}

Triggers == {"event", "queue"}

\* The bucket of a grant is what precedes its colon.
BucketOf == ("files:read" :> "files") @@ ("mail:read" :> "mail")

Declares(m, name) == \E i \in DOMAIN Items(m, "functions") :
                       Get(Items(m, "functions")[i], "name") = name

\* Mutant: a job may name a function of any type.
FunctionErrorsOfAnyType(m) ==
  LET functions == Items(m, "functions")
      scheduled(name) == \E i \in DOMAIN functions :
                           Get(functions[i], "name") = name
      jobs == Items(m, "jobs")
      routes == Items(m, "routes")
  IN  {<<"jobs", i, "function">> :
         i \in {j \in DOMAIN jobs : ~ scheduled(Get(jobs[j], "function"))}}
      \cup {<<"routes", i, "function">> :
              i \in {j \in DOMAIN routes : ~ Declares(m, Get(routes[j], "function"))}}
      \cup (IF Has(m, "health") /\ ~ Declares(m, Get(m.table["health"], "function"))
            THEN {<<"health", "function">>} ELSE {})

FunctionErrors(m) ==
  LET functions == Items(m, "functions")
      scheduled(name) == \E i \in DOMAIN functions :
                           Get(functions[i], "name") = name /\ Get(functions[i], "type") = "scheduled"
      jobs == Items(m, "jobs")
      routes == Items(m, "routes")
  IN  {<<"jobs", i, "function">> :
         i \in {j \in DOMAIN jobs : ~ scheduled(Get(jobs[j], "function"))}}
      \cup {<<"routes", i, "function">> :
              i \in {j \in DOMAIN routes : ~ Declares(m, Get(routes[j], "function"))}}
      \cup (IF Has(m, "health") /\ ~ Declares(m, Get(m.table["health"], "function"))
            THEN {<<"health", "function">>} ELSE {})

\* Grants, the database and the triggers of each function.
ResourceErrors(m) ==
  LET functions == Items(m, "functions")
      buckets == {Get(Items(m, "buckets")[b], "name") : b \in DOMAIN Items(m, "buckets")}
      wrongTriggers(f) == {t \in Triggers : Has(f, t) # (Get(f, "type") = t)}
      errors(i) ==
        LET f == functions[i]
        IN  {<<"functions", i, "buckets", g>> :
               g \in {h \in DOMAIN Items(f, "buckets") :
                        BucketOf[Items(f, "buckets")[h].string] \notin buckets}}
            \cup (IF (Reads(f, "database", "read") \/ Reads(f, "database", "read-write"))
                       /\ ~ Has(m, "database")
                  THEN {<<"functions", i, "database">>} ELSE {})
            \cup {<<"functions", i, t>> : t \in wrongTriggers(f)}
  IN  UNION {errors(i) : i \in DOMAIN functions}

RouteErrors(m) ==
  LET routes == Items(m, "routes")
      key(i) == <<Get(routes[i], "method"), Get(routes[i], "path")>>
  IN  {<<"routes", i, "path">> : i \in {j \in DOMAIN routes : \E k \in 1..(j - 1) : key(k) = key(j)}}

\* A field of a schedule is a list of items: a star or a range of one or two values, and
\* the steps that follow it.  A value is a number, or a name by its place in the list.
Field(min, max, names) == [min |-> min, max |-> max, names |-> names]
CronFields == <<Field(0, 59, 0), Field(0, 23, 0), Field(1, 31, 0), Field(1, 12, 12), Field(0, 7, 7)>>

Item(star, range, steps) == [star |-> star, range |-> range, steps |-> steps]
Number(n) == [number |-> n]
Name(i) == [name |-> i]

ValueOf(field, v) ==
  IF "number" \in DOMAIN v THEN {v.number} \cap field.min..field.max
  ELSE {field.min + n - 1 : n \in {v.name} \cap 1..field.names}

\* A step is a u16.
MaxStep == 65535

ValidItem(field, item) ==
  /\ Len(item.steps) <= 1
  /\ \A i \in DOMAIN item.steps : item.steps[i] \in 1..MaxStep
  /\ \/ item.star
     \/ /\ Len(item.range) \in 1..2
        /\ \E start \in ValueOf(field, item.range[1]),
              end \in ValueOf(field, item.range[Len(item.range)]) : start <= end

ValidCron(fields) == \A f \in 1..5 : \A i \in DOMAIN fields[f] : ValidItem(CronFields[f], fields[f][i])

\* The samples, split at their blanks.
CronOf ==
  LET any == <<Item(TRUE, <<>>, <<>>)>>
      at(n) == <<Item(FALSE, <<Number(n)>>, <<>>)>>
  IN  ("0 3 * * *" :> <<at(0), at(3), any, any, any>>)
        @@ ("0 24 * * *" :> <<at(0), at(24), any, any, any>>)

CanonicalZones == {"UTC"}

ScheduleErrors(m) ==
  LET jobs == Items(m, "jobs")
  IN  {<<"jobs", i, "schedule">> :
         i \in {j \in DOMAIN jobs : ~ ValidCron(CronOf[Get(jobs[j], "schedule")])}}
      \cup {<<"jobs", i, "timezone">> :
              i \in {j \in DOMAIN jobs : Get(jobs[j], "timezone") \notin CanonicalZones}}

CrossErrors(m) ==
  RoleErrors(m) \cup FunctionErrors(m) \cup ResourceErrors(m) \cup RouteErrors(m)
    \cup ScheduleErrors(m)

\* References are looked at only in a manifest that the schema admits.
ParseToml(value) ==
  LET schema == SchemaErrors(RootSchema, value, <<>>)
  IN  IF schema # {} THEN schema
      ELSE IF ~ Decodes(ApplicationManifest, value) THEN {<<>>}
      ELSE CrossErrors(value)

\* What `blobyard app init` writes.
Scaffold ==
  Tab([schema_version |-> Num(1),
       application |-> Tab([name |-> Str("my-app"), runtime |-> Str("blobyard-js-1")]),
       frontend |-> Tab([directory |-> Str("dist")])])

-----------------------------------------------------------------------------
(* The commands.                                                           *)

NoFile == [absent |-> TRUE]
Blank == Tab(<<>>)

Says(code, errors) == [code |-> code, errors |-> errors]
Silence == Says("none", {})

ManifestInit == manifestFile = NoFile /\ manifestAnswer = Silence

\* init: the file is only ever created.  What cannot be written, or synced, stays as it is.
AppInit ==
  \/ /\ manifestFile # NoFile
     /\ manifestAnswer' = Says("conflict", {})
     /\ UNCHANGED manifestFile
  \/ /\ manifestFile = NoFile
     /\ \/ manifestFile' = Scaffold /\ manifestAnswer' = Says("created", {})
        \/ manifestFile' \in {NoFile, Blank, Scaffold} /\ manifestAnswer' = Says("internal", {})

\* validate: of what is read, or of nothing.
AppValidate ==
  /\ \/ manifestFile = NoFile /\ manifestAnswer' = Says("not_found", {})
     \/ manifestFile # NoFile /\ manifestAnswer' = Says("internal", {})
     \/ /\ manifestFile # NoFile
        /\ LET errors == ParseToml(manifestFile)
           IN  manifestAnswer' = Says(IF errors = {} THEN "valid" ELSE "invalid", errors)
  /\ UNCHANGED manifestFile

\* An author writes the file, or takes it away.
AuthorEdits ==
  /\ IF manifestFile = NoFile THEN manifestFile' \in Manifests ELSE manifestFile' = NoFile
  /\ manifestAnswer' = Silence

ManifestNext == AppInit \/ AppValidate \/ AuthorEdits

ManifestSpec == ManifestInit /\ [][ManifestNext]_manifestVars

-----------------------------------------------------------------------------
(* What a validation is for.                                               *)

Admitted(m) == SchemaErrors(RootSchema, m, <<>>) = {}

\* What a role inherits, in the end: what every set has that contains its parents and the
\* parents of its members.
OwnAncestor(roles, r) ==
  \A S \in SUBSET RoleNames(roles) :
    (ToSet(Parents(roles, r)) \subseteq S /\ \A q \in S : ToSet(Parents(roles, q)) \subseteq S)
      => r \in S

\* At most one step, which can be taken, and at most two limits.
Steps(item) ==
  /\ Len(item.steps) <= 1
  /\ \A i \in DOMAIN item.steps : item.steps[i] \in 1..MaxStep
  /\ item.star \/ Len(item.range) <= 2

\* What an item of a schedule stands for.
Instants(field, item) ==
  LET bounds == IF item.star THEN {<<field.min, field.max>>}
                ELSE ValueOf(field, item.range[1]) \X ValueOf(field, item.range[Len(item.range)])
      step == IF item.steps = <<>> THEN 1 ELSE item.steps[1]
  IN  {v \in field.min..field.max : \E b \in bounds : v \in b[1]..b[2] /\ (v - b[1]) % step = 0}

\* Nothing that a manifest runs, or allows, is undeclared: no job, route or health check
\* without its function, no grant without its bucket or its database, no function that no
\* role may call.
Closed(m) ==
  LET functions == ToSet(Items(m, "functions"))
      named == {Get(f, "name") : f \in functions}
      roles == Roles(m)
  IN  /\ \A j \in ToSet(Items(m, "jobs")) :
           \E f \in functions : Get(f, "name") = Get(j, "function") /\ Get(f, "type") = "scheduled"
      /\ {Get(r, "function") : r \in ToSet(Items(m, "routes"))} \subseteq named
      /\ Has(m, "health") => Get(m.table["health"], "function") \in named
      /\ \A f \in functions :
           /\ \A p \in ToSet(Items(f, "permissions")) :
                \E r \in DOMAIN roles : p \in ToSet(Items(roles[r], "permissions"))
           /\ {BucketOf[g.string] : g \in ToSet(Items(f, "buckets"))}
                \subseteq {Get(b, "name") : b \in ToSet(Items(m, "buckets"))}
           /\ Has(f, "database") /\ Get(f, "database") # "none" => Has(m, "database")

\* A TOML table is finite and a TOML array is a sequence, also where roles are declared.
\* Between blanks, commas and dashes there is at least one word.
ManifestAssumption ==
  /\ {Blank, Scaffold} \subseteq Manifests
  /\ \A m \in Manifests :
       Admitted(m) =>
         /\ IsFiniteSet(DOMAIN Roles(m))
         /\ \A r \in DOMAIN Roles(m) :
              LET parents == Items(Roles(m)[r], "inherits")
              IN  Len(parents) \in Nat /\ DOMAIN parents = 1..Len(parents)
  /\ \A item \in CronItems :
       /\ item.star \in BOOLEAN /\ item.steps \in Seq(Nat) /\ Len(item.range) \in Nat
       /\ ~ item.star => item.range # <<>> /\ DOMAIN item.range = 1..Len(item.range)
       /\ \A i \in DOMAIN item.range : item.range[i] \in [number : Nat] \cup [name : Nat]
ASSUME ManifestsAreToml == ManifestAssumption

\* Inheritance is reported exactly where it is circular or leads nowhere, although the
\* search for a cycle shares what it has visited between its branches (has_cycle).
CyclesAreFound(m, errors) ==
  \A r \in DOMAIN Roles(m) :
    /\ <<"auth", "roles", r, "inherits">> \in errors <=> OwnAncestor(Roles(m), r)
    /\ \A i \in DOMAIN Parents(Roles(m), r) :
         <<"auth", "roles", r, "inherits", i>> \in errors
           <=> Parents(Roles(m), r)[i] \notin DOMAIN Roles(m)

\* A part of a schedule is accepted exactly when it is made of limits and a step and stands
\* for some time, in whichever order and by whichever names its limits are given
\* (valid_item).
SchedulesFire ==
  \A field \in ToSet(CronFields), item \in CronItems :
    ValidItem(field, item) <=> Steps(item) /\ Instants(field, item) # {}

\* A manifest that `blobyard app validate` calls valid means something.  What the schema
\* admits the types can hold, although each is written down by hand (schema.rs, types.rs);
\* all that a valid manifest refers to is there (cross.rs); a role that is its own ancestor
\* is reported, and no other (cross_roles.rs); and schedules fire (cron.rs).
AcceptedMeansSomething ==
  /\ manifestAnswer.code \in {"valid", "invalid"} /\ Admitted(manifestFile) =>
       /\ Decodes(ApplicationManifest, manifestFile)
       /\ CyclesAreFound(manifestFile, manifestAnswer.errors)
  /\ manifestAnswer.code = "valid" => Admitted(manifestFile) /\ Closed(manifestFile)
  /\ SchedulesFire
=============================================================================
