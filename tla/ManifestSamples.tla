--------------------------- MODULE ManifestSamples ---------------------------
(***************************************************************************)
(* Manifests to validate: one with something of everything, every value    *)
(* that differs from it in one place, and every inheritance graph of three *)
(* roles, with a fourth that nobody declares.                              *)
(***************************************************************************)
EXTENDS AppManifest

Texts(strings) == Arr([i \in DOMAIN strings |-> Str(strings[i])])

Complete ==
  Tab([schema_version |-> Num(1),
       application |-> Tab([name |-> Str("my-app"), runtime |-> Str("blobyard-js-1")]),
       frontend |-> Tab([directory |-> Str("dist"), spa_fallback |-> Flag(TRUE)]),
       auth |-> Tab([default_role |-> Str("reader"),
                     roles |-> Tab([reader |-> Tab([permissions |-> Texts(<<"notes.read">>)]),
                                    editor |-> Tab([inherits |-> Texts(<<"reader">>)])])]),
       database |-> Tab([migrations |-> Str("migrations")]),
       buckets |-> Arr(<<Tab([name |-> Str("files"), max_object_size |-> Str("50MiB")])>>),
       functions |-> Arr(<<
         Tab([name |-> Str("api"), entry |-> Str("api.ts"), type |-> Str("http"),
              permissions |-> Texts(<<"notes.read">>), database |-> Str("read"),
              buckets |-> Texts(<<"files:read">>), secrets |-> Texts(<<"API_KEY">>),
              network |-> Texts(<<"example.com:443">>), email |-> Flag(TRUE)]),
         Tab([name |-> Str("nightly"), entry |-> Str("api.ts"), type |-> Str("scheduled")]),
         Tab([name |-> Str("hook"), entry |-> Str("api.ts"), type |-> Str("event"),
              event |-> Str("notes.created")])>>),
       jobs |-> Arr(<<Tab([name |-> Str("nightly"), function |-> Str("nightly"),
                           schedule |-> Str("0 3 * * *"), timezone |-> Str("UTC"),
                           retry |-> Tab([max_attempts |-> Num(10), backoff |-> Str("fixed")])])>>),
       routes |-> Arr(<<Tab([path |-> Str("/"), method |-> Str("GET"), function |-> Str("api")]),
                        Tab([path |-> Str("/notes"), method |-> Str("GET"),
                             function |-> Str("api")])>>),
       limits |-> Tab([function_class |-> Str("standard"), function_timeout |-> Str("5s"),
                       concurrency |-> Num(100)]),
       health |-> Tab([function |-> Str("api"), timeout |-> Str("5s")])])

Words == UNION {Samples[p] : p \in DOMAIN Samples} \cup {"queue", "rpc", "read-write", "POST", ""}

\* A value changed in one place, with the path of that place.
RECURSIVE Changes(_, _)
Changes(value, path) ==
  LET within(key, old, put(_)) ==
        {[path |-> c.path, value |-> put(c.value)] : c \in Changes(old, Append(path, key))}
  IN
  {[path |-> path, value |-> v] :
     v \in {Flag(TRUE), Arr(<<>>), Tab(<<>>)} \cup {Num(n) : n \in {-1, 0, 1, 2, 11, 101, 256}}
             \cup {Str(w) : w \in IF Is(value, "string") THEN Words ELSE {""}}}
  \cup IF Is(value, "table")
       THEN UNION {within(k, value.table[k], LAMBDA v : Tab([value.table EXCEPT ![k] = v])) :
                     k \in DOMAIN value.table}
            \cup {[path |-> Append(path, k),
                   value |-> Tab([j \in DOMAIN value.table \ {k} |-> value.table[j]])] :
                    k \in DOMAIN value.table}
            \cup {[path |-> Append(path, k), value |-> Tab((k :> v) @@ value.table)] :
                    k \in {"surprise", "queue", "ghost"} \ DOMAIN value.table,
                    v \in {Junk, Str("mail"), Tab(<<>>)}}
       ELSE IF Is(value, "array")
       THEN UNION {within(i, value.array[i], LAMBDA v : Arr([value.array EXCEPT ![i] = v])) :
                     i \in DOMAIN value.array}
            \cup {[path |-> Append(path, Len(value.array) + 1),
                   value |-> Arr(Append(value.array, value.array[i]))] : i \in DOMAIN value.array}
       ELSE {}

AllChanges == Changes(Complete, <<>>)

Graphs3 == [{"reader", "editor", "owner"} -> SUBSET {"reader", "editor", "owner", "ghost"}]

WithRoles(graph) ==
  Tab(("auth" :> Tab([roles |-> Tab([r \in DOMAIN graph |->
                        Tab([inherits |-> Texts(SetToSeq(graph[r]))])])])) @@ Scaffold.table)

TriedManifests == {Scaffold, Complete} \cup {c.value : c \in AllChanges} \cup {WithRoles(g) : g \in Graphs3}

TriedItems ==
  LET values == {Number(n) : n \in {0, 1, 7, 8, 12, 24, 31, 60}} \cup {Name(i) : i \in {0, 1, 7, 12}}
      ranges == {<<v>> : v \in values} \cup {<<v, w>> : v, w \in values} \cup {<<v, v, v>> : v \in values}
  IN  {Item(FALSE, r, s) : r \in ranges, s \in {<<>>, <<0>>, <<2>>, <<2, 2>>}}
        \cup {Item(TRUE, <<>>, s) : s \in {<<>>, <<0>>, <<70000>>}}

\* A fault of the shape is reported where it is, and only there ("every independently
\* detectable validation failure with a precise field path", parse_toml), and neither the
\* manifest of `blobyard app init` nor the complete one has any.
FaultsAreLocated ==
  manifestAnswer.code \in {"valid", "invalid"} =>
    /\ manifestFile \in {Scaffold, Complete} => manifestAnswer.code = "valid"
    /\ ~ Admitted(manifestFile) =>
         \A c \in AllChanges : c.value = manifestFile =>
           \A e \in manifestAnswer.errors : IsPrefix(c.path, e) \/ IsPrefix(e, c.path)
=============================================================================
