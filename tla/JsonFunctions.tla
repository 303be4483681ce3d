--------------------------- MODULE JsonFunctions ---------------------------
(***************************************************************************)
(* JSON_VALUE and JSON_QUERY as generated code calls them, with what a     *)
(* thread keeps from call to call: the latest answers of either function,  *)
(* the latest document, the documents of the batch at hand by the address  *)
(* and length of their text, and the paths of literals by their address.   *)
(* A text is its name; the library that parses it is outside.  A path is   *)
(* the sequence of its characters, a name or number standing for one.  A   *)
(* document is its kind, its text where it is a scalar and its members.    *)
(***************************************************************************)
EXTENDS Integers, Sequences, SequencesExt, FiniteSets, Functions

CONSTANTS
  JsonLength(_),   \* of a text
  Parsed(_),       \* the document of a text in <<>>, or <<>> when it is none
  Repaired(_),     \* the text with quotes for stray backslashes
  ResultSize,      \* CACHE_SIZE, of the answers of a function: 16
  MaxDocuments,    \* 4096
  MaxInputBytes,   \* 64 MiB
  PathCapacity     \* CONSTANT_JSON_PATH_CACHE_CAPACITY: 128

ASSUME JsonCacheSizes ==
  /\ ResultSize \in Nat \ {0} /\ PathCapacity \in Nat \ {0}
  /\ MaxDocuments \in Nat /\ MaxInputBytes \in Nat

NullAnswer   == [null |-> TRUE, err |-> FALSE, value |-> <<>>]
FailedAnswer == [null |-> TRUE, err |-> TRUE, value |-> <<>>]
Answer(v)    == [null |-> FALSE, err |-> FALSE, value |-> v]

Doc(kind, text, members) == [kind |-> kind, text |-> text, at |-> members]
EmptyArray  == Doc("array", "", [k \in {} |-> 0])
EmptyObject == Doc("object", "", [k \in {} |-> 0])
IsScalar(doc) == doc.kind = "scalar"

-----------------------------------------------------------------------------
(* Paths.                                                                  *)

Flush(s) == IF s.key = <<>> THEN s ELSE [s EXCEPT !.keys = Append(@, s.key), !.key = <<>>]
Go(s, state) == [s EXCEPT !.state = state]
Longer(s, c) == [s EXCEPT !.key = Append(@, c)]

ExpectDotOrBracket(s, c) ==
  CASE c = "." -> Go(s, "dot") [] c = "[" -> Go(s, "bracket")
    [] c = " " -> s            [] OTHER   -> Go(s, "invalid")

InDotNotation(s, c) ==
  CASE c = "." -> Flush(s)
    [] c = "[" -> Go(Flush(s), "bracket")
    [] c = " " -> Go(Flush(s), "expect")
    [] OTHER   -> Longer(s, c)

InBracket(s, c) ==
  CASE c \in {"'", "\""} -> [s EXCEPT !.state = "quoted", !.quote = c]
    [] c = "]" -> Go(Flush(s), "expect")
    [] c = " " -> s
    [] OTHER   -> Longer(s, c)

\* A backslash takes the next character along if that is one, or the quote.
InQuotedKey(s, c, next) ==
  CASE c = "\\" /\ next \in {<<s.quote>>, <<"\\">>} -> [Longer(s, next[1]) EXCEPT !.skip = TRUE]
    [] c = s.quote -> Go(s, "bracket")
    [] OTHER -> Longer(s, c)

PathStep(s, c, next) ==
  CASE s.state = "invalid" -> s
    [] s.skip              -> [s EXCEPT !.skip = FALSE]
    [] s.state = "expect"  -> ExpectDotOrBracket(s, c)
    [] s.state = "dot"     -> InDotNotation(s, c)
    [] s.state = "bracket" -> InBracket(s, c)
    [] s.state = "quoted"  -> InQuotedKey(s, c, next)

\* The keys of a path, none if it does not begin with $.
ParseJsonPath(path) ==
  IF path = <<>> \/ path[1] # "$" THEN <<>>
  ELSE Flush(FoldLeft(LAMBDA s, i : PathStep(s, path[i], SubSeq(path, i + 1, i + 1)),
                      [state |-> "expect", key |-> <<>>, keys |-> <<>>, quote |-> "", skip |-> FALSE],
                      [i \in 1 .. Len(path) - 1 |-> i + 1])).keys

TrimSpaces(path) ==
  LET kept == {i \in DOMAIN path : path[i] # " "}
  IN  IF kept = {} THEN <<>>
      ELSE SubSeq(path, CHOOSE i \in kept : \A j \in kept : i <= j,
                        CHOOSE i \in kept : \A j \in kept : j <= i)

WithoutMode(trimmed) == TrimSpaces(SubSeq(trimmed, 3, Len(trimmed)))

\* [mode, path], a path of no characters being invalid.
PathSpecOf(trimmed) ==
  CASE Len(trimmed) > 1 /\ trimmed[1] = "strict" /\ trimmed[2] = " " ->
         [mode |-> "strict", path |-> WithoutMode(trimmed)]
    [] Len(trimmed) > 1 /\ trimmed[1] = "lax" /\ trimmed[2] = " " ->
         [mode |-> "lax", path |-> WithoutMode(trimmed)]
    [] OTHER -> [mode |-> "lax", path |-> trimmed]
ParseJsonQueryPathSpec(rawPath) == PathSpecOf(TrimSpaces(rawPath))

\* Mutant: the address alone tells the path of a literal.
IsKnownAddress(paths, c) == c.pathAt \in DOMAIN paths

\* The paths of literals: the text behind an address is compared, too.
IsKnownPath(paths, c) == c.pathAt \in DOMAIN paths /\ paths[c.pathAt].raw = c.path

WithPath(paths, c, parsed) ==
  LET kept == IF Cardinality(DOMAIN paths) >= PathCapacity THEN {} ELSE DOMAIN paths
  IN  [at \in kept \union {c.pathAt} |->
         IF at = c.pathAt THEN [raw |-> c.path, parsed |-> parsed] ELSE paths[at]]

GetConstantPath(paths, c, parsed) == IF IsKnownPath(paths, c) THEN paths ELSE WithPath(paths, c, parsed)

-----------------------------------------------------------------------------
(* The answers of earlier calls, the latest one first.                     *)

ToFront(entries, i) == <<entries[i]>> \o RemoveAt(entries, i)

Hits(entries, key) == {i \in DOMAIN entries : entries[i].key = key}

GetResult(entries, key) ==
  IF Hits(entries, key) = {} THEN entries
  ELSE ToFront(entries, CHOOSE i \in Hits(entries, key) : TRUE)

PutResult(entries, key, answer) ==
  LET others == SelectSeq(entries, LAMBDA e : e.key # key)
      all    == <<[key |-> key, answer |-> answer]>> \o others
  IN  SubSeq(all, 1, IF Len(all) > ResultSize THEN ResultSize ELSE Len(all))

ValueKey(c) == <<c.text, c.path, c.empty, c.error>>
QueryKey(c) == <<c.text, c.path, c.wrapper, c.empty, c.error>>

-----------------------------------------------------------------------------
(* Documents.                                                              *)

NewJson ==
  [values |-> <<>>, queries |-> <<>>,        \* answers
   lastJson |-> <<>>, parsedJson |-> <<>>,   \* the latest text and its document
   active |-> FALSE, context |-> 0,          \* the batch at hand
   cachedInputBytes |-> 0, documents |-> [k \in {} |-> 0],
   valuePaths |-> [k \in {} |-> 0], queryPaths |-> [k \in {} |-> 0]]

BeginBatch(t, context) ==
  [t EXCEPT !.documents = [k \in {} |-> 0], !.cachedInputBytes = 0,
            !.active = TRUE, !.context = context]

EndBatch(t, context) ==
  IF t.active /\ t.context = context
  THEN [t EXCEPT !.documents = [k \in {} |-> 0], !.cachedInputBytes = 0,
                 !.active = FALSE, !.context = 0]
  ELSE t

DocumentKey(c) == <<c.at, JsonLength(c.text)>>

IsStored(t, c) == t.active /\ t.context = c.context /\ DocumentKey(c) \in DOMAIN t.documents

\* Mutant: the bytes held already are forgotten.
CanStoreEach(t, c) ==
  /\ t.active /\ t.context = c.context
  /\ \/ DocumentKey(c) \in DOMAIN t.documents
     \/ /\ Cardinality(DOMAIN t.documents) < MaxDocuments
        /\ JsonLength(c.text) <= MaxInputBytes

Store(t, c, doc) ==
  [t EXCEPT !.documents = (DocumentKey(c) :> doc) @@ @,
            !.cachedInputBytes = @ + IF DocumentKey(c) \in DOMAIN t.documents THEN 0
                                     ELSE JsonLength(c.text)]

CanStore(t, c) ==
  /\ t.active /\ t.context = c.context
  /\ \/ DocumentKey(c) \in DOMAIN t.documents
     \/ /\ Cardinality(DOMAIN t.documents) < MaxDocuments
        /\ JsonLength(c.text) <= MaxInputBytes - t.cachedInputBytes

\* A text that does not parse is repaired; the document goes to those of the batch, or
\* else takes the place of the latest one.  <<doc>>, or <<>>, beside the thread's fields.
ParseText(t, c, text) ==
  IF Parsed(text) = <<>> THEN [doc |-> <<>>, t |-> t]
  ELSE [doc |-> Parsed(text),
        t |-> IF CanStore(t, c) THEN Store(t, c, Parsed(text)[1])
              ELSE [t EXCEPT !.lastJson = <<text>>, !.parsedJson = Parsed(text)]]

GetParsedJsonWithCacheRapidJson(t, c) ==
  CASE IsStored(t, c) -> [doc |-> <<t.documents[DocumentKey(c)]>>, t |-> t]
    [] ~IsStored(t, c) /\ t.lastJson = <<c.text>> ->
         [doc |-> t.parsedJson,
          t |-> IF CanStore(t, c) THEN Store(t, c, t.parsedJson[1]) ELSE t]
    [] OTHER -> ParseText(t, c, IF Parsed(c.text) = <<>> THEN Repaired(c.text) ELSE c.text)

\* <<doc>>, or <<>> where there is none.
ResolveJsonPathTargetRapidJson(doc, keys) ==
  FoldLeft(LAMBDA current, key :
             IF current = <<>> THEN <<>>
             ELSE IF key \in DOMAIN current[1].at THEN <<current[1].at[key]>> ELSE <<>>,
           <<doc>>, keys)

-----------------------------------------------------------------------------
(* JSON_VALUE, without (JsonValueRetNull) and with behaviours              *)
(* (JsonValueExtended): 0 for a null, 1 for an error, 2 for a default.     *)

OnEmpty(c) ==
  CASE c.empty = 2 /\ c.emptyDefault # <<>> -> Answer(c.emptyDefault)
    [] c.empty = 1 -> FailedAnswer
    [] OTHER       -> NullAnswer

OnError(c) ==
  CASE c.error = 2 /\ c.errorDefault # <<>> -> Answer(c.errorDefault)
    [] c.error = 1 -> FailedAnswer
    [] OTHER       -> NullAnswer

ValueOf(c, cached) == IF cached = NullAnswer THEN OnEmpty(c) ELSE cached

\* The scalar found is an answer to keep, anything else but a null no answer to keep.
FormatValue(t, c, current) ==
  IF current = <<>> \/ current[1].kind = "null" THEN [answer |-> OnEmpty(c), t |-> t]
  ELSE LET found == IF IsScalar(current[1]) THEN Answer(<<current[1].text>>) ELSE NullAnswer
       IN  [answer |-> ValueOf(c, found),
            t |-> [t EXCEPT !.values = PutResult(@, ValueKey(c), found)]]

\* A path without keys is an error, but in a call without behaviours the whole document.
ResolveValue(t, c, doc, keys) ==
  IF keys = <<>> /\ c.fn = "extended" THEN [answer |-> OnError(c), t |-> t]
  ELSE FormatValue(t, c, ResolveJsonPathTargetRapidJson(doc, keys))

ValueOfDocument(parsed, c) ==
  IF parsed.doc = <<>> THEN [answer |-> OnError(c), t |-> parsed.t]
  ELSE ResolveValue(IF c.constant
                    THEN [parsed.t EXCEPT !.valuePaths = GetConstantPath(@, c, ParseJsonPath(c.path))]
                    ELSE parsed.t,
                    c, parsed.doc[1],
                    IF c.constant /\ IsKnownPath(parsed.t.valuePaths, c)
                    THEN parsed.t.valuePaths[c.pathAt].parsed ELSE ParseJsonPath(c.path))

JsonValue(t, c) ==
  CASE c.null -> [answer |-> OnError(c), t |-> t]
    [] ~c.null /\ Hits(t.values, ValueKey(c)) # {} ->
         [answer |-> ValueOf(c, GetResult(t.values, ValueKey(c))[1].answer),
          t |-> [t EXCEPT !.values = GetResult(@, ValueKey(c))]]
    [] OTHER -> ValueOfDocument(GetParsedJsonWithCacheRapidJson(t, c), c)

-----------------------------------------------------------------------------
(* JSON_QUERY: behaviours 0 for a null, 1 for an empty array, 2 for an     *)
(* empty object, 3 for an error.                                           *)

QueryBehavior(b) ==
  CASE b = 0 -> NullAnswer          [] b = 1 -> Answer(<<EmptyArray>>)
    [] b = 2 -> Answer(<<EmptyObject>>) [] OTHER -> FailedAnswer

InArray(doc) == Doc("array", "", <<"0">> :> doc)

\* 0 for none, 1 for an array around what is not one, 2 around everything.
ApplyJsonQueryWrapper(doc, wrapper) ==
  CASE wrapper = 0 -> doc
    [] wrapper = 1 -> IF doc.kind = "array" THEN doc ELSE InArray(doc)
    [] wrapper = 2 -> InArray(doc)

FormatQuery(t, c, mode, wrapped) ==
  CASE wrapped.kind = "null" \/ (IsScalar(wrapped) /\ mode = "lax") ->
         [answer |-> QueryBehavior(c.empty), t |-> t]
    [] IsScalar(wrapped) /\ mode = "strict" -> [answer |-> QueryBehavior(c.error), t |-> t]
    [] OTHER -> [answer |-> Answer(<<wrapped>>),
                 t |-> [t EXCEPT !.queries = PutResult(@, QueryKey(c), Answer(<<wrapped>>))]]

QueryTarget(doc, path, keys) ==
  IF path = <<"$">> THEN <<doc>>
  ELSE IF keys = <<>> THEN <<>> ELSE ResolveJsonPathTargetRapidJson(doc, keys)

ResolveQuery(t, c, mode, target) ==
  CASE target = <<>> -> [answer |-> QueryBehavior(IF mode = "strict" THEN c.error ELSE c.empty),
                         t |-> t]
    [] target # <<>> /\ c.wrapper \notin 0 .. 2 -> [answer |-> QueryBehavior(c.error), t |-> t]
    [] OTHER -> FormatQuery(t, c, mode, ApplyJsonQueryWrapper(target[1], c.wrapper))

QueryOfDocument(parsed, c, spec) ==
  IF parsed.doc = <<>> THEN [answer |-> QueryBehavior(c.error), t |-> parsed.t]
  ELSE ResolveQuery(parsed.t, c, spec.mode,
                    QueryTarget(parsed.doc[1], spec.path, ParseJsonPath(spec.path)))

QueryOfPath(t, c, spec) ==
  IF spec.path = <<>> THEN [answer |-> QueryBehavior(c.error), t |-> t]
  ELSE QueryOfDocument(GetParsedJsonWithCacheRapidJson(t, c), c, spec)

JsonQuery(t, c) ==
  CASE c.null -> [answer |-> NullAnswer, t |-> t]
    [] ~c.null /\ Hits(t.queries, QueryKey(c)) # {} ->
         [answer |-> GetResult(t.queries, QueryKey(c))[1].answer,
          t |-> [t EXCEPT !.queries = GetResult(@, QueryKey(c))]]
    [] OTHER ->
         QueryOfPath(IF c.constant
                     THEN [t EXCEPT !.queryPaths =
                             GetConstantPath(@, c, ParseJsonQueryPathSpec(c.path))]
                     ELSE t,
                     c, IF c.constant /\ IsKnownPath(t.queryPaths, c)
                        THEN t.queryPaths[c.pathAt].parsed ELSE ParseJsonQueryPathSpec(c.path))

JsonCall(t, c) == IF c.fn = "query" THEN JsonQuery(t, c) ELSE JsonValue(t, c)
=============================================================================
