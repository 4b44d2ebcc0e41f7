----------------------------- MODULE ControlMessages -----------------------------
(***************************************************************************)
(* The JSON codecs of the three control protocols (node, attack, discovery) *)
(* as schemas: a kind says how a value is written, how it is read, what the *)
(* constructors accept and which values the model tries.  A JSON value is a *)
(* tuple whose first component is its JSON type; text and byte strings are  *)
(* their lengths, names are the strings of the enumeration tables.          *)
(***************************************************************************)
EXTENDS ControlKinds

VARIABLES
    message,   \* the message written: its protocol and its value
    wire,      \* the JSON document under way
    reading,   \* what resDecode made of it: one message, or none
    step       \* "idle", "written", "garbled", "read"

messageVars == <<message, wire, reading, step>>

-----------------------------------------------------------------------------
(* Writing and reading by kind.                                            *)

Lacking(f, n) == [m \in DOMAIN f \ {n} |-> f[m]]
KindOf(kind, n) == IF kind.fields[n].is \in {"optional", "default"}
                   THEN kind.fields[n].of ELSE kind.fields[n]
Names(kind) == DOMAIN kind.fields

RECURSIVE Write(_, _)
Write(kind, v) ==
    CASE kind.is = "text"    -> <<"string", v>>
      [] kind.is = "number"  -> <<"number", v>>
      [] kind.is = "flag"    -> <<"boolean", v>>
      [] kind.is = "name"    -> <<"name", kind.table[v]>>
      [] kind.is = "hex"     -> <<"hex", 2 * kind.bytes, v>>
      [] kind.is = "bytes"   -> <<"hex", 2 * v, v>>
      [] kind.is = "list"    -> <<"array", [k \in 1 .. Len(v) |-> Write(kind.of, v[k])]>>
      [] kind.is = "object"  -> <<"object", [n \in DOMAIN v |-> Write(KindOf(kind, n), v[n])]>>
      [] kind.is = "variant" ->
            LET body == Write(kind.alternatives[v[kind.tag]], Lacking(v, kind.tag))
            IN  <<"object", kind.tag :> <<"name", v[kind.tag]>> @@ body[2]>>

\* The sets of values a document can stand for have at most one element; an
\* empty one is an exception of the JSON library or of the reader.
RECURSIVE Reads(_, _)
ReadsList(kind, w) ==
    LET items == [k \in 1 .. Len(w[2]) |-> Reads(kind.of, w[2][k])]
    IN  IF \E k \in 1 .. Len(items) : items[k] = {} THEN {}
        ELSE {[k \in 1 .. Len(items) |-> CHOOSE v \in items[k] : TRUE]}

ReadsField(kind, w, n) ==
    IF n \in DOMAIN w THEN Reads(KindOf(kind, n), w[n])
    ELSE IF kind.fields[n].is = "default" THEN {kind.fields[n].value} ELSE {}

\* Mutant: what an object must never carry is read over.
ReadsObjectAny(kind, w) ==
    LET present == {n \in Names(kind) : n \in DOMAIN w \/ kind.fields[n].is # "optional"}
        values  == [n \in present |-> ReadsField(kind, w, n)]
    IN  IF \E n \in present : values[n] = {} THEN {}
        ELSE {[n \in present |-> CHOOSE v \in values[n] : TRUE]}

ReadsObject(kind, w) ==
    LET present == {n \in Names(kind) : n \in DOMAIN w \/ kind.fields[n].is # "optional"}
        values  == [n \in present |-> ReadsField(kind, w, n)]
    IN  IF kind.never \cap DOMAIN w # {} \/ \E n \in present : values[n] = {} THEN {}
        ELSE {[n \in present |-> CHOOSE v \in values[n] : TRUE]}

Reads(kind, w) ==
    CASE kind.is = "text" /\ w[1] = "string"   -> {w[2]}
      [] kind.is = "number" /\ w[1] = "number" -> {w[2]}
      [] kind.is = "flag" /\ w[1] = "boolean"  -> {w[2]}
      [] kind.is = "name" /\ w[1] = "name"     -> {v \in DOMAIN kind.table : kind.table[v] = w[2]}
      [] kind.is = "hex" /\ w[1] = "hex" /\ w[2] = 2 * kind.bytes -> {w[3]}
      [] kind.is = "bytes" /\ w[1] = "hex" /\ w[2] = 2 * w[3] /\ w[3] \in 1 .. MaxBytes -> {w[3]}
      [] kind.is = "list" /\ w[1] = "array"    -> ReadsList(kind, w)
      [] kind.is = "list" /\ w[1] = "null" /\ kind.loose -> {<<>>}
      [] kind.is = "object" /\ w[1] = "object" -> ReadsObject(kind, w[2])
      [] kind.is = "variant" /\ w[1] = "object" ->
            IF kind.tag \in DOMAIN w[2] /\ w[2][kind.tag][1] = "name"
                                        /\ w[2][kind.tag][2] \in DOMAIN kind.alternatives
            THEN LET tag == w[2][kind.tag][2]
                 IN  {(kind.tag :> tag) @@ v : v \in Reads(kind.alternatives[tag], w)}
            ELSE {}
      [] OTHER -> {}

RECURSIVE Accepted(_, _)
Accepted(kind, v) ==
    CASE kind.is = "text"    -> v \in kind.least .. kind.most
      [] kind.is = "list"    -> /\ Len(v) \in kind.least .. kind.most
                                /\ \A k \in 1 .. Len(v) : Accepted(kind.of, v[k])
      [] kind.is = "object"  -> /\ \A n \in DOMAIN v : Accepted(KindOf(kind, n), v[n])
                                /\ Fits(kind.rule, v)
      [] kind.is = "variant" -> Accepted(kind.alternatives[v[kind.tag]], Lacking(v, kind.tag))
      [] OTHER -> TRUE

-----------------------------------------------------------------------------
(* The values the model tries: a typical one of each kind and variant, and  *)
(* with one leaf of it at each of its boundaries.                           *)

RECURSIVE Typical(_)
TypicalFields(kind) == [n \in Names(kind) |-> Typical(KindOf(kind, n))]
Bases(kind) == {other @@ TypicalFields(kind) : other \in ToSet(kind.others)}
Typical(kind) ==
    CASE kind.is \in {"text", "number", "flag", "name", "hex", "bytes"} -> kind.typical
      [] kind.is = "list"    -> <<Typical(kind.of)>>
      [] kind.is = "object"  -> kind.others[1] @@ TypicalFields(kind)
      [] kind.is = "variant" -> kind.tag :> kind.typical
                                @@ Typical(kind.alternatives[kind.typical])

RECURSIVE Samples(_)
ObjectSamples(kind) ==
    LET Varied(b, n) == {[b EXCEPT ![n] = s] : s \in Samples(KindOf(kind, n))}
                        \cup (IF kind.fields[n].is = "optional" THEN {Lacking(b, n)} ELSE {})
    IN  UNION {Varied(b, n) : b \in Bases(kind), n \in Names(kind)}
Samples(kind) ==
    CASE kind.is \in {"text", "number", "flag", "name", "hex", "bytes"} ->
            kind.values
      [] kind.is = "list"    ->
            {<<s>> : s \in Samples(kind.of)}
            \cup {[k \in 1 .. n |-> Typical(kind.of)] : n \in {0} \cup kind.sizes}
      [] kind.is = "object"  -> ObjectSamples(kind)
      [] kind.is = "variant" ->
            UNION {{kind.tag :> tag @@ s : s \in Samples(kind.alternatives[tag])}
                   : tag \in DOMAIN kind.alternatives}

\* One typical value for every choice of one variant.
RECURSIVE Typicals(_)
Typicals(kind) ==
    CASE kind.is = "list"    -> {<<t>> : t \in Typicals(kind.of)}
      [] kind.is = "object"  ->
            UNION {{[b EXCEPT ![n] = t] : t \in Typicals(KindOf(kind, n))}
                   : b \in Bases(kind), n \in Names(kind)}
      [] kind.is = "variant" ->
            UNION {{kind.tag :> tag @@ t : t \in Typicals(kind.alternatives[tag])}
                   : tag \in DOMAIN kind.alternatives}
      [] OTHER -> {Typical(kind)}

\* What happens to a document of another version or a careless client: one
\* field is missing, null, cut or unknown, or a secret is in an object.
RECURSIVE Garbled(_)
Garbled(w) ==
    {<<"null">>}
    \cup (CASE w[1] = "object" ->
                   {<<"object", Lacking(w[2], n)>> : n \in DOMAIN w[2]}
                   \cup {<<"object", n :> <<"hex", 64, 1>> @@ w[2]>> : n \in Secrets \ DOMAIN w[2]}
                   \cup UNION {{<<"object", [w[2] EXCEPT ![n] = g]>> : g \in Garbled(w[2][n])}
                               : n \in DOMAIN w[2]}
           [] w[1] = "array"  ->
                   UNION {{<<"array", [w[2] EXCEPT ![k] = g]>> : g \in Garbled(w[2][k])}
                          : k \in 1 .. Len(w[2])}
           [] w[1] = "hex"    -> {<<"hex", w[2] - 1, w[3]>>}
           [] w[1] = "string" -> {<<"string", 5>>}
           [] w[1] = "name"   -> {<<"name", "UNKNOWN">>}
           [] OTHER -> {})

\* The leaves two messages of one kind differ in; a missing or a resized part counts once.
RECURSIVE Differences(_, _, _)
Differences(kind, v, r) ==
    CASE kind.is = "list" ->
            IF Len(v) # Len(r) THEN 1
            ELSE MapThenSumSet(LAMBDA k : Differences(kind.of, v[k], r[k]), 1 .. Len(v))
      [] kind.is = "object" ->
            MapThenSumSet(LAMBDA n : IF n \in DOMAIN v \cap DOMAIN r
                                     THEN Differences(KindOf(kind, n), v[n], r[n]) ELSE 1,
                          DOMAIN v \cup DOMAIN r)
      [] kind.is = "variant" ->
            IF v[kind.tag] # r[kind.tag] THEN 1
            ELSE Differences(kind.alternatives[v[kind.tag]],
                             Lacking(v, kind.tag), Lacking(r, kind.tag))
      [] OTHER -> IF v = r THEN 0 ELSE 1

-----------------------------------------------------------------------------
(* A message is built, written, perhaps garbled, and read.                 *)

MessagesInit ==
    /\ message = [protocol |-> "none"]
    /\ wire = <<"null">> /\ reading = {} /\ step = "idle"

\* The details' constructor throws unless Accepted: there is nothing to write.
Compose ==
    /\ step = "idle"
    /\ \E p \in DOMAIN Protocols : \E v \in Samples(Protocols[p]) :
           /\ Accepted(Protocols[p], v)
           /\ message' = [protocol |-> p, value |-> v]
           /\ wire' = Write(Protocols[p], v)
    /\ step' = "written" /\ UNCHANGED reading

\* Bound of the model: only typical messages are garbled.
Garble ==
    /\ step = "written" /\ message.value \in Typicals(Protocols[message.protocol])
    /\ wire' \in Garbled(wire) /\ step' = "garbled"
    /\ UNCHANGED <<message, reading>>

Parse ==
    /\ step \in {"written", "garbled"}
    /\ reading' = {v \in Reads(Protocols[message.protocol], wire) :
                      Accepted(Protocols[message.protocol], v)}
    /\ step' = "read"
    /\ UNCHANGED <<message, wire>>

MessagesNext == Compose \/ Garble \/ Parse

-----------------------------------------------------------------------------
(* Properties.                                                             *)

\* Whatever the constructors accept, the other side reads exactly that: no field
\* is forgotten, renamed, cut or refused by a reader stricter than the writer.
WrittenIsRead ==
    step = "read" /\ wire = Write(Protocols[message.protocol], message.value)
        => reading = {message.value}

\* A damaged document is refused, or read with no more than the damaged field
\* different; what was read can be written and is read the same again.
DamageStaysLocal ==
    LET kind == Protocols[message.protocol]
    IN  step = "read" =>
            \A r \in reading : /\ Differences(kind, message.value, r) <= 1
                              /\ Accepted(kind, r) /\ Reads(kind, Write(kind, r)) = {r}

\* A receiver's context that carries the seed of the chain, or the hash of the
\* file, never becomes a configuration, whatever else it carries.
ReceiversLearnNoSecret ==
    LET Context(w) == w[1] = "object" /\
            \/ "chainSeed" \in DOMAIN w[2]
            \/ /\ "payloadDetails" \in DOMAIN w[2] /\ w[2].payloadDetails[1] = "object"
               /\ "originalSha256" \in DOMAIN w[2].payloadDetails[2]
               /\ "repeatCount" \notin DOMAIN w[2].payloadDetails[2]
    IN  step = "read" /\ message.protocol = "node" /\ message.value.type = "RECEIVER_AUTH_CONTEXTS"
        /\ wire[1] = "object" /\ "contexts" \in DOMAIN wire[2] /\ wire[2].contexts[1] = "array"
            => \A k \in 1 .. Len(wire[2].contexts[2]) :
                   Context(wire[2].contexts[2][k]) => reading = {}

MessagesSafe == WrittenIsRead /\ DamageStaysLocal /\ ReceiversLearnNoSecret
=============================================================================
