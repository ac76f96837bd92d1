---------------------------- MODULE StoredValue -----------------------------
(***************************************************************************)
(* What a stored value reads back as: the text of a .json or .yaml file of *)
(* a directory mount (dynamic/src/json.rs, yaml.rs) and the bytes of a     *)
(* fjall entry (dynamic/src/msgpack.rs).                                   *)
(*                                                                         *)
(* A text is a sequence of tokens.  A YAML token knows the indentation of  *)
(* its line and whether it begins the line: nothing else of the layout     *)
(* decides what the reader does.  A string is one of a class, named after  *)
(* what sets its members apart.  A word of bytes is one token that knows   *)
(* its length.                                                             *)
(***************************************************************************)
EXTENDS Integers, Sequences, SequencesExt

CONSTANT Stored     \* the values that are written

VARIABLES value, format, back
stored == <<value, format, back>>

Formats == {"json", "yaml", "text", "msgpack"}

-----------------------------------------------------------------------------
(* Values.                                                                 *)

Nil == [is |-> "null"]
Boolean == [is |-> "bool"]
Number(k, n, f) == [is |-> "num", k |-> k, n |-> n, f |-> f]
String(s) == [is |-> "str", of |-> s]
ListValue(items) == [is |-> "list", items |-> items]
MapValue(entries) == [is |-> "map", entries |-> entries]

\* A typed vector holds bare numbers of the kind k.
VecOfNumbers(k, items) == [is |-> "vec", k |-> k, items |-> items]
VecValue(k, ns) == VecOfNumbers(k, [i \in DOMAIN ns |-> Number(k, ns[i], "whole")])
StructValue(entries) == [is |-> "struct", entries |-> entries]

\* What decoding gives when it fails.
Undecoded == [is |-> "error"]

HasItems(v) == v.is \in {"list", "vec"}
HasEntries(v) == v.is \in {"map", "struct"}

\* The value under a key, added at the end or replaced: IndexMap::insert.
Insert(entries, key, v) ==
  IF \E i \in DOMAIN entries : entries[i][1] = key
  THEN [i \in DOMAIN entries |-> IF entries[i][1] = key THEN <<key, v>> ELSE entries[i]]
  ELSE Append(entries, <<key, v>>)

\* The number of bits of a word of so many bytes, small enough for TLC.
WordBits == [w \in {1, 2, 4, 8} |-> CASE w = 1 -> 4 [] w = 2 -> 5 [] w = 4 -> 6 [] OTHER -> 7]
FitsSigned(n, w) == -(2 ^ (WordBits[w] - 1)) <= n /\ n < 2 ^ (WordBits[w] - 1)
FitsUnsigned(n, w) == n < 2 ^ WordBits[w]
TwosComplement(n, w) == IF n < 2 ^ (WordBits[w] - 1) THEN n ELSE n - 2 ^ WordBits[w]

\* A number as a text has it: a float without a fraction is printed without a
\* point and reads as an integer, an integer beyond I64 reads as a float.
Printed(v) == IF v.f = "whole" /\ FitsSigned(v.n, 8) THEN Number("I64", v.n, "whole")
              ELSE Number("F64", v.n, v.f)

-----------------------------------------------------------------------------
(* JSON                                                                    *)

Sign(s) == [t |-> s]
Datum(v) == [t |-> "datum", of |-> v]

CommaJoined(parts) ==
  FlattenSeq([i \in DOMAIN parts |-> IF i = 1 THEN parts[i] ELSE <<Sign(",")>> \o parts[i]])

RECURSIVE ToJson(_)
ToJson(v) ==
  IF HasItems(v) THEN
    <<Sign("[")>> \o CommaJoined([i \in DOMAIN v.items |-> ToJson(v.items[i])]) \o <<Sign("]")>>
  ELSE IF HasEntries(v) THEN
    <<Sign("{")>>
    \o CommaJoined([i \in DOMAIN v.entries |->
                <<Datum(String(v.entries[i][1])), Sign(":")>> \o ToJson(v.entries[i][2])])
    \o <<Sign("}")>>
  ELSE <<Datum(v)>>

Read(v, pos) == [val |-> v, pos |-> pos]
NotRead == Read(Undecoded, 0)
Missing(r) == r.pos = 0

\* get_string undoes the escapes it knows, which are not all that to_json
\* writes: not those of a backspace and a form feed.  get_token accepts no NaN.
FromJsonDatum(v) ==
  CASE v.is = "num" -> IF v.f = "nan" THEN Undecoded ELSE Printed(v)
    [] v = String("backspace") -> Undecoded
    [] OTHER -> v

RECURSIVE FromJson(_, _), JsonItems(_, _, _), JsonEntries(_, _, _)

FromJson(t, p) ==
  IF p > Len(t) THEN NotRead
  ELSE CASE t[p].t = "[" -> JsonItems(t, p + 1, <<>>)
         [] t[p].t = "{" -> JsonEntries(t, p + 1, <<>>)
         [] t[p].t = "datum" -> LET v == FromJsonDatum(t[p].of)
                                IN  IF v = Undecoded THEN NotRead ELSE Read(v, p + 1)
         [] OTHER -> NotRead

\* A comma between two items is passed over; none is asked for.
PastComma(t, p) == IF p <= Len(t) /\ t[p].t = "," THEN p + 1 ELSE p

JsonItems(t, p, items) ==
  IF p > Len(t) THEN NotRead
  ELSE IF t[p].t = "]" THEN Read(ListValue(items), p + 1)
  ELSE LET item == FromJson(t, p)
       IN  IF Missing(item) THEN NotRead
           ELSE JsonItems(t, PastComma(t, item.pos), Append(items, item.val))

JsonEntries(t, p, entries) ==
  IF p > Len(t) THEN NotRead
  ELSE IF t[p].t = "}" THEN Read(MapValue(entries), p + 1)
  ELSE LET key == FromJson(t, p)
           item == FromJson(t, p + 2)
       IN  IF Missing(key) \/ Missing(item) THEN NotRead
           ELSE JsonEntries(t, PastComma(t, item.pos), Insert(entries, key.val.of, item.val))

-----------------------------------------------------------------------------
(* YAML, the writer                                                        *)

\* Strings that are written without quotes.  "digits" is an integer too long
\* for an I64, "padded" begins with a blank, "colon" ends in a colon.
Bare == {"word", "other", "digits", "padded", "colon"}

Token(indent, head, is, of) == [indent |-> indent, head |-> head, is |-> is, of |-> of]

\* is_yaml_flow_scalar, is_yaml_compact_flow, is_yaml_block
FlowScalar(v) == v.is \in {"null", "bool"} \/ (v.is = "num" /\ v.k \in {"U64", "I64", "F32", "F64"})
Flat(items) == Len(items) \in 2 .. 4 /\ \A i \in DOMAIN items : FlowScalar(items[i])
Bracketed(v) == HasItems(v) /\ (v.items = <<>> \/ Flat(v.items))
IsBlock(v) == HasEntries(v) \/ (HasItems(v) /\ ~(v.is = "list" /\ Bracketed(v)))

OnLine(indent, head, v) ==
  <<Token(indent, head, IF HasItems(v) \/ HasEntries(v) THEN "flow" ELSE "scalar", v)>>

\* Whether the text of a value on lines of its own ends the last of them: only
\* a struct does, behind a field on the line of its key, and what is empty; and
\* yaml_write_seq, behind a map of one entry.
RECURSIVE EndsLine(_)
EndsLine(v) ==
  LET last == IF HasItems(v) THEN Last(v.items) ELSE Last(v.entries)[2]
  IN  CASE Bracketed(v) -> FALSE
        [] HasEntries(v) /\ v.entries = <<>> -> TRUE
        [] HasItems(v) /\ last.is = "map" /\ Len(last.entries) = 1 -> TRUE
        [] IsBlock(last) -> EndsLine(last)
        [] OTHER -> v.is = "struct"

\* A key on a line that has not ended.  Behind a bracket it is a key; a string in
\* quotes takes it up and leaves the colon; with any other text it is one key.
Glued(t, key) ==
  LET last == Last(t)
  IN  CASE last.is = "flow" -> Append(t, Token(last.indent, FALSE, "key", key))
        [] last.of.is = "str" /\ last.of.of \notin Bare ->
             Front(t) \o <<[last EXCEPT !.of = String("glued")], Token(last.indent, FALSE, "colon", ":")>>
        [] OTHER -> Front(t) \o <<[last EXCEPT !.is = "key", !.of = "glued " \o key]>>

RECURSIVE ToYaml(_, _), YamlEntries(_, _, _), YamlFields(_, _), YamlItem(_, _)

\* A value after its key, on a line indented by `line`.
After(line, v, indent) == IF IsBlock(v) THEN ToYaml(v, indent) ELSE OnLine(line, FALSE, v)

YamlEntries(entries, indent, head) ==
  FlattenSeq([i \in DOMAIN entries |->
    <<Token(indent, head \/ i > 1, "key", entries[i][1])>>
    \o After(indent, entries[i][2], indent + 2)])

\* The fields of a struct: a value on the line of its key ends the line, one on
\* lines of its own does not.
YamlFields(fields, indent) ==
  LET Ended(i) == i = 0 \/ ~ IsBlock(fields[i][2]) \/ EndsLine(fields[i][2])
      Begun(t, i) == IF Ended(i - 1) THEN Append(t, Token(indent, TRUE, "key", fields[i][1]))
                     ELSE Glued(t, fields[i][1])
      Field(t, i) == Begun(t, i) \o After(Last(Begun(t, i)).indent, fields[i][2], indent + 2)
  IN  FoldLeftDomain(Field, <<>>, fields)

\* Mutant of YamlItem: the first value of the map is indented as the others.
YamlItemShallow(v, indent) ==
  <<Token(indent, TRUE, "dash", "-")>> \o
  IF v.is = "map" /\ v.entries # <<>>
  THEN <<Token(indent, FALSE, "key", v.entries[1][1])>>
       \o After(indent, v.entries[1][2], indent + 2)
       \o YamlEntries(Tail(v.entries), indent + 2, TRUE)
  ELSE After(indent, v, indent + 2)

\* yaml_write_seq puts the first entry of a map behind the dash.
YamlItem(v, indent) ==
  <<Token(indent, TRUE, "dash", "-")>> \o
  IF v.is = "map" /\ v.entries # <<>>
  THEN <<Token(indent, FALSE, "key", v.entries[1][1])>>
       \o After(indent, v.entries[1][2], indent + 4)
       \o YamlEntries(Tail(v.entries), indent + 2, TRUE)
  ELSE After(indent, v, indent + 2)

\* to_yaml_indent.  A short list of numbers and an empty struct are written
\* without the indentation, an empty map not at all.
ToYaml(v, indent) ==
  CASE HasItems(v) /\ Flat(v.items) -> OnLine(0, TRUE, v)
    [] HasItems(v) /\ v.items = <<>> -> OnLine(indent, TRUE, v)
    [] HasItems(v) -> FlattenSeq([i \in DOMAIN v.items |-> YamlItem(v.items[i], indent)])
    [] v.is = "struct" /\ v.entries = <<>> -> OnLine(0, TRUE, v)
    [] v.is = "struct" -> YamlFields(v.entries, indent)
    [] v.is = "map" -> YamlEntries(v.entries, indent, TRUE)
    [] OTHER -> OnLine(indent, TRUE, v)

-----------------------------------------------------------------------------
(* YAML, the reader                                                        *)

\* A value and where it ends: "loose" is just behind a token, before the
\* blanks that begin the next line.
Parsed(v, pos, loose) == [val |-> v, pos |-> pos, loose |-> loose]
Broken == Parsed(Undecoded, 0, FALSE)

\* scalar_to_dynamic and unescape_double_quoted, which knows no backspace.
FromScalar(v) ==
  CASE v.is = "num" -> IF v.f = "nan" THEN String("NaN") ELSE Printed(v)
    [] v = String("digits") -> Number("F64", 2 ^ WordBits[8], "whole")
    [] v = String("padded") -> String("word")
    [] v = String("backspace") -> String("\\b")
    [] OTHER -> v

\* parse_flow_seq and parse_flow_map
FromFlow(v) == IF HasItems(v) THEN ListValue([i \in DOMAIN v.items |-> FromScalar(v.items[i])])
               ELSE MapValue(<<>>)

NoKey == [name |-> "", next |-> 0]
KeyAt(name, next) == [name |-> name, next |-> next]

\* try_read_key: what stands before a colon on the rest of the line.  At a dash
\* that is the dash as well, and before the blanks of a line, where the quote is
\* not the first character, the quotes.
TryKey(t, p, loose) ==
  LET quoted(k) == IF k \in Bare THEN k ELSE "'" \o k \o "'"
      same(q) == q <= Len(t) /\ ~ t[q].head
  IN  CASE p > Len(t) -> NoKey
        [] t[p].is = "key" ->
             LET blanks == loose /\ t[p].head /\ t[p].indent > 0
             IN  KeyAt(IF blanks THEN quoted(t[p].of) ELSE t[p].of, p + 1)
        [] t[p].is = "dash" /\ same(p + 1) /\ t[p + 1].is = "key" ->
             KeyAt("- " \o quoted(t[p + 1].of), p + 2)
        [] t[p].is = "dash" /\ same(p + 2) /\ t[p + 2].is = "colon" -> KeyAt("- glued", p + 3)
        [] t[p].is = "scalar" /\ t[p].of = String("colon") -> KeyAt("no colon", p + 1)
        [] OTHER -> NoKey

\* The start of the next line.
NextLine(t, p) ==
  LET heads == {q \in p + 1 .. Len(t) : t[q].head}
  IN  IF heads = {} THEN Len(t) + 1 ELSE CHOOSE q \in heads : \A r \in heads : q <= r

RECURSIVE Node(_, _, _), Entries(_, _, _, _, _, _), Items(_, _, _, _), Pair(_, _, _, _, _)

\* parse_node
Node(t, p, least) ==
  LET key == TryKey(t, p, FALSE)
      indent == t[p].indent
  IN  CASE p > Len(t) -> Broken
        [] t[p].is = "flow" -> Parsed(FromFlow(t[p].of), p + 1, TRUE)
        [] indent < least -> Broken
        [] t[p].is = "dash" -> Items(t, p, indent, <<>>)
        [] key # NoKey -> Entries(t, key.next, indent, <<>>, key.name, TRUE)
        [] OTHER -> Parsed(FromScalar(t[p].of), p + 1, TRUE)

\* parse_node_tolerant: what cannot be read is the text of its line.
Tolerant(t, p, least) ==
  LET node == Node(t, p, least)
  IN  IF Missing(node) THEN Parsed(String("the line"), NextLine(t, p), TRUE) ELSE node

\* parse_block_map, behind the colon of `key` when a value is expected.  A key
\* whose value never comes is dropped.
Entries(t, p, least, entries, key, expected) ==
  LET next == TryKey(t, p, FALSE)
      empty == t[p].indent = least /\ t[p].is # "dash" /\ next # NoKey
      node == Tolerant(t, p, t[p].indent)
      With(v) == Insert(entries, key, v)
  IN  IF p > Len(t) \/ t[p].indent < least THEN Parsed(MapValue(entries), p, FALSE)
      ELSE IF expected /\ empty THEN Entries(t, next.next, least, With(Nil), next.name, TRUE)
      ELSE IF expected THEN Entries(t, node.pos, least, With(node.val), key, FALSE)
      ELSE IF next # NoKey THEN Entries(t, next.next, least, entries, next.name, TRUE)
      ELSE Entries(t, NextLine(t, p), least, entries, key, FALSE)

\* The map behind a dash of that indentation, whose first key has been read.
Pair(t, p, least, indent, key) ==
  LET first == Tolerant(t, p, least)
      q == first.pos
      next == TryKey(t, q, first.loose)
      one == MapValue(Insert(<<>>, key, first.val))
      rest == Entries(t, next.next, t[q].indent - 1, <<>>, next.name, TRUE)
      both == FoldLeft(LAMBDA es, e : Insert(es, e[1], e[2]), one.entries, rest.val.entries)
  IN  IF p > Len(t) THEN Parsed(MapValue(<< <<key, String("")>> >>), p, FALSE)
      ELSE IF q <= Len(t) /\ t[q].indent > indent /\ next # NoKey
      THEN Parsed(MapValue(both), rest.pos, FALSE)
      ELSE Parsed(one, q, FALSE)

\* parse_block_seq
Items(t, p, least, items) ==
  LET key == TryKey(t, p + 1, FALSE)
      item == IF key # NoKey THEN Pair(t, key.next, least, t[p].indent, key.name)
              ELSE Tolerant(t, p + 1, least)
  IN  IF p > Len(t) \/ t[p].indent < least THEN Parsed(ListValue(items), p, FALSE)
      ELSE IF t[p].is # "dash" /\ t[p].indent = least THEN Parsed(ListValue(items), p, FALSE)
      ELSE IF t[p].is # "dash" THEN Items(t, NextLine(t, p), least, items)
      ELSE IF p = Len(t) THEN Parsed(ListValue(Append(items, Nil)), p + 1, FALSE)
      ELSE Items(t, item.pos, least, Append(items, item.val))

FromYaml(t) == IF Missing(Node(t, 1, 0)) THEN String("") ELSE Node(t, 1, 0).val

-----------------------------------------------------------------------------
(* MessagePack                                                             *)

Tag(s) == [size |-> 1, tag |-> s]
Word(n, w) == [size |-> w, tag |-> "word", of |-> n % 2 ^ WordBits[w]]
Payload(x, size) == [size |-> size, tag |-> "payload", of |-> x]

\* The first of the three headers that holds n, and n in its width.
Sized(n, small, medium, large) ==
  CASE FitsUnsigned(n, 1) /\ small # "" -> <<Tag(small), Word(n, 1)>>
    [] FitsUnsigned(n, 2) -> <<Tag(medium), Word(n, 2)>>
    [] OTHER -> <<Tag(large), Word(n, 4)>>

Short(tag, n) == <<[size |-> 1, tag |-> tag, of |-> n]>>

\* i64::encode
PackInt(n) ==
  CASE n >= 0 /\ FitsSigned(n, 1) -> Short("fixint", n)
    [] n < 0 /\ n > -(2 ^ (WordBits[1] - 3)) -> Short("fixint", n)
    [] FitsSigned(n, 1) -> <<Tag("d0"), Word(n, 1)>>
    [] FitsSigned(n, 2) -> <<Tag("d1"), Word(n, 2)>>
    [] FitsSigned(n, 4) -> <<Tag("d2"), Word(n, 4)>>
    [] OTHER -> <<Tag("d3"), Word(n, 8)>>

StringSize(s) == CASE s = "" -> 0 [] s = "long" -> 2 ^ WordBits[1] [] OTHER -> 2
ElementSize(k) == CASE k \in {"I8", "Bytes"} -> 1 [] k \in {"I16", "U16"} -> 2
                    [] k \in {"I32", "U32", "F32"} -> 4 [] OTHER -> 8

PackStr(s) ==
  LET n == StringSize(s)
  IN  (IF n < 2 ^ (WordBits[1] - 3) THEN Short("fixstr", n) ELSE Sized(n, "d9", "da", "db"))
      \o <<Payload(s, n)>>

\* The numbers of a vector follow as they lie in memory.
PackVec(v) ==
  LET n == Len(v.items)
      raw == <<Payload(v.items, n * ElementSize(v.k))>>
      header == Sized(n, "c7", "c8", "c9")
  IN  IF v.k = "Bytes" THEN Sized(n, "c4", "c5", "c6") \o raw
      ELSE header \o Short("kind", v.k) \o raw

RECURSIVE Pack(_)
Pack(v) ==
  LET count(n, fix, medium, large) ==
        IF n < 2 ^ (WordBits[1] - 4) THEN Short(fix, n) ELSE Sized(n, "", medium, large)
  IN CASE v.is = "null" -> <<Tag("c0")>>
       [] v.is = "bool" -> <<Tag("c3")>>
       [] v.is = "num" /\ v.k = "F32" -> <<Tag("ca"), Payload(v, 4)>>
       [] v.is = "num" /\ v.k = "F64" -> <<Tag("cb"), Payload(v, 8)>>
       [] v.is = "num" -> PackInt(TwosComplement(v.n % 2 ^ WordBits[8], 8))
       [] v.is = "str" -> PackStr(v.of)
       [] v.is = "vec" -> PackVec(v)
       [] v.is = "list" -> count(Len(v.items), "fixlist", "dc", "dd")
                           \o FlattenSeq([i \in DOMAIN v.items |-> Pack(v.items[i])])
       [] HasEntries(v) -> count(Len(v.entries), "fixmap", "de", "df")
                           \o FlattenSeq([i \in DOMAIN v.entries |->
                                PackStr(v.entries[i][1]) \o Pack(v.entries[i][2])])

\* What is left of the buffer.
Left(t, p) == FoldLeft(LAMBDA n, x : n + x.size, 0, SubSeq(t, p, Len(t)))

\* A typed vector asks for a buffer of at least so many bytes.
LeastBuffer(tag) == CASE tag = "c7" -> 7 [] tag = "c8" -> 8 [] tag = "c9" -> 10

RECURSIVE Unpack(_, _), UnpackArray(_, _, _)

\* decode_array: n values one after the other.
UnpackArray(t, p, n) ==
  LET first == Unpack(t, p)
      rest == UnpackArray(t, first.pos, n - 1)
  IN  IF n = 0 THEN Read(<<>>, p)
      ELSE IF Missing(first) THEN NotRead
      ELSE IF Missing(rest) THEN NotRead
      ELSE Read(<<first.val>> \o rest.val, rest.pos)

\* vec_to_map: keys and values by turns.
Paired(vs) == FoldLeft(LAMBDA es, i : Insert(es, vs[2 * i - 1].of, vs[2 * i]), <<>>,
                       [i \in 1 .. Len(vs) \div 2 |-> i])

Unpack(t, p) ==
  LET tag == t[p].tag
      n == IF tag \in {"fixlist", "fixmap"} THEN t[p].of ELSE t[p + 1].of
      q == IF tag \in {"fixlist", "fixmap"} THEN p + 1 ELSE p + 2
      width == CASE tag = "d0" -> 1 [] tag = "d1" -> 2 [] tag = "d2" -> 4 [] tag = "d3" -> 8
      many == UnpackArray(t, q, IF tag \in {"fixmap", "de", "df"} THEN 2 * n ELSE n)
  IN  CASE p > Len(t) -> NotRead
        [] tag = "c0" -> Read(Nil, p + 1)
        [] tag = "c3" -> Read(Boolean, p + 1)
        [] tag = "fixint" -> Read(Number("I64", t[p].of, "whole"), p + 1)
        [] tag \in {"d0", "d1", "d2", "d3"} ->
             Read(Number("I64", TwosComplement(t[p + 1].of, width), "whole"), p + 2)
        [] tag \in {"ca", "cb"} -> Read([t[p + 1].of EXCEPT !.k = "F64"], p + 2)
        [] tag = "fixstr" -> Read(String(t[p + 1].of), p + 2)
        [] tag \in {"d9", "da", "db"} -> Read(String(t[p + 2].of), p + 3)
        [] tag \in {"c4", "c5", "c6"} -> Read(VecOfNumbers("Bytes", t[p + 2].of), p + 3)
        [] tag \in {"c7", "c8", "c9"} ->
             IF Left(t, p) < LeastBuffer(tag) THEN NotRead
             ELSE Read(VecOfNumbers(t[p + 2].of, t[p + 3].of), p + 4)
        [] tag \in {"fixlist", "dc", "dd", "fixmap", "de", "df"} ->
             IF Missing(many) THEN NotRead
             ELSE Read(IF tag \in {"fixlist", "dc", "dd"} THEN ListValue(many.val)
                       ELSE MapValue(Paired(many.val)), many.pos)

-----------------------------------------------------------------------------
\* encode_value and decode_value: a string goes to a .json file as it is, and
\* to a file of another name only a string goes.
FromJsonText(s) == IF s = "digits" THEN FromScalar(String(s)) ELSE Undecoded

Back(f, v) ==
  CASE f = "json" -> IF v.is = "str" THEN FromJsonText(v.of) ELSE FromJson(ToJson(v), 1).val
    [] f = "yaml" -> FromYaml(ToYaml(v, 0))
    [] f = "text" -> IF v.is = "str" THEN v ELSE String("")
    [] f = "msgpack" -> Unpack(Pack(v), 1).val

Pending == [is |-> "pending"]

InitStored == /\ value \in Stored
              /\ format \in Formats
              /\ back = Pending

Store == /\ back = Pending
         /\ back' = Back(format, value)
         /\ UNCHANGED <<value, format>>

SpecStored == InitStored /\ [][Store]_stored

-----------------------------------------------------------------------------
(* Properties                                                              *)

RECURSIVE Parts(_), AsRead(_, _)

\* A value and what it holds.
Parts(v) ==
  {v} \cup (IF HasItems(v) THEN UNION {Parts(v.items[i]) : i \in DOMAIN v.items}
            ELSE IF HasEntries(v) THEN UNION {Parts(v.entries[i][2]) : i \in DOMAIN v.entries}
            ELSE {})

\* What a value may read back as: no format keeps the width of a number, and
\* none a struct; the texts keep neither vectors nor whole floats.
AsRead(f, v) ==
  CASE v.is = "num" /\ f # "msgpack" -> Printed(v)
    [] v.is = "num" -> [v EXCEPT !.k = IF v.k \in {"F32", "F64"} THEN "F64" ELSE "I64"]
    [] v.is = "list" \/ (v.is = "vec" /\ f # "msgpack") ->
         ListValue([i \in DOMAIN v.items |-> AsRead(f, v.items[i])])
    [] HasEntries(v) ->
         MapValue([i \in DOMAIN v.entries |-> <<v.entries[i][1], AsRead(f, v.entries[i][2])>>])
    [] OTHER -> v

\* The lists and vectors, and the maps and structs, of a value.
Sequenced(v) == {x \in Parts(v) : HasItems(x)}
Keyed(v) == {x \in Parts(v) : HasEntries(x)}
Children(v) == IF HasItems(v) THEN ToSet(v.items) ELSE {v.entries[i][2] : i \in DOMAIN v.entries}

\* A string is the text of a .json file; no escape is read for a backspace, and
\* no number for NaN.
KeptByJson(v) ==
  /\ v.is # "str"
  /\ \A x \in Parts(v) : x # String("backspace") /\ (x.is = "num" => x.f # "nan")

\* Strings that are written without quotes and read as something else; an empty
\* map, which is not written; a list in a list that begins with a map, whose
\* dash is taken for a part of the key; the second key of a map in a list, whose
\* quotes are; a short vector in an inner map, written without indentation; a
\* field of a struct after one that leaves its last line open, but behind a
\* bracket of its own list or of the last list in it.
KeptByYaml(v) ==
  /\ \A x \in Parts(v) :
       /\ x.is = "str" => x.of \notin {"backspace", "digits", "padded", "colon"}
       /\ x.is = "num" => x.f # "nan"
  /\ \A x \in Keyed(v) : x.entries # <<>>
  /\ \A x \in Sequenced(v) : \A y \in Children(x) :
       /\ y.is = "list" /\ y.items # <<>> => ~HasEntries(y.items[1])
       /\ HasEntries(y) /\ Len(y.entries) > 1 => y.entries[2][1] \in Bare
  /\ \A x \in Keyed(v) \ {v} : \A y \in Children(x) : y.is = "vec" => ~Flat(y.items)
  /\ \A x \in Keyed(v) : x.is = "struct" => \A y \in {f[2] : f \in ToSet(Front(x.entries))} :
       \/ ~IsBlock(y) \/ EndsLine(y) \/ Bracketed(y)
       \/ HasItems(y) /\ LET last == Last(y.items)
                         IN  Bracketed(last) /\ (last.is = "list" \/ (x = v /\ last.items # <<>>))

\* A U64 above the greatest I64 is negative, and a vector of less than four
\* bytes is refused.
KeptByMsgpack(v) ==
  \A x \in Parts(v) :
    /\ x.is = "num" => x.n < 2 ^ (WordBits[8] - 1)
    /\ x.is = "vec" /\ x.k # "Bytes" => Len(x.items) * ElementSize(x.k) >= 4

Kept(f, v) ==
  CASE f = "json" -> KeptByJson(v)
    [] f = "yaml" -> KeptByYaml(v)
    [] f = "text" -> v.is = "str"
    [] f = "msgpack" -> KeptByMsgpack(v)

\* What is stored in a mount reads back as it was, whatever is nested in what,
\* and stays so when a later update reads it and writes it again.  Left out are
\* the values the README lists, each of which does change.
\* Code: encode_value and decode_value, root/src/mount.rs:1019-1065; what the
\* layout of ToYaml promises FromYaml, dynamic/src/yaml.rs.
StoredReadsBack ==
  back # Pending =>
    (Kept(format, value) => back = AsRead(format, value) /\ Back(format, back) = back)
=============================================================================
