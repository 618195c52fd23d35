------------------------------ MODULE Bencode -------------------------------
(***************************************************************************)
(* common/bencode: the encoder and the decoder.  A byte is a symbol, and   *)
(* so is each of the names the protocols use; a buffer is a sequence of    *)
(* symbols, and a position is that of the next one to read.  Values and    *)
(* lookups are in Codec.                                                   *)
(***************************************************************************)
EXTENDS Codec, SequencesExt

\* The symbols, in the order in which sort.Strings puts them.
Alphabet == <<"-", "0", "1", "2", "3", "4", "5", "6", "7", "8", "9", ":", "A", "B", "C", "a",
              "announce_peer", "d", "e", "files", "find_node", "get_peers", "i", "id",
              "implied_port", "info_hash", "l", "length", "m", "metadata_size", "msg_type",
              "name", "nodes", "path", "piece", "port", "q", "r", "t", "target", "token",
              "ut_metadata", "y">>
Digits == SubSeq(Alphabet, 2, 11)
Digit(s) == CHOOSE n \in 0 .. 9 : Digits[n + 1] = s

\* strconv.Itoa and strconv.Atoi.
RECURSIVE Itoa(_)
Itoa(n) == CASE n < 0  -> <<"-">> \o Itoa(-n)
             [] n > 9  -> Append(Itoa(n \div 10), Digits[(n % 10) + 1])
             [] OTHER  -> <<Digits[n + 1]>>
Atoi(s) ==
  LET signed == s # << >> /\ s[1] = "-"
      digits == IF signed THEN Tail(s) ELSE s
      n == FoldLeft(LAMBDA sum, d : 10 * sum + Digit(d), 0, digits)
  IN  IF digits # << >> /\ Range(digits) \subseteq Range(Digits)
      THEN [ok |-> TRUE, n |-> IF signed THEN -n ELSE n]
      ELSE [ok |-> FALSE, n |-> 0]

-----------------------------------------------------------------------------
(* encode.go.                                                              *)

encodeBytes(b) == Itoa(Len(b)) \o <<":">> \o b

RECURSIVE encodeAny(_)
encodeMap(m) ==
  LET keys == SelectSeq(Alphabet, LAMBDA s : s \in DOMAIN m)
      entry(k) == encodeBytes(<<k>>) \o encodeAny(m[k])
  IN  <<"d">> \o FlattenSeq([i \in DOMAIN keys |-> entry(keys[i])]) \o <<"e">>

encodeAny(v) ==
  CASE IsInt(v)   -> <<"i">> \o Itoa(v.int) \o <<"e">>
    [] IsBytes(v) -> encodeBytes(v.bytes)
    [] IsDict(v)  -> encodeMap(v.dict)
    [] IsList(v)  -> <<"l">> \o FlattenSeq([i \in DOMAIN v.list |-> encodeAny(v.list[i])]) \o <<"e">>

-----------------------------------------------------------------------------
(* decode.go.  A result is a value and the position after it, an error, or *)
(* the panic of a key that is not bytes.                                   *)

Decoded(v, pos) == [kind |-> "ok", val |-> v, pos |-> pos]
Failed(kind) == [kind |-> kind, val |-> [int |-> 0], pos |-> 0]

\* F of a result, which is computed once.
Then(result, F(_)) == CHOOSE next \in {F(r) : r \in {result}} : TRUE

\* The first position from pos on that holds s, or the one after the buffer.
Find(buf, pos, s) ==
  LET at == {i \in pos .. Len(buf) : buf[i] = s}
  IN  IF at = {} THEN Max({pos, Len(buf) + 1}) ELSE Min(at)

decodeInt(buf, pos) ==
  LET end == Find(buf, pos + 1, "e")
      n == Atoi(SubSeq(buf, pos + 1, end - 1))
  IN  IF n.ok THEN Decoded([int |-> n.n], end + 1) ELSE Failed("err")

decodeBytes(buf, pos) ==
  LET colon == Find(buf, pos, ":")
      l == Atoi(SubSeq(buf, pos, colon - 1))
  IN  IF l.ok /\ l.n < Len(buf) /\ colon + l.n <= Len(buf)
      THEN Decoded([from |-> colon + 1, len |-> l.n], colon + l.n + 1)
      ELSE Failed("err")

RECURSIVE decodeAny(_, _)

\* The loop of decodeList and decodeDict; in a dict every other item is a key.
RECURSIVE decodeItems(_, _, _, _)
decodeItems(buf, pos, items, isDict) ==
  IF pos > Len(buf) \/ buf[pos] = "e" THEN Decoded(items, pos + 1)
  ELSE Then(decodeAny(buf, pos), LAMBDA item :
         IF item.kind # "ok" THEN item
         ELSE IF isDict /\ Len(items) % 2 = 0 /\ ~IsBytes(item.val) THEN Failed("panic")
         ELSE decodeItems(buf, item.pos, Append(items, item.val), isDict))

decodeList(buf, pos) ==
  Then(decodeItems(buf, pos + 1, << >>, FALSE), LAMBDA r :
    IF r.kind = "ok" THEN Decoded([list |-> r.val], r.pos) ELSE r)

\* The last value of a key stays; a key without a value is dropped.
DictOf(buf, items) ==
  LET pairs == 1 .. Len(items) \div 2
      key(j) == Content(buf, items[2 * j - 1])[1]
      last(k) == Max({j \in pairs : key(j) = k})
  IN  [k \in {key(j) : j \in pairs} |-> items[2 * last(k)]]

decodeDict(buf, pos) ==
  Then(decodeItems(buf, pos + 1, << >>, TRUE), LAMBDA r :
    IF r.kind = "ok" THEN Decoded([dict |-> DictOf(buf, r.val)], r.pos) ELSE r)

decodeAny(buf, pos) ==
  IF pos > Len(buf) THEN Failed("err")
  ELSE CASE buf[pos] = "i"             -> decodeInt(buf, pos)
         [] buf[pos] \in Range(Digits) -> decodeBytes(buf, pos)
         [] buf[pos] = "l"             -> decodeList(buf, pos)
         [] buf[pos] = "d"             -> decodeDict(buf, pos)
         [] OTHER                      -> Failed("err")

\* A decoded value with the bytes its slices show at the moment.
RECURSIVE Value(_, _)
Value(buf, v) ==
  CASE IsInt(v)   -> v
    [] IsBytes(v) -> [bytes |-> Content(buf, v)]
    [] IsList(v)  -> [list |-> [i \in DOMAIN v.list |-> Value(buf, v.list[i])]]
    [] IsDict(v)  -> [dict |-> [k \in DOMAIN v.dict |-> Value(buf, v.dict[k])]]
=============================================================================
