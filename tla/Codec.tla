------------------------------- MODULE Codec --------------------------------
(***************************************************************************)
(* What the packet handlers (Krpc) and the metadata client (BitTorrent)    *)
(* see of common/bencode: values, the lookups of util.go, and an encoder   *)
(* and a decoder, which are CONSTANTS here and Bencode in the runs.  The   *)
(* two modules name what they need of them in their assumptions.           *)
(*                                                                         *)
(* A value is [int |-> n], [bytes |-> symbols], [list |-> values] or       *)
(* [dict |-> name :> value].  The decoder does not copy: the bytes it      *)
(* returns are [from |-> p, len |-> n], a slice of the buffer.             *)
(***************************************************************************)
EXTENDS Integers, Sequences

CONSTANTS Symbols,           \* the bytes, and the names the protocols use
          Encode(_),         \* BEncode of a value
          DecodeAny(_, _),   \* decodeAny and decodeDict of a buffer, from a position on:
          DecodeDict(_, _),  \* a record of kind, val and pos, the position after val
          ValueOf(_, _)      \* a decoded value with the bytes its slices show in a buffer

IsInt(v) == "int" \in DOMAIN v
IsBytes(v) == "bytes" \in DOMAIN v \/ "from" \in DOMAIN v
IsList(v) == "list" \in DOMAIN v
IsDict(v) == "dict" \in DOMAIN v

Content(buf, slice) == SubSeq(buf, slice.from, slice.from + slice.len - 1)

-----------------------------------------------------------------------------
(* util.go.                                                                *)

Nothing == [nothing |-> TRUE]

\* One round of the loop.  A value that is no dict stands for what a last step
\* would find in it; no path of the program has more than two names.
Entry(v, name) ==
  IF ~IsDict(v) THEN v
  ELSE IF name \in DOMAIN v.dict THEN v.dict[name] ELSE Nothing
GetByPath(v, path) ==
  IF Len(path) = 1 THEN Entry(v, path[1])
  ELSE IF IsDict(v) THEN Entry(Entry(v, path[1]), path[2]) ELSE Nothing

CheckMapPath(v, path) == GetByPath(v, path) # Nothing

\* GetInt, whose second result is "ok".
HasInt(v, path) == IsInt(GetByPath(v, path))
GetInt(v, path) == IF HasInt(v, path) THEN GetByPath(v, path).int ELSE 0

\* MustGetBytes.
GetBytes(v, path) == LET r == GetByPath(v, path) IN IF IsBytes(r) THEN r ELSE Nothing
=============================================================================
