----------------------------- MODULE RespDecode -----------------------------
(***************************************************************************)
(* The RESP decoder (resp_decode.c, resp_scan.c) as operators.  The buffer *)
(* is a sequence of bytes from the first one ever received; a position is  *)
(* the index of the next byte to read.  A decoding attempt answers with    *)
(* its status, the position after the value, the value, and the number of  *)
(* nodes it took (resp_nodes.c); limit is how many it can get.             *)
(***************************************************************************)
EXTENDS Integers, Sequences, SequencesExt

CONSTANT IntBits  \* width of int64_t and size_t in the instance

ASSUME DecodeAssumption == IntBits \in Nat \ {0}

CR == "CR"
LF == "LF"
Space == "SP"
DigitOf == [d \in {"0", "1", "2", "3", "4", "5", "6", "7", "8", "9"} |->
              CASE d = "0" -> 0 [] d = "1" -> 1 [] d = "2" -> 2 [] d = "3" -> 3 [] d = "4" -> 4
                [] d = "5" -> 5 [] d = "6" -> 6 [] d = "7" -> 7 [] d = "8" -> 8 [] d = "9" -> 9]

\* Two's complement, which is what the compiled addition gives.
Int64(n) == ((n + 2^(IntBits - 1)) % 2^IntBits) - 2^(IntBits - 1)
SizeT(n) == n % 2^IntBits

Bulk(s) == [type |-> "BULK", bulk |-> s]
Simple(t, s) == [type |-> t, bulk |-> s]
Integer(n) == [type |-> "INTEGER", integer |-> n]
Null == [type |-> "NULL"]
Array(e) == [type |-> "ARRAY", elems |-> e]

Ok(pos, v, n) == [status |-> "OK", pos |-> pos, value |-> v, nodes |-> n]
NeedMore(n) == [status |-> "NEED_MORE", nodes |-> n]
Error(n) == [status |-> "ERROR", nodes |-> n]

\* Least index from i on where the test holds, 0 if there is none.
First(lo, hi, Test(_)) ==
  LET s == {i \in lo..hi : Test(i)} IN IF s = {} THEN 0 ELSE Min(s)

\* Mutant: a CR is taken for a line end before its LF has arrived.
resp__find_crlf_CR(buf, from) == First(from, Len(buf), LAMBDA i : buf[i] = CR)

resp__find_crlf(buf, from) ==
  First(from, Len(buf) - 1, LAMBDA i : buf[i] = CR /\ buf[i + 1] = LF)

\* The digits of buf[from..to-1]; no answer when there are none or others.
resp__parse_int(buf, from, to) ==
  LET neg == from < to /\ buf[from] = "-"
      i == IF neg THEN from + 1 ELSE from
      val[k \in (i - 1)..(to - 1)] == IF k < i THEN 0 ELSE Int64(val[k - 1] * 10 + DigitOf[buf[k]])
  IN IF i < to /\ \A k \in i..(to - 1) : buf[k] \in DOMAIN DigitOf
     THEN <<IF neg THEN Int64(-val[to - 1]) ELSE val[to - 1]>>
     ELSE <<>>

\* The tokens of buf[from..to-1], separated by blanks.
Tokens(buf, from, to) ==
  LET blank(i) == i < from \/ i >= to \/ buf[i] = Space
      starts == SetToSortSeq({i \in from..(to - 1) : ~blank(i) /\ blank(i - 1)}, <)
      last(i) == First(i, to - 1, LAMBDA k : blank(k + 1))
  IN [n \in 1..Len(starts) |-> Bulk(SubSeq(buf, starts[n], last(starts[n])))]

\* A line without a type prefix: its tokens, one node each.
resp__parse_inline(buf, pos, n, limit) ==
  LET lf == First(pos, Len(buf), LAMBDA i : buf[i] = LF)
      end == IF lf > pos /\ buf[lf - 1] = CR THEN lf - 1 ELSE lf
      toks == Tokens(buf, pos, end)
  IN CASE lf = 0                  -> NeedMore(n)
       [] lf > 0 /\ n + Len(toks) > limit -> Error(limit)
       [] OTHER                   -> Ok(lf + 1, Array(toks), n + Len(toks))

\* The rest of $<len>\r\n...
parse_bulk(buf, crlf, len, n) ==
  LET start == crlf + 2
      end == SizeT(start + len)
  IN CASE len < 0                     -> Ok(start, Null, n)
       [] len >= 0 /\ SizeT(end + 2) > Len(buf) + 1 -> NeedMore(n)
       [] OTHER -> IF buf[end] = CR /\ buf[end + 1] = LF
                   THEN Ok(end + 2, Bulk(SubSeq(buf, start, end - 1)), n)
                   ELSE Error(n)

RECURSIVE parse_value(_, _, _, _), parse_array(_, _, _, _, _, _)

\* Each element takes a node, then the nodes of its own value; the first
\* status other than OK is the array's.
parse_array(buf, pos, count, elems, n, limit) ==
  IF Len(elems) >= count THEN Ok(pos, Array(elems), n)
  ELSE IF n >= limit THEN Error(n)
  ELSE LET r == parse_value(buf, pos, n + 1, limit)
       IN IF r.status = "OK" THEN parse_array(buf, r.pos, count, Append(elems, r.value), r.nodes, limit)
          ELSE r

parse_value(buf, pos, n, limit) ==
  IF pos > Len(buf) THEN NeedMore(n)
  ELSE IF buf[pos] \notin {"+", "-", ":", "$", "*"} THEN resp__parse_inline(buf, pos, n, limit)
  ELSE LET crlf == resp__find_crlf(buf, pos + 1)
           int == resp__parse_int(buf, pos + 1, crlf)
       IN CASE crlf = 0 -> NeedMore(n)
            [] crlf > 0 /\ buf[pos] \in {"+", "-"} ->
                 Ok(crlf + 2, Simple(IF buf[pos] = "+" THEN "SIMPLE" ELSE "ERROR",
                                     SubSeq(buf, pos + 1, crlf - 1)), n)
            [] crlf > 0 /\ buf[pos] \in {":", "$", "*"} /\ int = <<>> -> Error(n)
            [] OTHER -> CASE buf[pos] = ":" -> Ok(crlf + 2, Integer(int[1]), n)
                          [] buf[pos] = "$" -> parse_bulk(buf, crlf, int[1], n)
                          [] buf[pos] = "*" -> IF int[1] < 0 THEN Ok(crlf + 2, Null, n)
                                               ELSE parse_array(buf, crlf + 2, int[1], <<>>, n, limit)
-----------------------------------------------------------------------------
(* The reference: how the protocol writes a value *)

Crlf == <<CR, LF>>
Digits(n) ==
  LET digit(k) == CHOOSE d \in DOMAIN DigitOf : DigitOf[d] = k
  IN CASE n < 0   -> <<"-", digit(-n)>>
       [] n \in 0..9 -> <<digit(n)>>
       [] n > 9   -> <<digit(n \div 10), digit(n % 10)>>

RECURSIVE Encode(_), EncodeAll(_)

EncodeAll(s) == IF s = <<>> THEN <<>> ELSE Encode(Head(s)) \o EncodeAll(Tail(s))
Encode(v) ==
  CASE v.type = "BULK"    -> <<"$">> \o Digits(Len(v.bulk)) \o Crlf \o v.bulk \o Crlf
    [] v.type = "SIMPLE"  -> <<"+">> \o v.bulk \o Crlf
    [] v.type = "ERROR"   -> <<"-">> \o v.bulk \o Crlf
    [] v.type = "INTEGER" -> <<":">> \o Digits(v.integer) \o Crlf
    [] v.type = "NULL"    -> <<"$", "-", "1">> \o Crlf
    [] v.type = "ARRAY"   -> <<"*">> \o Digits(Len(v.elems)) \o Crlf \o EncodeAll(v.elems)
=============================================================================
