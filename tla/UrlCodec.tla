------------------------------- MODULE UrlCodec -------------------------------
(***************************************************************************)
(* index.js, encode and decode: a string of 16-bit code units becomes one of   *)
(* harmless characters, with the UTF-8 bytes of all others after percent signs,  *)
(* and becomes itself again.  A behaviour encodes one string and decodes or       *)
(* encodes the result, or decodes one sequence of bytes.                        *)
(***************************************************************************)
EXTENDS Integers, Sequences

CONSTANTS Words,     \* strings to encode: sequences of code units
          ByteRuns   \* sequences of bytes to decode
LastUnit == 65535
Unit == 0..LastUnit
Byte == 0..255
ASSUME CodecAssumption ==
  Words \subseteq Seq(Unit) /\ Words # {} /\ ByteRuns \subseteq Seq(Byte)

VARIABLE cod

codecVars == <<cod>>

Percent == 37
Unknown16 == 65533                       \* U+FFFD
LastCode == 1114111
High == 55296..56319
Low == 56320..57343
Digits == (48..57) \cup (65..70) \cup (97..102)
Alphanumeric == (48..57) \cup (65..90) \cup (97..122)

(* encode.defaultChars, what updateResult keeps, decode.defaultChars, componentChars. *)
encodeDefault == {59, 47, 63, 58, 64, 38, 61, 43, 36, 44, 45, 95, 46, 33, 126, 42, 39, 40, 41, 35}
linkChars == {45, 95, 46, 33, 126}
decodeDefault == {59, 47, 63, 58, 64, 38, 61, 43, 36, 44, 35}
componentChars == {}

hexDigit(n) == IF n < 10 THEN 48 + n ELSE 55 + n
digitOf(c) == IF c < 58 THEN c - 48 ELSE IF c < 71 THEN c - 55 ELSE c - 87
escaped(byte) == <<Percent, hexDigit(byte \div 16), hexDigit(byte % 16)>>
escapes(bytes) == [k \in 1..(3 * Len(bytes)) |-> escaped(bytes[(k + 2) \div 3])[1 + ((k + 2) % 3)]]

(* What a JavaScript engine's encodeURIComponent does: the escaped bytes of UTF-8. *)
trail(c, n) == 128 + ((c \div n) % 64)
utf8(c) ==
  CASE c < 128 -> <<c>>
    [] c >= 128 /\ c < 2048 -> <<192 + (c \div 64), trail(c, 1)>>
    [] c >= 2048 /\ c < 65536 -> <<224 + (c \div 4096), trail(c, 64), trail(c, 1)>>
    [] OTHER -> <<240 + (c \div 262144), trail(c, 4096), trail(c, 64), trail(c, 1)>>
encodeURIComponent(c) == escapes(utf8(c))

(* Is there an escape at place i of s? *)
isEscape_inner(s, i) ==
  /\ i + 2 < Len(s) /\ s[i] = Percent /\ s[i + 1] \in Digits /\ s[i + 2] \in Digits
isEscape(s, i) ==
  /\ i + 2 <= Len(s) /\ s[i] = Percent /\ s[i + 1] \in Digits /\ s[i + 2] \in Digits

(* A job: the string, how far it is read, what has come out, the exceptions.  *)
jobOf(task, in, chars, keep) ==
  [task |-> task, in |-> in, i |-> 1, out |-> <<>>, chars |-> chars, keepEscaped |-> keep]

Jobs ==
  {[kind |-> "link", todo |-> <<"encode", "decode">>, first |-> w, job |-> jobOf("encode", w, linkChars, FALSE)] :
     w \in Words}
  \cup {[kind |-> "address", todo |-> <<"encode", "encode">>, first |-> w,
                job |-> jobOf("encode", w, encodeDefault, TRUE)] : w \in Words}
  \cup {[kind |-> "bytes", todo |-> <<"decode">>, first |-> r,
                job |-> jobOf("decode", escapes(r), decodeDefault, FALSE)] : r \in ByteRuns}

CodecInit == cod \in Jobs

job == cod.job
reads(task) == cod.todo # <<>> /\ job.task = task /\ job.i <= Len(job.in)
writes(units, n) == cod' = [cod EXCEPT !.job = [job EXCEPT !.out = @ \o units, !.i = @ + n]]
code == job.in[job.i]

-----------------------------------------------------------------------------
(* encode, one round of its loop. *)
keeps_always == isEscape(job.in, job.i)
keeps == job.keepEscaped /\ isEscape(job.in, job.i)

EncodeEscaped ==
  /\ reads("encode") /\ keeps
  /\ writes(SubSeq(job.in, job.i, job.i + 2), 3)

EncodeAscii ==
  /\ reads("encode") /\ ~keeps /\ code < 128
  /\ writes(IF code \in Alphanumeric \cup job.chars THEN <<code>> ELSE escaped(code), 1)

isPair(s, i) == i < Len(s) /\ s[i] \in High /\ s[i + 1] \in Low
pairValue(high, low) == 65536 + (high - 55296) * 1024 + (low - 56320)

EncodePair ==
  /\ reads("encode") /\ isPair(job.in, job.i)
  /\ writes(encodeURIComponent(pairValue(code, job.in[job.i + 1])), 2)

EncodeLone ==
  /\ reads("encode") /\ code \in High \cup Low /\ ~isPair(job.in, job.i)
  /\ writes(encodeURIComponent(Unknown16), 1)

EncodeOther ==
  /\ reads("encode") /\ code >= 128 /\ code \notin High \cup Low
  /\ writes(encodeURIComponent(code), 1)

-----------------------------------------------------------------------------
(* decode: characters outside of escapes stay; a run of escapes is read byte by byte. *)
byteAt(i) ==
  IF isEscape(job.in, i) THEN digitOf(job.in[i + 1]) * 16 + digitOf(job.in[i + 2]) ELSE -1
decoding == reads("decode") /\ byteAt(job.i) # -1

(* The n-th byte of a sequence, if the run goes that far and it is a continuation. *)
follows_any(n) == \A k \in 1..(n - 1) : isEscape(job.in, job.i + 3 * k)
follows(n) ==
  \A k \in 1..(n - 1) : isEscape(job.in, job.i + 3 * k) /\ byteAt(job.i + 3 * k) \div 64 = 2
b(k) == byteAt(job.i + 3 * (k - 1))

(* How many bytes the first one announces, if those that follow are there. *)
sequence ==
  CASE b(1) \div 32 = 6 /\ follows(2) -> 2
    [] b(1) \div 16 = 14 /\ follows(3) -> 3
    [] b(1) \div 8 = 30 /\ follows(4) -> 4
    [] OTHER -> 1

bits(k) == b(k) % 64
chr(n) ==
  CASE n = 2 -> (b(1) % 32) * 64 + bits(2)
    [] n = 3 -> (b(1) % 16) * 4096 + bits(2) * 64 + bits(3)
    [] n = 4 -> (b(1) % 8) * 262144 + bits(2) * 4096 + bits(3) * 64 + bits(4)

(* Overlong sequences, surrogates and what is beyond Unicode are not accepted. *)
refused(n, c) ==
  \/ n = 2 /\ c < 128
  \/ n = 3 /\ (c < 2048 \/ c \in High \cup Low)
  \/ n = 4 /\ (c < 65536 \/ c > LastCode)

units(c) ==
  IF c < 65536 THEN <<c>>
  ELSE <<55296 + ((c - 65536) \div 1024), 56320 + ((c - 65536) % 1024)>>

DecodeAscii ==
  /\ decoding /\ b(1) < 128
  /\ writes(IF b(1) \in job.chars THEN escaped(b(1)) ELSE <<b(1)>>, 3)

DecodeSequence ==
  /\ decoding /\ b(1) >= 128 /\ sequence > 1
  /\ LET n == sequence
         c == chr(n)
     IN  writes(IF refused(n, c) THEN [k \in 1..n |-> Unknown16] ELSE units(c), 3 * n)

DecodeBroken ==
  /\ decoding /\ b(1) >= 128 /\ sequence = 1
  /\ writes(<<Unknown16>>, 3)

DecodePlain ==
  /\ reads("decode") /\ byteAt(job.i) = -1
  /\ writes(<<code>>, 1)

NextJob ==
  /\ cod.todo # <<>> /\ job.i > Len(job.in)
  /\ cod' = [cod EXCEPT
               !.todo = Tail(@),
               !.job = IF Len(cod.todo) = 1 THEN @
                       ELSE IF cod.todo[2] = "decode"
                            THEN jobOf("decode", job.out, componentChars, FALSE)
                       ELSE jobOf("encode", job.out, job.chars, TRUE)]

CodecNext ==
  \/ EncodeEscaped \/ EncodeAscii \/ EncodePair \/ EncodeLone \/ EncodeOther
  \/ DecodeAscii \/ DecodeSequence \/ DecodeBroken \/ DecodePlain \/ NextJob

-----------------------------------------------------------------------------
CodecTypeOK ==
  /\ job.task \in {"encode", "decode"} /\ job.i \in 1..(Len(job.in) + 1)
  /\ job.out \in Seq(Unit)

finished == cod.todo = <<>>
lone(s, i) == \/ s[i] \in High /\ ~isPair(s, i)
              \/ s[i] \in Low /\ (i = 1 \/ ~isPair(s, i - 1))

(* The letters and digits among the first n places of s. *)
plain(s, n) ==
  LET upTo[k \in 0..Len(s)] ==
        IF k = 0 THEN <<>>
        ELSE IF s[k] \in Alphanumeric THEN Append(upTo[k - 1], s[k]) ELSE upTo[k - 1]
  IN  upTo[n]

(* What a permalink carries is what was written, but for halves of characters, which   *)
(* stand as U+FFFD; percent signs and escapes in the text are text like any other.      *)
LinkCarries ==
  finished /\ cod.kind = "link" =>
    job.out = [i \in DOMAIN cod.first |->
                 IF lone(cod.first, i) THEN Unknown16 ELSE cod.first[i]]

(* Encoding what has been encoded changes nothing, where escapes are kept: a link that   *)
(* is encoded by its writer and by the renderer again leads to the same place.          *)
EncodedOnce ==
  finished /\ cod.kind = "address" => job.out = job.in

(* No sequence of bytes, however broken, makes half a character; nor does a byte that    *)
(* announces more than follows take a plain character with it.                        *)
DecodedSound ==
  finished /\ cod.kind = "bytes" =>
    /\ \A i \in DOMAIN job.out : ~lone(job.out, i)
    /\ (\A i \in DOMAIN cod.first : cod.first[i] \notin decodeDefault)
         => plain(job.out, Len(job.out)) = plain(cod.first, Len(cod.first))

(* What goes through the codec comes out: texts in links, addresses encoded twice, and   *)
(* of broken bytes nothing that would break the page.                               *)
CodecSound == CodecTypeOK /\ LinkCarries /\ EncodedOnce /\ DecodedSound
=============================================================================
