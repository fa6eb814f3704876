----------------------------- MODULE JsonCodec -----------------------------
(***************************************************************************)
(* lib/codec/example_json_codec.c, called again and again with any payload *)
(* and any buffer.  Of a text only its length matters here, and what a     *)
(* call that fails leaves of it in the buffer.                             *)
(*                                                                         *)
(* The JSON library is outside src/.  example_json_codec_encode gives it   *)
(* &payload, the address of its own parameter, when it asks for the length *)
(* that the payload will have: what is measured are the words on the stack *)
(* from there on, read as if they were a payload.  The model lets them be  *)
(* any payload.                                                            *)
(***************************************************************************)
EXTENDS Integers

CONSTANTS
  Digits,   \* how many characters each number of a payload takes
  Buffers   \* the lengths of buffers to try

ASSUME CodecAssumption == Digits \subseteq Nat \ {0} /\ Buffers \subseteq Nat

VARIABLES
  jsonPc,     \* "off", "idle" between two calls, "check" or "encode"
  trueLen,    \* the length of this payload's text
  buf_len,    \* the length of the buffer
  jsonResult  \* what the last call returned, 0 before the first

jsonVars == <<jsonPc, trueLen, buf_len, jsonResult>>

ENOMEM == 12

\* A payload is five numbers in a frame of keys and braces.
Frame == 82
Lengths == {Frame + t + s + x + y + z : t, s, x, y, z \in Digits}

JsonInit == jsonPc = "off" /\ trueLen = 0 /\ buf_len = 0 /\ jsonResult = 0

\* The processor is reset and starts this image or another one.
JsonBoot(runs) ==
  /\ jsonPc' = IF runs THEN "idle" ELSE "off"
  /\ trueLen' = 0 /\ buf_len' = 0 /\ jsonResult' = 0

example_json_codec_encode(length, size) ==
  /\ jsonPc = "idle" /\ jsonPc' = "check"
  /\ trueLen' = length /\ buf_len' = size /\ jsonResult' = 0

JsonReturns(result) == jsonPc' = "idle" /\ jsonResult' = result

\* The measured length is of something else; "could be smaller" says the code.
json_calc_encoded_len(len) ==
  /\ jsonPc = "check"
  /\ \/ buf_len < len /\ JsonReturns(-ENOMEM)
     \/ buf_len >= len /\ jsonPc' = "encode" /\ UNCHANGED jsonResult
  /\ UNCHANGED <<trueLen, buf_len>>

\* The library wants room for the text and the 0 that ends it.  If there is
\* none, it has written the parts that fit.  The variant called Wrong_ is a
\* mistake that the property tells from the code.
Wrong_ReturnsStrlen ==
  /\ jsonPc = "encode"
  /\ \/ trueLen < buf_len /\ JsonReturns(trueLen)
     \/ trueLen >= buf_len /\ \E part \in 0..buf_len : JsonReturns(part)
  /\ UNCHANGED <<trueLen, buf_len>>

json_obj_encode_buf ==
  /\ jsonPc = "encode"
  /\ \/ trueLen < buf_len /\ JsonReturns(trueLen)
     \/ trueLen >= buf_len /\ JsonReturns(-ENOMEM)
  /\ UNCHANGED <<trueLen, buf_len>>

JsonStep ==
  \/ \E length \in Lengths, size \in Buffers :
       example_json_codec_encode(length, size)
  \/ \E len \in Lengths : json_calc_encoded_len(len)
  \/ json_obj_encode_buf

JsonNext == JsonStep \/ \E runs \in BOOLEAN : JsonBoot(runs)

JsonSpec == JsonInit /\ [][JsonNext]_jsonVars

-----------------------------------------------------------------------------
(* What the function promises.                                             *)

JsonTypeOK ==
  /\ jsonPc \in {"off", "idle", "check", "encode"}
  /\ trueLen \in {0} \cup Lengths /\ buf_len \in {0} \cup Buffers
  /\ jsonResult \in {0, -ENOMEM} \cup Lengths

\* A length is returned only of a text that is whole and ends inside the
\* buffer, although the length that the buffer is compared with is that of
\* something else.
EncodedWhole == jsonResult > 0 => jsonResult = trueLen /\ trueLen < buf_len

\* A buffer that could hold any payload is refused for none.
LargeBufferServes ==
  jsonResult = -ENOMEM => \E length \in Lengths : buf_len <= length

\* No text is cut, and no buffer for any payload is refused.
CodecSafe == EncodedWhole /\ LargeBufferServes

\* "Return error if buffer isn't correctly sized", says the comment on the
\* check.  It also returns one for buffers with room for the text.
RefusedIfTooSmall == jsonResult = -ENOMEM => buf_len <= trueLen
=============================================================================
