----------------------------- MODULE ImageClear -----------------------------
(***************************************************************************)
(* The executable hsa_image_clear: the tests its macros define, and the    *)
(* test cases its main function adds, for each channel type the pairs of   *)
(* channel order and geometry.  Three cases are added a second time at the *)
(* head of main.                                                           *)
(***************************************************************************)
EXTENDS Integers, ImageData

(* DEFINE_IMAGE_CLEAR_TEST, by channel type. *)
DEFINE_SNORM_INT8 == NormalisedRows \cup SwizzledRows
DEFINE_SNORM_INT16 == NormalisedRows
DEFINE_UNORM_INT8 == NormalisedRows \cup SwizzledRows \cup SrgbRows
DEFINE_UNORM_INT16 == NormalisedRows \cup DepthRows
DEFINE_UNORM_INT24 == DepthRows \cup StencilRows
DEFINE_UNORM_SHORT_555 == PackedRows
DEFINE_UNORM_SHORT_565 == PackedRows
DEFINE_UNORM_SHORT_101010 == PackedRows
DEFINE_SIGNED_INT8 == PlainRows \cup SwizzledRows
DEFINE_SIGNED_INT16 == PlainRows
DEFINE_SIGNED_INT32 == PlainRows
DEFINE_UNSIGNED_INT8 == PlainRows \cup SwizzledRows
DEFINE_UNSIGNED_INT16 == PlainRows
DEFINE_UNSIGNED_INT32 == PlainRows
DEFINE_HALF_FLOAT == NormalisedRows
DEFINE_FLOAT == NormalisedRows \cup DepthRows \cup StencilRows

Defined ==
    [SNORM_INT8 |-> DEFINE_SNORM_INT8, SNORM_INT16 |-> DEFINE_SNORM_INT16,
     UNORM_INT8 |-> DEFINE_UNORM_INT8, UNORM_INT16 |-> DEFINE_UNORM_INT16,
     UNORM_INT24 |-> DEFINE_UNORM_INT24,
     UNORM_SHORT_555 |-> DEFINE_UNORM_SHORT_555,
     UNORM_SHORT_565 |-> DEFINE_UNORM_SHORT_565,
     UNORM_SHORT_101010 |-> DEFINE_UNORM_SHORT_101010,
     SIGNED_INT8 |-> DEFINE_SIGNED_INT8, SIGNED_INT16 |-> DEFINE_SIGNED_INT16,
     SIGNED_INT32 |-> DEFINE_SIGNED_INT32,
     UNSIGNED_INT8 |-> DEFINE_UNSIGNED_INT8,
     UNSIGNED_INT16 |-> DEFINE_UNSIGNED_INT16,
     UNSIGNED_INT32 |-> DEFINE_UNSIGNED_INT32,
     HALF_FLOAT |-> DEFINE_HALF_FLOAT, FLOAT |-> DEFINE_FLOAT]

(* ADD_IMAGE_CLEAR_TEST: what stands first in main, then by channel type. *)
ADD_first == {<<"SNORM_INT8", "A", "1DA">>, <<"SNORM_INT8", "R", "1DA">>,
              <<"SNORM_INT16", "R", "1DA">>}
ADD_SNORM_INT8 == NormalisedRows \cup SwizzledRows
ADD_SNORM_INT16 == NormalisedRows
ADD_UNORM_INT8 == NormalisedRows \cup SwizzledRows \cup SrgbRows

(* Mutant of ADD_UNORM_INT16: a row of the table is missing. *)
ADD_UNORM_INT16_short == NormalisedRows \cup {<<"DEPTH", "2DDEPTH">>}

ADD_UNORM_INT16 == NormalisedRows \cup DepthRows
ADD_UNORM_INT24 == DepthRows \cup StencilRows
ADD_UNORM_SHORT_555 == PackedRows
ADD_UNORM_SHORT_565 == PackedRows
ADD_UNORM_SHORT_101010 == PackedRows
ADD_SIGNED_INT8 == PlainRows \cup SwizzledRows
ADD_SIGNED_INT16 == PlainRows
ADD_SIGNED_INT32 == PlainRows
ADD_UNSIGNED_INT8 == PlainRows \cup SwizzledRows
ADD_UNSIGNED_INT16 == PlainRows
ADD_UNSIGNED_INT32 == PlainRows
ADD_HALF_FLOAT == NormalisedRows
ADD_FLOAT == NormalisedRows \cup DepthRows \cup StencilRows

Added ==
    [SNORM_INT8 |-> ADD_SNORM_INT8, SNORM_INT16 |-> ADD_SNORM_INT16,
     UNORM_INT8 |-> ADD_UNORM_INT8, UNORM_INT16 |-> ADD_UNORM_INT16,
     UNORM_INT24 |-> ADD_UNORM_INT24, UNORM_SHORT_555 |-> ADD_UNORM_SHORT_555,
     UNORM_SHORT_565 |-> ADD_UNORM_SHORT_565,
     UNORM_SHORT_101010 |-> ADD_UNORM_SHORT_101010,
     SIGNED_INT8 |-> ADD_SIGNED_INT8, SIGNED_INT16 |-> ADD_SIGNED_INT16,
     SIGNED_INT32 |-> ADD_SIGNED_INT32, UNSIGNED_INT8 |-> ADD_UNSIGNED_INT8,
     UNSIGNED_INT16 |-> ADD_UNSIGNED_INT16,
     UNSIGNED_INT32 |-> ADD_UNSIGNED_INT32, HALF_FLOAT |-> ADD_HALF_FLOAT,
     FLOAT |-> ADD_FLOAT]

(* How many test cases of the name of format f the executable has. *)
cases(f) == (IF f \in ADD_first THEN 1 ELSE 0)
            + (IF <<f[2], f[3]>> \in Added[f[1]] THEN 1 ELSE 0)
=============================================================================
