----------------------------- MODULE ImageData -----------------------------
(***************************************************************************)
(* The formats the image tests are made for: channel type, channel order   *)
(* and geometry (cmake/image_data.cmake), and the function that tells cmake*)
(* which combinations to list.                                             *)
(***************************************************************************)
EXTENDS Integers, Sequences

CHANNEL_TYPES ==
    <<"SNORM_INT8", "SNORM_INT16", "UNORM_INT8", "UNORM_INT16", "UNORM_INT24",
     "UNORM_SHORT_555", "UNORM_SHORT_565", "UNORM_SHORT_101010",
     "SIGNED_INT8", "SIGNED_INT16", "SIGNED_INT32",
     "UNSIGNED_INT8", "UNSIGNED_INT16", "UNSIGNED_INT32", "HALF_FLOAT", "FLOAT">>

(* Groups of orders and geometries that come up together. *)
Plain == {"A", "R", "RX", "RG", "RGX", "RA", "RGBA"}
Packed == {"RGB", "RGBX"}
Swizzled == {"BGRA", "ARGB", "ABGR"}
Srgb == {"SRGB", "SRGBX", "SRGBA", "SBGRA"}
Flat == {"1D", "2D", "3D", "1DA", "2DA", "1DB"}
Deep == {"2DDEPTH", "2DADEPTH"}

(* The orders cmake goes through; the four sRGB orders are left out there. *)
CHANNEL_ORDERS == <<"A", "R", "RX", "RG", "RGX", "RA", "RGB", "RGBX", "RGBA", "BGRA", "ARGB",
                    "ABGR", "INTENSITY", "LUMINANCE", "DEPTH", "DEPTH_STENCIL">>
GEOMETRIES == <<"1D", "2D", "3D", "1DA", "2DA", "1DB", "2DDEPTH", "2DADEPTH">>

AllTypes == {CHANNEL_TYPES[n] : n \in DOMAIN CHANNEL_TYPES}
AllOrders == {CHANNEL_ORDERS[n] : n \in DOMAIN CHANNEL_ORDERS} \cup Srgb
AllGeometries == Flat \cup Deep

(* Pairs of order and geometry the tables of hsa_image_clear.c and         *)
(* hsa_image_copy.c are made of.                                           *)
PlainRows == Plain \X Flat
NormalisedRows == ((Plain \cup {"INTENSITY"}) \X Flat) \cup ({"LUMINANCE"} \X Deep)
SwizzledRows == Swizzled \X Flat
SrgbRows == Srgb \X Flat
PackedRows == Packed \X Flat
DepthRows == {"DEPTH"} \X Deep
StencilRows == {"DEPTH_STENCIL"} \X Deep

-----------------------------------------------------------------------------
(* valid_image goes through eight rules.  A rule matches the arguments     *)
(* against patterns and keeps each result in a variable, and every rule    *)
(* that finds its three variables set makes the format valid.  A variable  *)
(* that a rule does not set has the value an earlier rule left:            *)
(* GEOMETRY_MATCH nearly always, and CHANNEL_TYPE_MATCH where LUMINANCE    *)
(* decides with what INTENSITY matched.                                    *)
Integer == {"SNORM_INT8", "SNORM_INT16", "UNORM_INT8", "UNORM_INT16",
            "SIGNED_INT8", "SIGNED_INT16", "SIGNED_INT32",
            "UNSIGNED_INT8", "UNSIGNED_INT16", "UNSIGNED_INT32"}
Short == {"UNORM_SHORT_555", "UNORM_SHORT_565", "UNORM_SHORT_101010"}
Int8 == {"UNORM_INT8", "SNORM_INT8", "SIGNED_INT8", "UNSIGNED_INT8"}
Normalised == {"UNORM_INT8", "UNORM_INT16", "SNORM_INT8", "SNORM_INT16"}
Float == {"HALF_FLOAT", "FLOAT"}

plain_rule == [CHANNEL_TYPE_MATCH |-> Integer, CHANNEL_FLOAT_TYPE_MATCH |-> Float,
               CHANNEL_ORDER_MATCH |-> Plain, GEOMETRY_MATCH |-> Flat]
packed_rule == [CHANNEL_TYPE_MATCH |-> Short, CHANNEL_ORDER_MATCH |-> Packed]
swizzled_rule == [CHANNEL_TYPE_MATCH |-> Int8, CHANNEL_ORDER_MATCH |-> Swizzled]
srgb_rule == [CHANNEL_TYPE_MATCH |-> {"UNORM_INT8"}, CHANNEL_ORDER_MATCH |-> Srgb]
intensity_rule == [CHANNEL_ORDER_MATCH |-> {"INTENSITY"}, CHANNEL_TYPE_MATCH |-> Normalised,
                   CHANNEL_FLOAT_TYPE_MATCH |-> Float]
luminance_rule == [CHANNEL_ORDER_MATCH |-> {"LUMINANCE"}, CHANNEL_FLOAT_TYPE_MATCH |-> Float,
                   GEOMETRY_MATCH |-> Deep]
depth_rule == [CHANNEL_ORDER_MATCH |-> {"DEPTH"},
               CHANNEL_TYPE_MATCH |-> {"UNORM_INT24", "UNORM_INT16"}]
stencil_rule == [CHANNEL_ORDER_MATCH |-> {"DEPTH_STENCIL"},
                 CHANNEL_TYPE_MATCH |-> {"UNORM_INT24"}]

(* Mutant of rules: INTENSITY comes after the other orders of its types. *)
rules_moved == <<plain_rule, packed_rule, swizzled_rule, srgb_rule, luminance_rule,
                 depth_rule, stencil_rule, intensity_rule>>

rules == <<plain_rule, packed_rule, swizzled_rule, srgb_rule, intensity_rule,
           luminance_rule, depth_rule, stencil_rule>>

valid_image(type, order, geometry) ==
    LET arguments == [CHANNEL_TYPE_MATCH |-> type, CHANNEL_FLOAT_TYPE_MATCH |-> type,
                      CHANNEL_ORDER_MATCH |-> order, GEOMETRY_MATCH |-> geometry]
        match[n \in 1..Len(rules)] ==       \* the variables after rule n
          [v \in DOMAIN arguments |->
             IF v \in DOMAIN rules[n] THEN arguments[v] \in rules[n][v] ELSE match[n - 1][v]]
    IN  \E n \in DOMAIN rules :
          /\ \/ match[n].CHANNEL_TYPE_MATCH
             \/ /\ "CHANNEL_FLOAT_TYPE_MATCH" \in DOMAIN rules[n]
                /\ match[n].CHANNEL_FLOAT_TYPE_MATCH
          /\ match[n].CHANNEL_ORDER_MATCH
          /\ match[n].GEOMETRY_MATCH

(* The test list of an image target: three nested loops over the lists. *)
Formats ==
    LET types == Len(CHANNEL_TYPES)
        orders == Len(CHANNEL_ORDERS)
        geometries == Len(GEOMETRIES)
        loop == [k \in 1..(types * orders * geometries) |->
                   <<CHANNEL_TYPES[((k - 1) \div (orders * geometries)) + 1],
                     CHANNEL_ORDERS[(((k - 1) \div geometries) % orders) + 1],
                     GEOMETRIES[((k - 1) % geometries) + 1]>>]
    IN  SelectSeq(loop, LAMBDA f : valid_image(f[1], f[2], f[3]))
=============================================================================
