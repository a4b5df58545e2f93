------------------------- MODULE ImageImportExport --------------------------
(***************************************************************************)
(* The executable hsa_image_import_export: unlike the other two it defines *)
(* and adds a test for every combination, the ones no runtime supports     *)
(* included; cmake decides which of them are run.                          *)
(***************************************************************************)
EXTENDS Integers, ImageData

(* A block of the tables: every order with every geometry. *)
Every == AllOrders \X AllGeometries

(* DEFINE_IMAGE_IMPORT_EXPORT_TEST, by channel type. *)
DEFINE_SNORM_INT8 == Every
DEFINE_SNORM_INT16 == Every
DEFINE_UNORM_INT8 == Every
DEFINE_UNORM_INT16 == Every
DEFINE_UNORM_INT24 == Every
DEFINE_UNORM_SHORT_555 == Every
DEFINE_UNORM_SHORT_565 == Every
DEFINE_UNORM_SHORT_101010 == Every
DEFINE_SIGNED_INT8 == Every
DEFINE_SIGNED_INT16 == Every
DEFINE_SIGNED_INT32 == Every
DEFINE_UNSIGNED_INT8 == Every
DEFINE_UNSIGNED_INT16 == Every
DEFINE_UNSIGNED_INT32 == Every
DEFINE_HALF_FLOAT == Every
DEFINE_FLOAT == Every

Defined ==
    [SNORM_INT8 |-> DEFINE_SNORM_INT8, SNORM_INT16 |-> DEFINE_SNORM_INT16,
     UNORM_INT8 |-> DEFINE_UNORM_INT8, UNORM_INT16 |-> DEFINE_UNORM_INT16,
     UNORM_INT24 |-> DEFINE_UNORM_INT24,
     UNORM_SHORT_555 |-> DEFINE_UNORM_SHORT_555,
     UNORM_SHORT_565 |-> DEFINE_UNORM_SHORT_565,
     UNORM_SHORT_101010 |-> DEFINE_UNORM_SHORT_101010,
     SIGNED_INT8 |-> DEFINE_SIGNED_INT8, SIGNED_INT16 |-> DEFINE_SIGNED_INT16,
     SIGNED_INT32 |-> DEFINE_SIGNED_INT32,
     UNSIGNED_INT8 |-> DEFINE_UNSIGNED_INT8,
     UNSIGNED_INT16 |-> DEFINE_UNSIGNED_INT16,
     UNSIGNED_INT32 |-> DEFINE_UNSIGNED_INT32,
     HALF_FLOAT |-> DEFINE_HALF_FLOAT, FLOAT |-> DEFINE_FLOAT]

(* ADD_IMAGE_IMPORT_EXPORT_TEST, by channel type. *)
ADD_SNORM_INT8 == Every
ADD_SNORM_INT16 == Every
ADD_UNORM_INT8 == Every
ADD_UNORM_INT16 == Every
ADD_UNORM_INT24 == Every
ADD_UNORM_SHORT_555 == Every
ADD_UNORM_SHORT_565 == Every
ADD_UNORM_SHORT_101010 == Every
ADD_SIGNED_INT8 == Every
ADD_SIGNED_INT16 == Every
ADD_SIGNED_INT32 == Every
ADD_UNSIGNED_INT8 == Every
ADD_UNSIGNED_INT16 == Every
ADD_UNSIGNED_INT32 == Every
ADD_HALF_FLOAT == Every
ADD_FLOAT == Every

Added ==
    [SNORM_INT8 |-> ADD_SNORM_INT8, SNORM_INT16 |-> ADD_SNORM_INT16,
     UNORM_INT8 |-> ADD_UNORM_INT8, UNORM_INT16 |-> ADD_UNORM_INT16,
     UNORM_INT24 |-> ADD_UNORM_INT24, UNORM_SHORT_555 |-> ADD_UNORM_SHORT_555,
     UNORM_SHORT_565 |-> ADD_UNORM_SHORT_565,
     UNORM_SHORT_101010 |-> ADD_UNORM_SHORT_101010,
     SIGNED_INT8 |-> ADD_SIGNED_INT8, SIGNED_INT16 |-> ADD_SIGNED_INT16,
     SIGNED_INT32 |-> ADD_SIGNED_INT32, UNSIGNED_INT8 |-> ADD_UNSIGNED_INT8,
     UNSIGNED_INT16 |-> ADD_UNSIGNED_INT16,
     UNSIGNED_INT32 |-> ADD_UNSIGNED_INT32, HALF_FLOAT |-> ADD_HALF_FLOAT,
     FLOAT |-> ADD_FLOAT]

(* How many test cases of the name of format f the executable has. *)
cases(f) == IF <<f[2], f[3]>> \in Added[f[1]] THEN 1 ELSE 0
=============================================================================
